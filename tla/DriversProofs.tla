--------------------------- MODULE DriversProofs ---------------------------
(***************************************************************************)
(* The three drivers for queues, trigger levels, clocks, keyboards and     *)
(* numbers of bytes of any size.                                           *)
(***************************************************************************)
EXTENDS Drivers, SequenceTheorems, TLAPS

\* Interrupts are enabled from the fifth stage on.
LEMMA EnabledFrom ==
    ASSUME NEW b \in 1 .. 12
    PROVE  (\E i \in 1 .. b - 1 : Stages[i] = "idt_init") <=> b >= 5
<1>1. \A k \in 1 .. b - 1 : Stages[k] = "idt_init" <=> k = 4
  BY DEF Stages
<1> QED BY <1>1

\* The stages by their number.
LEMMA StageNumbers ==
    ASSUME boot \in 1 .. 12
    PROVE  /\ At("serial_port") <=> boot = 1
           /\ At("serial_install") <=> boot = 2
           /\ At("serial_enable") <=> boot = 3
           /\ At("idt_init") <=> boot = 4
           /\ At("kbd_first") <=> boot = 5
           /\ At("kbd_second") <=> boot = 6
           /\ At("rtc_enable") <=> boot = 7
           /\ At("rtc_flag") <=> boot = 8
           /\ At("rtc_low") <=> boot = 9
           /\ At("rtc_high") <=> boot = 10
           /\ At("rtc_install") <=> boot = 11
           /\ Booted <=> boot = 12
           /\ Enabled <=> boot >= 5
<1>1. Enabled <=> boot >= 5
  BY EnabledFrom, Zenon DEF Enabled
<1> QED BY <1>1 DEF At, Booted, Stages

\* Where kernel_main goes on.
LEMMA GoToNumbers ==
    /\ GoTo("serial_install") => boot' = 2
    /\ GoTo("serial_enable") => boot' = 3
    /\ GoTo("idt_init") => boot' = 4
    /\ GoTo("kbd_first") => boot' = 5
    /\ GoTo("kbd_second") => boot' = 6
    /\ GoTo("rtc_enable") => boot' = 7
    /\ GoTo("rtc_flag") => boot' = 8
    /\ GoTo("rtc_low") => boot' = 9
    /\ GoTo("rtc_high") => boot' = 10
    /\ GoTo("rtc_install") => boot' = 11
    /\ GoTo("done") => boot' = 12
<1>1. DOMAIN Stages = 1 .. 12
  BY DEF Stages
<1>2. ASSUME NEW n \in 1 .. 12, NEW stage,
             \A k \in 1 .. 12 : Stages[k] = stage <=> k = n, GoTo(stage)
      PROVE  boot' = n
  <2>1. (CHOOSE k \in 1 .. 12 : Stages[k] = stage) = n
    BY <1>2, Zenon
  <2> QED BY <1>1, <1>2, <2>1, Zenon DEF GoTo
<1>3. /\ \A k \in 1 .. 12 : Stages[k] = "serial_install" <=> k = 2
      /\ \A k \in 1 .. 12 : Stages[k] = "serial_enable" <=> k = 3
      /\ \A k \in 1 .. 12 : Stages[k] = "idt_init" <=> k = 4
      /\ \A k \in 1 .. 12 : Stages[k] = "kbd_first" <=> k = 5
      /\ \A k \in 1 .. 12 : Stages[k] = "kbd_second" <=> k = 6
      /\ \A k \in 1 .. 12 : Stages[k] = "rtc_enable" <=> k = 7
  BY DEF Stages
<1>4. /\ \A k \in 1 .. 12 : Stages[k] = "rtc_flag" <=> k = 8
      /\ \A k \in 1 .. 12 : Stages[k] = "rtc_low" <=> k = 9
      /\ \A k \in 1 .. 12 : Stages[k] = "rtc_high" <=> k = 10
      /\ \A k \in 1 .. 12 : Stages[k] = "rtc_install" <=> k = 11
      /\ \A k \in 1 .. 12 : Stages[k] = "done" <=> k = 12
  BY DEF Stages
<1> QED BY <1>2, <1>3, <1>4

-----------------------------------------------------------------------------

(* The steps of kernel_main, seen from the components that do not take it. *)
KbdBoots == boot' = boot \/ (boot = 5 /\ boot' = 6) \/ (boot = 6 /\ boot' = 7)
ComBoots == boot' = boot \/ (boot < 4 /\ boot' > boot /\ boot' =< 4) \/ (boot = 4 /\ boot' = 5)
RtcBoots == boot' = boot \/ (boot >= 7 /\ boot' > boot /\ boot' =< 12)

\* Each component moves kernel_main through its own stages only.
LEMMA BootSteps ==
    ASSUME boot \in 1 .. 12
    PROVE  /\ KbdStep => KbdBoots /\ boot' \in 1 .. 12
           /\ ComStep => ComBoots /\ boot' \in 1 .. 12
           /\ RtcStep => RtcBoots /\ boot' \in 1 .. 12
<1> USE StageNumbers, GoToNumbers
<1>1. KbdStep => KbdBoots /\ boot' \in 1 .. 12
  <2>1. keyboard_init => KbdBoots /\ boot' \in 1 .. 12
    BY DEF keyboard_init, KbdBoots
  <2>2. keyboard_irq_handler \/ KbdDevice => boot' = boot
    BY Zenon DEF keyboard_irq_handler, KbdDevice, send, press, release
  <2> QED BY <2>1, <2>2, Zenon DEF KbdStep, KbdBoots
<1>2. ComStep => ComBoots /\ boot' \in 1 .. 12
  <2>1. serial_init => ComBoots /\ boot' \in 1 .. 12
    BY DEF serial_init, port_enable, ComBoots
  <2>2. idt_init => ComBoots /\ boot' \in 1 .. 12
    BY DEF idt_init, ComBoots
  <2>3. serial_irq_handler \/ read_com \/ serial_getc \/ SerialDevice => boot' = boot
    BY Zenon DEF serial_irq_handler, read_com, serial_getc, SerialDevice, pause, receive
  <2> QED BY <2>1, <2>2, <2>3, Zenon DEF ComStep, ComBoots
<1>3. RtcStep => RtcBoots /\ boot' \in 1 .. 12
  <2>1. rtc_init => RtcBoots /\ boot' \in 1 .. 12
    <3>1. At("rtc_flag") /\ GoTo(IF update_ended THEN "rtc_low" ELSE "rtc_install")
            => boot = 8 /\ boot' \in {9, 11}
      <4>1. CASE update_ended
        BY <4>1, Zenon
      <4>2. CASE ~update_ended
        BY <4>2, Zenon
      <4> QED BY <4>1, <4>2, Zenon
    <3> QED BY <3>1 DEF rtc_init, RtcBoots
  <2>2. rtc_irq_handler \/ update \/ get_seconds \/ get_seconds_sum => boot' = boot
    BY Zenon DEF rtc_irq_handler, update, get_seconds, get_seconds_sum
  <2> QED BY <2>1, <2>2, Zenon DEF RtcStep, RtcBoots
<1> QED BY <1>1, <1>2, <1>3, Zenon

-----------------------------------------------------------------------------

(* What get_seconds has read so far is a field of a time that dt showed,   *)
(* the last one being last.                                                *)
Underway(a, last) ==
    a.at \in {"low", "high"} /\ a.since # Never =>
        /\ a.since \in Nat /\ a.since <= last
        /\ \E t \in a.since .. last : a.part = Fields(t)[a.at] /\ a.begun = High(t)

(* Its answer counts fields of times up to last.                           *)
Answered(a, last) ==
    a.at = "result" /\ a.since # Never =>
        /\ a.since \in Nat
        /\ \E t, u \in a.since .. last :
              /\ a.answer = Seconds([high |-> High(t), low |-> Low(u)])
              /\ a.begun = a.ended => t = u

(* The clock: dt holds the time it was read at, except while rtc_init is   *)
(* between its fields.                                                     *)
ClockInv ==
    /\ now \in Nat /\ (shown = Never \/ (shown \in Nat /\ shown <= now))
    /\ dt \in [high : Nat, low : Nat] /\ asked_time \in Asked
    /\ boot < 10 => shown = Never
    /\ boot = 10 /\ shown # Never => shown = now /\ dt.low = Low(now)
    /\ boot # 10 /\ shown # Never => dt = Fields(shown)
    /\ rtc_handler => boot = 12
    /\ asked_time.at # "none" => boot = 12
    /\ Underway(asked_time, shown) /\ Answered(asked_time, now)

\* The fields of a time are natural numbers.
LEMMA FieldsOfTime ==
    ASSUME NEW t \in Nat
    PROVE  /\ Fields(t) \in [high : Nat, low : Nat]
           /\ Fields(t).high = High(t) /\ Fields(t).low = Low(t)
<1>1. t \div Field \in Nat /\ t % Field \in Nat
  BY RtcAssumption
<1> QED BY <1>1, Zenon DEF Fields, High, Low

\* Later times may be added.
LEMMA LaterTimes ==
    ASSUME NEW a, NEW m, NEW n \in Nat, m = Never \/ (m \in Nat /\ m <= n)
    PROVE  /\ Underway(a, m) => Underway(a, n)
           /\ Answered(a, m) => Answered(a, n)
<1>1. \A b \in Nat : b .. m \subseteq b .. n /\ (b <= m => b <= n)
  BY DEF Never
<1>2. Underway(a, m) => Underway(a, n)
  BY <1>1, Zenon DEF Underway
<1>3. Answered(a, m) => Answered(a, n)
  BY <1>1, Zenon DEF Answered
<1> QED BY <1>2, <1>3, Zenon

\* The steps of the others leave the clock as it is.
LEMMA ClockOthers ==
    ASSUME boot \in 1 .. 12, ClockInv, UNCHANGED rtc,
           boot' = boot \/ (boot < 7 /\ boot' \in 1 .. 7)
    PROVE  ClockInv'
<1>1. /\ now' = now /\ rtc_handler' = rtc_handler
      /\ dt' = dt /\ asked_time' = asked_time /\ shown' = shown
  BY Zenon DEF rtc
<1>2. boot' # boot => boot < 10 /\ boot' < 10 /\ boot' # 10 /\ boot # 12 /\ boot' # 12
  OBVIOUS
<1>3. CASE boot' = boot
  BY <1>1, <1>3, Zenon DEF ClockInv, Underway, Answered
<1>4. CASE boot' # boot
  BY <1>1, <1>2, <1>4, Zenon DEF ClockInv, Underway, Answered
<1> QED BY <1>3, <1>4, Zenon

\* rtc_init reads the low field first; an update before the other one is remembered.
LEMMA ClockInits ==
    ASSUME boot \in 1 .. 12, ClockInv, rtc_init
    PROVE  ClockInv'
<1> USE StageNumbers, GoToNumbers
<1>1. now' = now /\ asked_time' = asked_time
  BY Zenon DEF rtc_init
<1>2. boot # 12
  BY DEF rtc_init
<1>3. asked_time.at = "none" /\ ~rtc_handler
  BY <1>2, Zenon DEF ClockInv
<1>4. /\ now' \in Nat /\ asked_time' \in Asked /\ asked_time'.at = "none"
      /\ Underway(asked_time', shown') /\ Answered(asked_time', now')
  BY <1>1, <1>3, Zenon DEF ClockInv, Underway, Answered
<1>5. CASE At("rtc_enable") /\ GoTo("rtc_flag") /\ UNCHANGED <<rtc_handler, dt, shown>>
  <2>1. boot = 7 /\ boot' = 8 /\ boot < 10 /\ boot' < 10 /\ boot' # 10
    BY <1>5
  <2>2. shown' = shown /\ dt' = dt /\ rtc_handler' = rtc_handler /\ shown = Never
    BY <1>5, <2>1, Zenon DEF ClockInv
  <2> QED BY <1>1, <1>3, <1>4, <2>1, <2>2, Zenon DEF ClockInv
<1>6. CASE /\ At("rtc_flag") /\ GoTo(IF update_ended THEN "rtc_low" ELSE "rtc_install")
           /\ UNCHANGED <<rtc_handler, dt, shown>>
  <2>1. boot = 8 /\ boot' \in {9, 11}
    <3>1. CASE update_ended
      BY <1>6, <3>1, Zenon
    <3>2. CASE ~update_ended
      BY <1>6, <3>2, Zenon
    <3> QED BY <3>1, <3>2, Zenon
  <2>2. boot < 10 /\ boot' # 10
    BY <2>1
  <2>3. shown' = shown /\ dt' = dt /\ rtc_handler' = rtc_handler /\ shown = Never
    BY <1>6, <2>2, Zenon DEF ClockInv
  <2> QED BY <1>1, <1>3, <1>4, <2>2, <2>3, Zenon DEF ClockInv
<1>7. CASE /\ At("rtc_low") /\ GoTo("rtc_high") /\ dt' = [dt EXCEPT !.low = Low(now)]
           /\ shown' = now /\ UNCHANGED rtc_handler
  <2>1. boot' = 10 /\ ~(boot' < 10) /\ now <= now /\ now \in Nat
    BY <1>7 DEF ClockInv
  <2>2. Low(now) \in Nat
    BY <2>1, RtcAssumption DEF Low
  <2>3. dt' \in [high : Nat, low : Nat] /\ dt'.low = Low(now)
    BY <1>7, <2>2, Zenon DEF ClockInv
  <2> QED BY <1>1, <1>3, <1>4, <1>7, <2>1, <2>3, Zenon DEF ClockInv
<1>8. CASE /\ At("rtc_high") /\ GoTo("rtc_install") /\ dt' = [dt EXCEPT !.high = High(now)]
           /\ UNCHANGED <<rtc_handler, shown>>
  <2>1. boot = 10 /\ boot' = 11 /\ ~(boot' < 10) /\ boot' # 10 /\ now \in Nat
    BY <1>8 DEF ClockInv
  <2>2. High(now) \in Nat
    BY <2>1, RtcAssumption DEF High
  <2>3. dt' \in [high : Nat, low : Nat] /\ dt'.high = High(now) /\ dt'.low = dt.low
    BY <1>8, <2>2, Zenon DEF ClockInv
  <2>4. shown' = shown /\ rtc_handler' = rtc_handler
    BY <1>8, Zenon
  <2>5. shown # Never => dt' = Fields(shown)
    <3>1. SUFFICES ASSUME shown # Never PROVE dt' = Fields(now) /\ shown = now
      BY Zenon
    <3>2. shown = now /\ dt.low = Low(now)
      BY <2>1, <3>1, Zenon DEF ClockInv
    <3> QED BY <3>2, <2>3, Zenon DEF Fields
  <2> QED BY <1>1, <1>3, <1>4, <2>1, <2>3, <2>4, <2>5, Zenon DEF ClockInv
<1>9. CASE /\ At("rtc_install") /\ GoTo("done") /\ UNCHANGED <<dt, shown>>
  <2>1. boot = 11 /\ boot' = 12 /\ ~(boot' < 10) /\ boot # 10 /\ boot' # 10
    BY <1>9
  <2>2. dt' = dt /\ shown' = shown
    BY <1>9, Zenon
  <2> QED BY <1>1, <1>4, <2>1, <2>2, Zenon DEF ClockInv
<1> QED BY <1>5, <1>6, <1>7, <1>8, <1>9, Zenon DEF rtc_init

\* rtc_irq_handler reads all fields at once.
LEMMA ClockTicks ==
    ASSUME boot \in 1 .. 12, ClockInv, rtc_irq_handler
    PROVE  ClockInv'
<1>1. /\ boot' = boot /\ now' = now /\ rtc_handler' = rtc_handler /\ asked_time' = asked_time
  BY Zenon DEF rtc_irq_handler
<1>2. CASE dt' = dt /\ shown' = shown
  BY <1>1, <1>2, Zenon DEF ClockInv, Underway, Answered
<1>3. CASE rtc_handler /\ dt' = Fields(now) /\ shown' = now
  <2>1. now \in Nat /\ boot = 12 /\ (shown = Never \/ (shown \in Nat /\ shown <= now))
    BY <1>3, Zenon DEF ClockInv
  <2>2. boot # 10 /\ ~(boot < 10) /\ now <= now
    BY <2>1
  <2>3. Fields(now) \in [high : Nat, low : Nat]
    BY <2>1, FieldsOfTime, Zenon
  <2>4. Underway(asked_time, now)
    BY <2>1, LaterTimes, Zenon DEF ClockInv
  <2>5. Underway(asked_time', shown') /\ Answered(asked_time', now')
    BY <1>1, <1>3, <2>4, Zenon DEF ClockInv
  <2>6. asked_time' \in Asked /\ dt' \in [high : Nat, low : Nat]
    BY <1>1, <1>3, <2>3, Zenon DEF ClockInv
  <2> QED BY <1>1, <1>3, <2>1, <2>2, <2>5, <2>6, Zenon DEF ClockInv
<1> QED BY <1>2, <1>3, Zenon DEF rtc_irq_handler

\* The clock goes on; only while rtc_init is between the fields does dt become useless.
LEMMA ClockUpdates ==
    ASSUME boot \in 1 .. 12, ClockInv, update
    PROVE  ClockInv'
<1>1. /\ boot' = boot /\ now' = now + 1 /\ rtc_handler' = rtc_handler
      /\ dt' = dt /\ asked_time' = asked_time
      /\ shown' = IF boot = 10 THEN Never ELSE shown
  BY StageNumbers, Zenon DEF update
<1>2. now \in Nat /\ (shown = Never \/ (shown \in Nat /\ shown <= now))
  BY Zenon DEF ClockInv
<1>3. /\ now + 1 \in Nat /\ now <= now + 1
      /\ shown = Never \/ (shown \in Nat /\ shown <= now + 1)
  BY <1>2
<1>4. Answered(asked_time', now')
  BY <1>1, <1>2, <1>3, LaterTimes, Zenon DEF ClockInv
<1>5. CASE boot = 10
  <2>1. boot # 12 /\ shown' = Never
    BY <1>1, <1>5
  <2>2. asked_time.at = "none"
    BY <2>1, Zenon DEF ClockInv
  <2>3. Underway(asked_time', shown')
    BY <1>1, <2>2, Zenon DEF Underway
  <2> QED BY <1>1, <1>3, <1>4, <2>1, <2>3, Zenon DEF ClockInv
<1>6. CASE boot # 10
  <2>1. shown' = shown
    BY <1>1, <1>6, Zenon
  <2>2. Underway(asked_time', shown')
    BY <1>1, <2>1, Zenon DEF ClockInv
  <2> QED BY <1>1, <1>3, <1>4, <1>6, <2>1, <2>2, Zenon DEF ClockInv
<1> QED BY <1>5, <1>6, Zenon

\* get_seconds reads a field of the time dt shows.
LEMMA ClockAsked ==
    ASSUME boot \in 1 .. 12, ClockInv, get_seconds
    PROVE  ClockInv'
<1>1. /\ boot' = boot /\ now' = now /\ rtc_handler' = rtc_handler
      /\ dt' = dt /\ shown' = shown /\ boot = 12
  BY StageNumbers, Zenon DEF get_seconds, Booted
<1>2. boot # 10 /\ ~(boot < 10)
  BY <1>1
<1>3. PICK f \in {"high", "low"} :
        asked_time' = [asked_time EXCEPT !.at = f, !.part = dt[f], !.since = shown, !.begun = dt.high]
  BY Zenon DEF get_seconds
<1>4. /\ dt \in [high : Nat, low : Nat] /\ asked_time \in Asked
      /\ shown = Never \/ (shown \in Nat /\ shown <= now)
      /\ shown # Never => dt = Fields(shown)
  BY <1>2, Zenon DEF ClockInv
<1>5. dt[f] \in Nat /\ dt.high \in Nat /\ shown \in Int
  <2>1. f = "high" \/ f = "low"
    BY <1>3, Zenon
  <2>2. dt[f] \in Nat /\ dt.high \in Nat
    BY <1>4, <2>1, Zenon
  <2>3. shown \in Int
    BY <1>4 DEF Never
  <2> QED BY <2>2, <2>3, Zenon
<1>6. /\ asked_time' \in Asked /\ asked_time'.at = f /\ asked_time'.part = dt[f]
      /\ asked_time'.since = shown /\ asked_time'.begun = dt.high
  BY <1>3, <1>4, <1>5 DEF Asked
<1>7. Underway(asked_time', shown)
  <2>1. SUFFICES ASSUME shown # Never
                 PROVE  /\ shown \in Nat /\ shown <= shown
                        /\ \E t \in shown .. shown : dt[f] = Fields(t)[f] /\ dt.high = High(t)
    BY <1>6, Zenon DEF Underway
  <2>2. shown \in Nat /\ dt = Fields(shown)
    BY <1>4, <2>1, Zenon
  <2>3. shown <= shown /\ shown \in shown .. shown
    BY <2>2
  <2>4. Fields(shown).high = High(shown)
    BY <2>2, FieldsOfTime, Zenon
  <2> QED BY <2>2, <2>3, <2>4, Zenon
<1>8. Answered(asked_time', now)
  BY <1>3, <1>6 DEF Answered
<1> QED BY <1>1, <1>2, <1>4, <1>6, <1>7, <1>8, Zenon DEF ClockInv

\* It adds the other field, of the same time if there was no carry.
LEMMA ClockAnswers ==
    ASSUME boot \in 1 .. 12, ClockInv, get_seconds_sum
    PROVE  ClockInv'
<1>1. /\ boot' = boot /\ now' = now /\ rtc_handler' = rtc_handler
      /\ dt' = dt /\ shown' = shown /\ asked_time.at \in {"high", "low"}
  BY Zenon DEF get_seconds_sum
<1>2. PICK f \in {"high", "low"} : asked_time.at = f
  BY <1>1, Zenon
<1>3. /\ dt \in [high : Nat, low : Nat] /\ asked_time \in Asked /\ asked_time.part \in Nat
      /\ shown = Never \/ (shown \in Nat /\ shown <= now)
      /\ now \in Nat /\ boot = 12 /\ (boot # 10 /\ shown # Never => dt = Fields(shown))
      /\ Underway(asked_time, shown)
  <2>1. asked_time.at # "none"
    BY <1>1
  <2> QED BY <2>1, Zenon DEF ClockInv, Asked
<1>4. PICK d : d = [dt EXCEPT ![f] = asked_time.part]
  BY Zenon
<1>5. asked_time' = [asked_time EXCEPT !.at = "result", !.ended = dt.high, !.answer = Seconds(d)]
  BY <1>2, <1>4, Zenon DEF get_seconds_sum
<1>6. d \in [high : Nat, low : Nat] /\ dt.high \in Nat
  <2>1. f = "high" \/ f = "low"
    BY <1>2, Zenon
  <2> QED BY <1>3, <1>4, <2>1, Zenon
<1>7. Seconds(d) \in Nat
  <2>1. d.high \in Nat /\ d.low \in Nat
    BY <1>6, Zenon
  <2>2. d.high * HighWeight \in Nat /\ d.low * LowWeight \in Nat
    BY <2>1, RtcAssumption
  <2> HIDE DEF Seconds
  <2>3. PICK x \in Nat : x = d.high * HighWeight + d.low * LowWeight
    BY <2>2
  <2>4. x % SecondsSpan \in Nat
    BY RtcAssumption
  <2> QED BY <2>3, <2>4, Zenon DEF Seconds
<1>8. /\ asked_time' \in Asked /\ asked_time'.at = "result" /\ asked_time'.answer = Seconds(d)
      /\ asked_time'.since = asked_time.since /\ asked_time'.begun = asked_time.begun
      /\ asked_time'.ended = dt.high
  BY <1>3, <1>5, <1>6, <1>7 DEF Asked
<1>9. Underway(asked_time', shown)
  BY <1>8 DEF Underway
<1>10. Answered(asked_time', now)
  <2>1. SUFFICES ASSUME asked_time.since # Never
                 PROVE  /\ asked_time.since \in Nat
                        /\ \E t, u \in asked_time.since .. now :
                              /\ Seconds(d) = Seconds([high |-> High(t), low |-> Low(u)])
                              /\ asked_time.begun = dt.high => t = u
    BY <1>8, Zenon DEF Answered
  <2>2. /\ asked_time.since \in Nat /\ asked_time.since <= shown
        /\ \E t \in asked_time.since .. shown :
              asked_time.part = Fields(t)[f] /\ asked_time.begun = High(t)
    BY <1>1, <1>2, <1>3, <2>1, Zenon DEF Underway
  <2>3. PICK t \in asked_time.since .. shown :
          asked_time.part = Fields(t)[f] /\ asked_time.begun = High(t)
    BY <2>2, Zenon
  <2>4. shown \in Nat /\ shown <= now
    BY <2>2, <1>3 DEF Never
  <2>5. t \in Nat /\ t \in asked_time.since .. now /\ shown \in asked_time.since .. now
    BY <2>2, <2>3, <2>4, <1>3
  <2>6. /\ dt.high = High(shown) /\ dt.low = Low(shown)
        /\ Fields(t).high = High(t) /\ Fields(t).low = Low(t)
    <3>1. shown # Never /\ boot # 10
      BY <2>4, <1>3 DEF Never
    <3>2. dt = Fields(shown)
      BY <3>1, <1>3, Zenon
    <3> QED BY <3>2, <2>4, <2>5, FieldsOfTime, Zenon
  <2>7. CASE f = "high"
    <3>1. d = [high |-> High(t), low |-> Low(shown)]
      BY <1>3, <1>4, <1>6, <2>3, <2>6, <2>7
    <3>2. asked_time.begun = dt.high => d = [high |-> High(shown), low |-> Low(shown)]
      BY <3>1, <2>3, <2>6, Zenon
    <3> QED BY <3>1, <3>2, <2>2, <2>5, Zenon
  <2>8. CASE f = "low"
    <3>1. d = [high |-> High(shown), low |-> Low(t)]
      BY <1>3, <1>4, <1>6, <2>3, <2>6, <2>8
    <3>2. asked_time.begun = dt.high => d = [high |-> High(t), low |-> Low(t)]
      BY <3>1, <2>3, <2>6, Zenon
    <3> QED BY <3>1, <3>2, <2>2, <2>5, Zenon
  <2> QED BY <1>2, <2>7, <2>8, Zenon
<1>11. boot # 10 /\ ~(boot < 10) /\ asked_time'.at # "none"
  BY <1>3, <1>8
<1> QED BY <1>1, <1>3, <1>8, <1>9, <1>10, <1>11, Zenon DEF ClockInv

\* kernel_main is at one of its stages.
LEMMA BootType ==
    ASSUME boot \in 1 .. 12, [Next]_vars
    PROVE  boot' \in 1 .. 12
BY BootSteps, Zenon DEF Next, vars

\* A step of the three drivers.
LEMMA ClockStep ==
    ASSUME boot \in 1 .. 12, ClockInv, [Next]_vars
    PROVE  ClockInv'
<1>1. CASE KbdStep
  <2>1. UNCHANGED rtc /\ KbdBoots
    BY <1>1, BootSteps, Zenon DEF KbdStep
  <2> QED BY <2>1, ClockOthers DEF KbdBoots
<1>2. CASE ComStep
  <2>1. UNCHANGED rtc /\ ComBoots /\ boot' \in 1 .. 12
    BY <1>2, BootSteps, Zenon DEF ComStep
  <2> QED BY <2>1, ClockOthers DEF ComBoots
<1>3. CASE RtcStep
  BY <1>3, ClockInits, ClockTicks, ClockUpdates, ClockAsked, ClockAnswers, Zenon DEF RtcStep
<1>4. CASE UNCHANGED vars
  <2>1. UNCHANGED rtc /\ boot' = boot
    BY <1>4, Zenon DEF vars
  <2> QED BY <2>1, ClockOthers, Zenon
<1> QED BY <1>1, <1>2, <1>3, <1>4, Zenon DEF Next

\* get_seconds counts the fields of times that dt showed since the call began,
\* whichever field it reads first and whatever interrupts come between, for every
\* length of the fields and every weight; and of one time if there was no carry.
THEOREM AnswersAreOfTimesShown == Spec => []AnswersAreShown
<1>1. Init => boot \in 1 .. 12 /\ ClockInv
  <2> SUFFICES ASSUME Init PROVE boot \in 1 .. 12 /\ ClockInv
    BY Zenon
  <2>1. boot = 1 /\ now \in 0 .. Field - 1 /\ rtc_handler = FALSE
        /\ dt = [high |-> 0, low |-> 0] /\ shown = Never
        /\ asked_time = [at |-> "none", part |-> 0, answer |-> 0, since |-> Never,
                         begun |-> 0, ended |-> 0]
    BY Zenon DEF Init, BootInit, RtcInit
  <2>2. now \in Nat /\ boot \in 1 .. 12 /\ boot # 10
    BY <2>1, RtcAssumption
  <2>3. dt \in [high : Nat, low : Nat] /\ asked_time \in Asked /\ asked_time.at = "none"
    BY <2>1 DEF Asked, Never
  <2>4. Underway(asked_time, shown) /\ Answered(asked_time, now)
    BY <2>3 DEF Underway, Answered
  <2> QED BY <2>1, <2>2, <2>3, <2>4, Zenon DEF ClockInv
<1>2. boot \in 1 .. 12 /\ ClockInv /\ [Next]_vars => (boot \in 1 .. 12)' /\ ClockInv'
  BY BootType, ClockStep, Zenon
<1>3. ClockInv => AnswersAreShown
  BY Zenon DEF ClockInv, Answered, AnswersAreShown
<1> QED BY <1>1, <1>2, <1>3, PTL DEF Spec

-----------------------------------------------------------------------------

(* The line of the port: nobody enables it before the handler is there, and *)
(* when it is up either its interrupt is pending or there is a reason.      *)
LineInv ==
    /\ boot \in 1 .. 12
    /\ com_irq \in BOOLEAN /\ com_handler \in BOOLEAN
    /\ uart \in [fifo : Seq(Bytes), pause : BOOLEAN, enable : BOOLEAN]
    /\ boot = 3 \/ uart.enable => com_handler
    /\ uart.pause => uart.fifo # <<>>
    /\ StallsHaveReasons

\* The steps of the others.
LEMMA LineOthers ==
    ASSUME LineInv, UNCHANGED com, boot' \in 1 .. 12, boot' = boot \/ (boot >= 5 /\ boot' >= 5)
    PROVE  LineInv'
<1>1. /\ com_irq' = com_irq /\ com_handler' = com_handler /\ uart' = uart /\ stalled' = stalled
  BY Zenon DEF com
<1>2. boot \in 1 .. 12 /\ (Enabled <=> boot >= 5)
  BY StageNumbers, Zenon DEF LineInv
<1>3. Enabled' <=> boot' >= 5
  BY EnabledFrom, Zenon DEF Enabled
<1>4. Enabled' <=> Enabled
  BY <1>2, <1>3, Zenon
<1>5. StallsHaveReasons'
  BY <1>1, <1>4, Zenon DEF LineInv, StallsHaveReasons, Line
<1> QED BY <1>1, <1>2, <1>5 DEF LineInv

\* A change of the port whose edges are seen keeps the promise.
LEMMA LinePort ==
    ASSUME LineInv, NEW u, Port(u), stalled' = stalled, boot' = boot, Enabled
    PROVE  StallsHaveReasons'
<1>1. uart' = u /\ com_irq' = (com_irq \/ (~Line(uart) /\ Line(u)))
  BY Zenon DEF Port
<1>2. Line(uart)' <=> Line(u)
  BY <1>1, Zenon DEF Line
<1>3. ASSUME Line(u), ~com_irq' PROVE stalled # {}
  <2>1. ~com_irq /\ Line(uart)
    BY <1>1, <1>3, Zenon
  <2> QED BY <2>1, Zenon DEF LineInv, StallsHaveReasons
<1> QED BY <1>2, <1>3, Zenon DEF StallsHaveReasons

\* The bytes that arrive.
LEMMA LineDevice ==
    ASSUME LineInv, SerialDevice
    PROVE  LineInv'
<1>0. boot' = boot /\ com_handler' = com_handler /\ stalled' = stalled /\ com_irq' \in BOOLEAN
  BY Zenon DEF SerialDevice, pause, receive, Port
<1>1. PICK u : Port(u) /\ u \in [fifo : Seq(Bytes), pause : BOOLEAN, enable : BOOLEAN]
               /\ u.enable = uart.enable /\ (u.pause => u.fifo # <<>>)
  <2>0. uart \in [fifo : Seq(Bytes), pause : BOOLEAN, enable : BOOLEAN]
        /\ (uart.pause => uart.fifo # <<>>)
    BY Zenon DEF LineInv
  <2>1. CASE pause
    <3> DEFINE u == [uart EXCEPT !.pause = TRUE]
    <3>1. /\ Port(u) /\ u \in [fifo : Seq(Bytes), pause : BOOLEAN, enable : BOOLEAN]
          /\ u.enable = uart.enable /\ u.fifo # <<>>
      BY <2>0, <2>1, Zenon DEF pause
    <3> QED BY <3>1, Zenon
  <2>2. CASE \E b \in Bytes : receive(b)
    <3>1. PICK b \in Bytes : receive(b)
      BY <2>2, Zenon
    <3> DEFINE more == Append(uart.fifo, b)
               u == [uart EXCEPT !.fifo = more]
    <3>2. more \in Seq(Bytes) /\ more # <<>>
      <4>1. uart.fifo \in Seq(Bytes)
        BY <2>0, Zenon
      <4> QED BY <4>1
    <3>3. Port(u)
      BY <3>1, Zenon DEF receive
    <3> HIDE DEF more
    <3>4. /\ u \in [fifo : Seq(Bytes), pause : BOOLEAN, enable : BOOLEAN]
          /\ u.enable = uart.enable /\ u.fifo # <<>>
      BY <2>0, <3>2, Zenon
    <3> QED BY <3>3, <3>4, Zenon
  <2> QED BY <2>1, <2>2, Zenon DEF SerialDevice
<1>2. uart' = u
  BY <1>1, Zenon DEF Port
<1>3. StallsHaveReasons'
  <2>1. CASE Enabled
    BY <1>0, <1>1, <2>1, LinePort, Zenon
  <2>2. CASE ~Enabled
    BY <1>0, <2>2, Zenon DEF StallsHaveReasons, Enabled
  <2> QED BY <2>1, <2>2, Zenon
<1> QED BY <1>0, <1>1, <1>2, <1>3, Zenon DEF LineInv

\* serial_init installs the handler before it enables the interrupts of the port.
LEMMA LineInits ==
    ASSUME LineInv, serial_init \/ idt_init
    PROVE  LineInv'
<1> USE GoToNumbers
<1>0. /\ boot \in 1 .. 12 /\ com_irq \in BOOLEAN /\ com_handler \in BOOLEAN
      /\ uart \in [fifo : Seq(Bytes), pause : BOOLEAN, enable : BOOLEAN]
      /\ uart.pause => uart.fifo # <<>>
      /\ boot = 3 \/ uart.enable => com_handler
  BY Zenon DEF LineInv
<1>1. CASE serial_init
  <2>1. boot' \in 2 .. 4 /\ boot < 4
    <3>1. \/ At("serial_port") /\ (GoTo("serial_install") \/ GoTo("idt_init"))
          \/ At("serial_install") /\ GoTo("serial_enable")
          \/ At("serial_enable") /\ GoTo("idt_init")
      BY <1>1, Zenon DEF serial_init, port_enable
    <3> QED BY <1>0, <3>1, StageNumbers
  <2>2. ~Enabled'
    <3>1. boot' \in 1 .. 12 /\ ~(boot' >= 5)
      BY <2>1
    <3>2. ~\E k \in 1 .. boot' - 1 : Stages[k] = "idt_init"
      BY <3>1, EnabledFrom, Zenon
    <3> QED BY <3>2, Zenon DEF Enabled
  <2>3. StallsHaveReasons'
    BY <2>2, Zenon DEF StallsHaveReasons
  <2>4. CASE port_enable
    <3>1. boot' # 3 /\ uart' = uart /\ com_irq' = com_irq /\ com_handler' = com_handler
      BY <2>4 DEF port_enable
    <3> QED BY <1>0, <2>1, <2>3, <3>1 DEF LineInv
  <2>5. CASE com_handler' = TRUE /\ UNCHANGED <<uart, com_irq>>
    BY <1>0, <2>1, <2>3, <2>5 DEF LineInv
  <2>6. CASE /\ At("serial_enable") /\ GoTo("idt_init") /\ Port([uart EXCEPT !.enable = TRUE])
             /\ com_handler' = com_handler
    <3>1. boot = 3 /\ com_handler
      BY <1>0, <2>6, StageNumbers, Zenon
    <3>2. uart' = [uart EXCEPT !.enable = TRUE] /\ com_irq' \in BOOLEAN
      BY <2>6, Zenon DEF Port
    <3>3. uart' \in [fifo : Seq(Bytes), pause : BOOLEAN, enable : BOOLEAN]
          /\ uart'.pause = uart.pause /\ uart'.fifo = uart.fifo
      BY <1>0, <3>2, Zenon
    <3> QED BY <1>0, <2>1, <2>3, <2>6, <3>1, <3>2, <3>3 DEF LineInv
  <2> QED BY <1>1, <2>4, <2>5, <2>6, Zenon DEF serial_init
<1>2. CASE idt_init
  <2>1. boot' = 5 /\ uart' = uart /\ com_irq' = com_irq /\ com_handler' = com_handler
        /\ stalled' = IF Line(uart) THEN {"early"} ELSE {}
    BY <1>2, Zenon DEF idt_init
  <2>2. StallsHaveReasons'
    BY <2>1, Zenon DEF StallsHaveReasons, Line
  <2> QED BY <1>0, <2>1, <2>2 DEF LineInv
<1> QED BY <1>1, <1>2, Zenon

\* The handler reads one byte; what is left in the FIFO raises no new edge.
LEMMA LineHandler ==
    ASSUME LineInv, serial_irq_handler
    PROVE  LineInv'
<1>0. /\ boot \in 1 .. 12 /\ com_irq \in BOOLEAN /\ com_handler \in BOOLEAN
      /\ uart \in [fifo : Seq(Bytes), pause : BOOLEAN, enable : BOOLEAN]
      /\ uart.pause => uart.fifo # <<>>
      /\ boot = 3 \/ uart.enable => com_handler
  BY Zenon DEF LineInv
<1>1. boot' = boot /\ com_handler' = com_handler /\ com_irq' = FALSE
  BY Zenon DEF serial_irq_handler
<1>2. CASE com_handler /\ wants_read /\ ~looks_full
  <2> DEFINE rest == Tail(uart.fifo)
             after == [uart EXCEPT !.fifo = rest, !.pause = FALSE]
  <2>1. uart' = after /\ (Line(after) => stalled' = stalled \cup {"backlog"})
    BY <1>2, Zenon DEF serial_irq_handler
  <2>2. Line(uart)
    BY <1>2, Zenon DEF wants_read
  <2>3. uart.fifo \in Seq(Bytes) /\ uart.fifo # <<>>
    <3>1. uart.fifo \in Seq(Bytes) /\ (Len(uart.fifo) >= Trigger \/ uart.fifo # <<>>)
      BY <1>0, <2>2, Zenon DEF Line
    <3>2. Len(<<>>) = 0 /\ ~(0 >= Trigger)
      BY SerialAssumption
    <3> QED BY <3>1, <3>2, Zenon
  <2>4. rest \in Seq(Bytes)
    BY <2>3
  <2> HIDE DEF rest
  <2>5. after \in [fifo : Seq(Bytes), pause : BOOLEAN, enable : BOOLEAN]
        /\ after.enable = uart.enable /\ ~after.pause
    BY <1>0, <2>4, Zenon
  <2>6. StallsHaveReasons'
    <3>1. Line(uart)' => stalled' # {}
      BY <2>1, Zenon DEF Line
    <3> QED BY <3>1, Zenon DEF StallsHaveReasons
  <2> HIDE DEF after
  <2> QED BY <1>0, <1>1, <2>1, <2>5, <2>6, Zenon DEF LineInv
<1>3. CASE ~(com_handler /\ wants_read /\ ~looks_full)
  <2>1. uart' = uart /\ (looks_full => stalled' = stalled \cup {"full"})
    BY <1>3, Zenon DEF serial_irq_handler
  <2>2. Line(uart)' => stalled' # {}
    <3>1. Line(uart) => com_handler /\ wants_read
      BY <1>0, Zenon DEF Line, wants_read
    <3>2. Line(uart)' <=> Line(uart)
      BY <2>1, Zenon DEF Line
    <3> QED BY <1>3, <2>1, <3>1, <3>2, Zenon
  <2>3. StallsHaveReasons'
    BY <2>2, Zenon DEF StallsHaveReasons
  <2> QED BY <1>0, <1>1, <2>1, <2>3, Zenon DEF LineInv
<1> QED BY <1>2, <1>3, Zenon

\* A step of the three drivers.
LEMMA LineStep ==
    ASSUME LineInv, [Next]_vars
    PROVE  LineInv'
<1>0. boot \in 1 .. 12
  BY Zenon DEF LineInv
<1>1. CASE KbdStep
  <2>1. UNCHANGED com /\ KbdBoots /\ boot' \in 1 .. 12
    BY <1>0, <1>1, BootSteps, Zenon DEF KbdStep
  <2> QED BY <2>1, LineOthers DEF KbdBoots
<1>2. CASE ComStep
  <2>1. CASE serial_init \/ idt_init
    BY <2>1, LineInits, Zenon
  <2>2. CASE serial_irq_handler
    BY <2>2, LineHandler, Zenon
  <2>3. CASE SerialDevice
    BY <2>3, LineDevice, Zenon
  <2>4. CASE read_com \/ serial_getc
    <3>1. boot' = boot /\ uart' = uart /\ com_irq' = com_irq /\ com_handler' = com_handler
          /\ stalled' = stalled
      BY <2>4, Zenon DEF read_com, serial_getc
    <3> QED BY <3>1, Zenon DEF LineInv, StallsHaveReasons, Line, Enabled
  <2> QED BY <1>2, <2>1, <2>2, <2>3, <2>4, Zenon DEF ComStep
<1>3. CASE RtcStep
  <2>1. UNCHANGED com /\ RtcBoots /\ boot' \in 1 .. 12
    BY <1>0, <1>3, BootSteps, Zenon DEF RtcStep
  <2> QED BY <1>0, <2>1, LineOthers DEF RtcBoots
<1>4. CASE UNCHANGED vars
  <2>1. UNCHANGED com /\ boot' = boot
    BY <1>4, Zenon DEF vars
  <2> QED BY <1>0, <2>1, LineOthers, Zenon
<1> QED BY <1>1, <1>2, <1>3, <1>4, Zenon DEF Next

\* The port and its driver start out quiet.
LEMMA LineInit ==
    ASSUME Init
    PROVE  LineInv
<1>1. boot = 1 /\ uart = [fifo |-> <<>>, pause |-> FALSE, enable |-> FALSE]
      /\ com_irq = FALSE /\ com_handler = FALSE
  BY Zenon DEF Init, BootInit, SerialInit
<1>2. <<>> \in Seq(Bytes)
  OBVIOUS
<1>3. uart \in [fifo : Seq(Bytes), pause : BOOLEAN, enable : BOOLEAN]
      /\ ~uart.pause /\ ~uart.enable
  BY <1>1, <1>2, Zenon
<1>4. StallsHaveReasons
  BY <1>3, Zenon DEF StallsHaveReasons, Line
<1>5. com_irq \in BOOLEAN /\ com_handler \in BOOLEAN
  BY <1>1, Zenon
<1> QED BY <1>1, <1>3, <1>4, <1>5 DEF LineInv

\* Reception comes to a halt only for a byte received before idt_init, a full queue, or a
\* FIFO still above its trigger level when the handler returns.
THEOREM StallsAreExplained == Spec => []StallsHaveReasons
<1>1. Init => LineInv
  BY LineInit, Zenon
<1>2. LineInv /\ [Next]_vars => LineInv'
  BY LineStep, Zenon
<1>3. LineInv => StallsHaveReasons
  BY Zenon DEF LineInv
<1> QED BY <1>1, <1>2, <1>3, PTL DEF Spec

-----------------------------------------------------------------------------

(* The queue: the slots from queue_front on hold the bytes.  serial_getc    *)
(* works on the first of them, and knows whether it is the last.            *)
Wrap(x) == IF x < READ_QUEUE_SIZE THEN x ELSE x - READ_QUEUE_SIZE

Holds ==
    /\ queue_front \in Slots /\ queue \in Seq(Bytes)
    /\ Len(queue) \in 1 .. READ_QUEUE_SIZE
    /\ queue_rear = Wrap(queue_front + Len(queue) - 1)
    /\ \A k \in 1 .. Len(queue) : queue[k] = read_queue[Wrap(queue_front + k - 1)]

QueueState ==
    /\ read_queue = [k \in Slots |-> read_queue[k]]
    /\ \/ getc = NoCall /\ Holds
       \/ getc = NoCall /\ queue = <<>> /\ queue_front = -1 /\ queue_rear = -1
       \/ /\ Holds
          /\ getc.at \in {"compare", "advance", "reset_rear"}
          /\ getc = [at |-> getc.at, front |-> queue_front, c |-> queue[1]]
          /\ getc.at = "advance" => Len(queue) > 1
          /\ getc.at = "reset_rear" => Len(queue) = 1
       \/ /\ getc = [at |-> "reset_front", front |-> getc.front, c |-> getc.c]
          /\ queue = <<>> /\ queue_front \in Slots /\ queue_rear = -1

QueueInv == LineInv /\ (~lost => QueueState)

\* Arithmetic in a ring.
LEMMA Wraps ==
    ASSUME NEW x \in 0 .. 2 * READ_QUEUE_SIZE - 1
    PROVE  x % READ_QUEUE_SIZE = Wrap(x) /\ Wrap(x) \in Slots
<1> DEFINE N == READ_QUEUE_SIZE
<1>0. N \in Nat \ {0}
  BY SerialAssumption, Zenon
<1>1. CASE x < N
  BY <1>0, <1>1 DEF Wrap, Slots
<1>2. CASE x >= N
  <2>1. x - N \in 0 .. N - 1 /\ x = N * 1 + (x - N)
    BY <1>0, <1>2
  <2>2. x % N = x - N
    BY <1>0, <2>1
  <2> QED BY <1>0, <1>2, <2>1, <2>2 DEF Wrap, Slots
<1> QED BY <1>0, <1>1, <1>2

\* Different places in the queue are different slots.
LEMMA WrapDiffers ==
    ASSUME NEW f \in Slots, NEW a \in 0 .. READ_QUEUE_SIZE - 1, NEW b \in 0 .. READ_QUEUE_SIZE - 1,
           a < b
    PROVE  Wrap(f + a) \in Slots /\ Wrap(f + a) # Wrap(f + b)
<1>1. READ_QUEUE_SIZE \in Nat \ {0} /\ f \in 0 .. READ_QUEUE_SIZE - 1
  BY SerialAssumption, Zenon DEF Slots
<1>2. CASE f + b < READ_QUEUE_SIZE
  BY <1>1, <1>2 DEF Wrap, Slots
<1>3. CASE f + a < READ_QUEUE_SIZE /\ f + b >= READ_QUEUE_SIZE
  BY <1>1, <1>3 DEF Wrap, Slots
<1>4. CASE f + a >= READ_QUEUE_SIZE
  BY <1>1, <1>4 DEF Wrap, Slots
<1> QED BY <1>1, <1>2, <1>3, <1>4

\* The way from front to rear.
LEMMA Distance ==
    ASSUME NEW f \in Slots, NEW n \in 1 .. READ_QUEUE_SIZE
    PROVE  (Wrap(f + n - 1) - f) % READ_QUEUE_SIZE = n - 1
<1> DEFINE N == READ_QUEUE_SIZE
<1>0. N \in Nat \ {0} /\ f \in 0 .. N - 1
  BY SerialAssumption, Zenon DEF Slots
<1>1. CASE f + n - 1 < N
  <2>1. Wrap(f + n - 1) - f = n - 1
    BY <1>0, <1>1 DEF Wrap
  <2> QED BY <1>0, <2>1
<1>2. CASE f + n - 1 >= N
  <2>1. Wrap(f + n - 1) - f = n - 1 - N
    BY <1>0, <1>2 DEF Wrap
  <2>2. (n - 1 - N) % N = n - 1
    BY <1>0
  <2> QED BY <2>1, <2>2, Zenon
<1> QED BY <1>0, <1>1, <1>2

\* What the invariant says of the queue.
LEMMA QueueContents ==
    ASSUME Holds
    PROVE  Contents = queue
<1> DEFINE n == (queue_rear - queue_front) % READ_QUEUE_SIZE
           len == Len(queue)
<1>0. READ_QUEUE_SIZE \in Nat \ {0}
  BY SerialAssumption, Zenon
<1>1. queue_front \in Slots /\ len \in 1 .. READ_QUEUE_SIZE
      /\ queue_rear = Wrap(queue_front + len - 1) /\ queue \in Seq(Bytes)
  BY Zenon DEF Holds
<1> HIDE DEF len
<1>2. n = len - 1
  BY <1>1, Distance, Zenon
<1> HIDE DEF n
<1>3. queue_front + len - 1 \in 0 .. 2 * READ_QUEUE_SIZE - 1
  BY <1>0, <1>1 DEF Slots
<1>4. queue_front # -1 /\ queue_rear # -1
  BY <1>0, <1>1, <1>3, Wraps DEF Slots
<1>5. Contents = [i \in 1 .. n + 1 |-> read_queue[(queue_front + i - 1) % READ_QUEUE_SIZE]]
  BY <1>4, Zenon DEF Contents, n
<1>6. n + 1 = len
  BY <1>1, <1>2
<1>7. \A k \in 1 .. len : queue[k] = read_queue[(queue_front + k - 1) % READ_QUEUE_SIZE]
  <2> TAKE k \in 1 .. len
  <2>1. queue_front + k - 1 \in 0 .. 2 * READ_QUEUE_SIZE - 1
    BY <1>0, <1>1 DEF Slots
  <2>2. queue[k] = read_queue[Wrap(queue_front + k - 1)]
    BY Zenon DEF Holds, len
  <2> QED BY <2>1, <2>2, Wraps, Zenon
<1>8. queue = [i \in 1 .. len |-> queue[i]]
  BY <1>1 DEF len
<1> QED BY <1>5, <1>6, <1>7, <1>8, Zenon

\* A byte behind the others.
LEMMA Enqueued ==
    ASSUME NEW b \in Bytes, enqueue(b), queue' = Append(queue, b),
           Len(queue) # READ_QUEUE_SIZE, read_queue = [k \in Slots |-> read_queue[k]],
           Holds \/ (queue = <<>> /\ queue_front = -1 /\ queue_rear = -1)
    PROVE  /\ Holds' /\ read_queue' = [k \in Slots |-> read_queue'[k]]
           /\ Holds => queue_front' = queue_front /\ queue'[1] = queue[1] /\ Len(queue') > 1
<1>0. READ_QUEUE_SIZE \in Nat \ {0}
  BY SerialAssumption, Zenon
<1>1. /\ queue_front' = IF queue_front = -1 THEN 0 ELSE queue_front
      /\ queue_rear' = (queue_rear + 1) % READ_QUEUE_SIZE
      /\ read_queue' = [read_queue EXCEPT ![queue_rear'] = b]
  BY Zenon DEF enqueue
<1>2. CASE queue = <<>> /\ queue_front = -1 /\ queue_rear = -1
  <2>1. queue_front' = 0 /\ 0 \in Slots
    BY <1>0, <1>1, <1>2 DEF Slots
  <2>2. queue_rear' = 0
    <3>1. 0 \in 0 .. 2 * READ_QUEUE_SIZE - 1 /\ -1 + 1 = 0
      BY <1>0
    <3>2. 0 % READ_QUEUE_SIZE = 0
      BY <1>0, <3>1, Wraps DEF Wrap
    <3> QED BY <1>1, <1>2, <3>1, <3>2, Zenon
  <2>3. read_queue' = [read_queue EXCEPT ![0] = b]
    BY <1>1, <2>2, Zenon
  <2>4. read_queue'[0] = b /\ read_queue' = [k \in Slots |-> read_queue'[k]]
    BY <2>1, <2>3, Zenon
  <2>5. queue' = <<b>> /\ queue' \in Seq(Bytes) /\ Len(queue') = 1 /\ queue'[1] = b
    <3>1. Append(<<>>, b) = <<b>>
      OBVIOUS
    <3> QED BY <1>2, <3>1
  <2>6. Wrap(0 + 1 - 1) = 0
    BY <1>0 DEF Wrap
  <2>7. Holds'
    <3>1. \A k \in 1 .. Len(queue') : queue'[k] = read_queue'[Wrap(queue_front' + k - 1)]
      BY <2>1, <2>4, <2>5, <2>6
    <3>2. 1 \in 1 .. READ_QUEUE_SIZE
      BY <1>0
    <3>3. queue_rear' = Wrap(queue_front' + Len(queue') - 1)
      BY <2>1, <2>2, <2>5, <2>6, Zenon
    <3> QED BY <2>1, <2>5, <3>1, <3>2, <3>3, Zenon DEF Holds, Wrap, Slots
  <2>8. ~Holds
    BY <1>0, <1>2 DEF Holds, Slots
  <2> QED BY <2>4, <2>7, <2>8, Zenon
<1>3. CASE Holds
  <2> DEFINE len == Len(queue)
             f == queue_front
             N == READ_QUEUE_SIZE
  <2>1. f \in 0 .. N - 1 /\ len \in 1 .. N - 1 /\ queue \in Seq(Bytes) /\ N \in Nat \ {0}
        /\ queue_rear = Wrap(f + len - 1)
    BY <1>0, <1>3 DEF Holds, Slots
  <2>2. /\ queue' \in Seq(Bytes) /\ Len(queue') = len + 1 /\ queue'[len + 1] = b
        /\ \A k \in 1 .. len : queue'[k] = queue[k]
    BY <2>1
  <2>3. \A k \in 1 .. len : queue[k] = read_queue[Wrap(f + k - 1)]
    BY <1>3, Zenon DEF Holds
  <2> HIDE DEF len
  <2>4. queue_front' = f
    BY <1>1, <2>1
  <2> HIDE DEF f
  <2>5. queue_rear' = Wrap(f + len)
    <3>1. queue_rear + 1 \in 0 .. 2 * N - 1
      BY <2>1, SMTT(30) DEF Wrap
    <3>2. Wrap(queue_rear + 1) = Wrap(f + len)
      BY <2>1 DEF Wrap
    <3> QED BY <1>1, <3>1, <3>2, Wraps, Zenon
  <2>6. Wrap(f + len) \in Slots
    BY <2>1 DEF Wrap, Slots
  <2>7. read_queue'[Wrap(f + len)] = b /\ read_queue' = [k \in Slots |-> read_queue'[k]]
        /\ \A k \in Slots : k # Wrap(f + len) => read_queue'[k] = read_queue[k]
    BY <1>1, <2>5, <2>6, Zenon
  <2>8. ASSUME NEW k \in 1 .. len + 1 PROVE queue'[k] = read_queue'[Wrap(f + k - 1)]
    <3>1. CASE k = len + 1
      <4>1. f + (len + 1) - 1 = f + len
        BY <2>1
      <4> QED BY <2>2, <2>7, <3>1, <4>1, Zenon
    <3>2. CASE k \in 1 .. len
      <4>1. k - 1 \in 0 .. N - 1 /\ len \in 0 .. N - 1 /\ k - 1 < len /\ f + (k - 1) = f + k - 1
            /\ f \in Slots
        BY <2>1, <3>2 DEF Slots
      <4>2. Wrap(f + k - 1) \in Slots /\ Wrap(f + k - 1) # Wrap(f + len)
        BY <4>1, WrapDiffers, Zenon
      <4> QED BY <2>2, <2>3, <2>7, <3>2, <4>2, Zenon
    <3>3. len \in Nat /\ \A m \in Nat : \A j \in 1 .. m + 1 : j = m + 1 \/ j \in 1 .. m
      BY <2>1
    <3>4. k = len + 1 \/ k \in 1 .. len
      BY <2>8, <3>3, Zenon
    <3> QED BY <3>1, <3>2, <3>4, Zenon
  <2>9. f + (len + 1) - 1 = f + len /\ len + 1 \in 1 .. N /\ len + 1 > 1 /\ 1 \in 1 .. len
        /\ f \in Slots
    BY <2>1 DEF Slots
  <2>10. Holds'
    <3>1. \A k \in 1 .. Len(queue') : queue'[k] = read_queue'[Wrap(queue_front' + k - 1)]
      BY <2>2, <2>4, <2>8, Zenon
    <3>2. queue_rear' = Wrap(queue_front' + Len(queue') - 1)
      BY <2>2, <2>4, <2>5, <2>9, Zenon
    <3>3. Len(queue') \in 1 .. READ_QUEUE_SIZE /\ queue_front' \in Slots
      BY <2>2, <2>4, <2>9, Zenon
    <3> QED BY <2>2, <3>1, <3>2, <3>3, Zenon DEF Holds, Wrap, Slots
  <2>11. queue'[1] = queue[1]
    BY <2>2, <2>9, Zenon
  <2> QED BY <2>2, <2>4, <2>7, <2>9, <2>10, <2>11, Zenon DEF f
<1> QED BY <1>2, <1>3, Zenon

\* The handler comes between any two stores of serial_getc.
LEMMA QueueHandler ==
    ASSUME QueueInv, serial_irq_handler, ~lost'
    PROVE  QueueState'
<1>1. CASE com_handler /\ wants_read /\ ~looks_full
  <2> DEFINE b == Head(uart.fifo)
  <2>1. /\ enqueue(b) /\ getc' = getc
        /\ lost' = (lost \/ Len(queue) = READ_QUEUE_SIZE
                         \/ getc.at \in {"reset_rear", "reset_front"})
        /\ queue' = IF lost' THEN <<>> ELSE Append(queue, b)
    BY <1>1, Zenon DEF serial_irq_handler
  <2>2. b \in Bytes
    <3>1. uart \in [fifo : Seq(Bytes), pause : BOOLEAN, enable : BOOLEAN]
          /\ (uart.pause => uart.fifo # <<>>) /\ Line(uart)
      BY <1>1, Zenon DEF QueueInv, LineInv, wants_read
    <3>2. uart.fifo \in Seq(Bytes) /\ (Len(uart.fifo) >= Trigger \/ uart.fifo # <<>>)
      BY <3>1, Zenon DEF Line
    <3>3. Len(<<>>) = 0 /\ ~(0 >= Trigger)
      BY SerialAssumption
    <3>4. uart.fifo # <<>>
      BY <3>2, <3>3, Zenon
    <3> QED BY <3>2, <3>4
  <2> HIDE DEF b
  <2>3. ~lost /\ Len(queue) # READ_QUEUE_SIZE /\ getc.at \notin {"reset_rear", "reset_front"}
        /\ queue' = Append(queue, b)
    BY <2>1, Zenon
  <2>4. QueueState
    BY <2>3, Zenon DEF QueueInv
  <2>5. getc # [at |-> "reset_front", front |-> getc.front, c |-> getc.c]
    BY <2>3
  <2>6. Holds \/ (queue = <<>> /\ queue_front = -1 /\ queue_rear = -1)
    BY <2>4, <2>5, Zenon DEF QueueState
  <2>7. read_queue = [k \in Slots |-> read_queue[k]]
    BY <2>4, Zenon DEF QueueState
  <2>8. /\ Holds' /\ read_queue' = [k \in Slots |-> read_queue'[k]]
        /\ Holds => queue_front' = queue_front /\ queue'[1] = queue[1] /\ Len(queue') > 1
    BY <2>1, <2>2, <2>3, <2>6, <2>7, Enqueued, Zenon
  <2>9. CASE getc = NoCall
    BY <2>1, <2>8, <2>9, Zenon DEF QueueState, Slots
  <2>10. CASE /\ Holds
              /\ getc.at \in {"compare", "advance", "reset_rear"}
              /\ getc = [at |-> getc.at, front |-> queue_front, c |-> queue[1]]
    <3>1. getc' = [at |-> getc'.at, front |-> queue_front', c |-> queue'[1]]
      BY <2>1, <2>8, <2>10, Zenon
    <3>2. getc'.at \in {"compare", "advance", "reset_rear"} /\ getc'.at # "reset_rear"
      BY <2>1, <2>3, <2>10, Zenon
    <3> QED BY <2>8, <2>10, <3>1, <3>2, Zenon DEF QueueState, Slots
  <2> QED BY <2>4, <2>5, <2>9, <2>10, Zenon DEF QueueState
<1>2. CASE ~(com_handler /\ wants_read /\ ~looks_full)
  <2>1. /\ read_queue' = read_queue /\ queue_front' = queue_front /\ queue_rear' = queue_rear
        /\ queue' = queue /\ lost' = lost /\ getc' = getc
    BY <1>2, Zenon DEF serial_irq_handler, indices
  <2> QED BY <2>1, Zenon DEF QueueInv, QueueState, Holds, Slots, Wrap, NoCall
<1> QED BY <1>1, <1>2, Zenon

\* serial_getc loads the front and the byte there.
LEMMA QueueRead ==
    ASSUME QueueInv, read_com, ~lost'
    PROVE  QueueState'
<1>1. /\ read_queue' = read_queue /\ queue_front' = queue_front /\ queue_rear' = queue_rear
      /\ queue' = queue /\ lost' = lost /\ getc = NoCall /\ queue_front # -1
      /\ getc' = [at |-> "compare", front |-> queue_front, c |-> read_queue[queue_front]]
  BY Zenon DEF read_com, indices
<1>2. QueueState
  BY <1>1, Zenon DEF QueueInv
<1>3. Holds
  BY <1>1, <1>2, Zenon DEF QueueState, NoCall
<1>4. read_queue[queue_front] = queue[1]
  <2>1. /\ queue_front \in 0 .. READ_QUEUE_SIZE - 1 /\ Len(queue) \in 1 .. READ_QUEUE_SIZE
        /\ READ_QUEUE_SIZE \in Nat
        /\ \A k \in 1 .. Len(queue) : queue[k] = read_queue[Wrap(queue_front + k - 1)]
    BY <1>3, SerialAssumption, Zenon DEF Holds, Slots
  <2>2. Wrap(queue_front + 1 - 1) = queue_front /\ 1 \in 1 .. Len(queue)
    BY <2>1 DEF Wrap
  <2> QED BY <2>1, <2>2, Zenon
<1>5. Holds'
  BY <1>1, <1>3, Zenon DEF Holds, Slots, Wrap
<1>6. getc' = [at |-> getc'.at, front |-> queue_front', c |-> queue'[1]] /\ getc'.at = "compare"
  BY <1>1, <1>4, Zenon
<1>7. read_queue' = [k \in Slots |-> read_queue'[k]]
  BY <1>1, <1>2, Zenon DEF QueueState
<1> QED BY <1>5, <1>6, <1>7, Zenon DEF QueueState, Slots

\* The front is the rear in a queue of one byte only.
LEMMA LastByte ==
    ASSUME Holds
    PROVE  queue_front = queue_rear <=> Len(queue) = 1
<1> DEFINE len == Len(queue)
<1>1. /\ READ_QUEUE_SIZE \in Nat \ {0} /\ queue_front \in 0 .. READ_QUEUE_SIZE - 1
      /\ len \in 1 .. READ_QUEUE_SIZE /\ queue_rear = Wrap(queue_front + len - 1)
  BY SerialAssumption, Zenon DEF Holds, Slots
<1> HIDE DEF len
<1>2. queue_front = queue_rear <=> len = 1
  BY <1>1 DEF Wrap
<1> QED BY <1>2, Zenon DEF len

\* The front moves on to the second byte.
LEMMA Dequeued ==
    ASSUME Holds, Len(queue) > 1, queue' = Tail(queue), read_queue' = read_queue,
           queue_front' = (queue_front + 1) % READ_QUEUE_SIZE, queue_rear' = queue_rear
    PROVE  Holds'
<1> DEFINE len == Len(queue)
           f == queue_front
           N == READ_QUEUE_SIZE
<1>1. f \in 0 .. N - 1 /\ len \in 2 .. N /\ queue \in Seq(Bytes) /\ N \in Nat \ {0}
      /\ queue_rear = Wrap(f + len - 1)
  BY SerialAssumption DEF Holds, Slots
<1>2. /\ queue' \in Seq(Bytes) /\ Len(queue') = len - 1
      /\ \A k \in 1 .. len - 1 : queue'[k] = queue[k + 1]
  BY <1>1
<1>3. \A k \in 1 .. len : queue[k] = read_queue[Wrap(f + k - 1)]
  BY Zenon DEF Holds
<1> HIDE DEF len
<1>4. queue_front' = Wrap(f + 1) /\ Wrap(f + 1) \in 0 .. N - 1
  <2>1. f + 1 \in 0 .. 2 * N - 1
    BY <1>1
  <2> QED BY <2>1, Wraps, Zenon DEF Slots
<1> HIDE DEF f
<1>5. \A k \in 1 .. len - 1 : Wrap(Wrap(f + 1) + k - 1) = Wrap(f + (k + 1) - 1)
                           /\ k + 1 \in 1 .. len
  BY <1>1 DEF Wrap
<1>6. Wrap(f + len - 1) = Wrap(Wrap(f + 1) + (len - 1) - 1) /\ len - 1 \in 1 .. N
  BY <1>1 DEF Wrap
<1>7. \A k \in 1 .. Len(queue') : queue'[k] = read_queue'[Wrap(queue_front' + k - 1)]
  <2> SUFFICES ASSUME NEW k \in 1 .. len - 1
               PROVE  queue'[k] = read_queue[Wrap(Wrap(f + 1) + k - 1)]
    BY <1>2, <1>4, Zenon
  <2> QED BY <1>2, <1>3, <1>5, Zenon
<1>8. queue_rear' = Wrap(queue_front' + Len(queue') - 1)
  BY <1>1, <1>2, <1>4, <1>6, Zenon
<1>9. queue_front' \in Slots /\ Len(queue') \in 1 .. READ_QUEUE_SIZE
  BY <1>2, <1>4, <1>6, Zenon DEF Slots
<1> QED BY <1>2, <1>7, <1>8, <1>9, Zenon DEF Holds, Wrap, Slots

\* Each store of serial_getc.
LEMMA QueueGetc ==
    ASSUME QueueInv, serial_getc, ~lost'
    PROVE  QueueState'
<1>1. read_queue' = read_queue /\ lost' = lost
  BY Zenon DEF serial_getc
<1>2. QueueState
  BY <1>1, Zenon DEF QueueInv
<1>3. read_queue' = [k \in Slots |-> read_queue'[k]]
  BY <1>1, <1>2, Zenon DEF QueueState
<1>4. getc # NoCall
  BY DEF serial_getc, NoCall
<1>5. CASE getc = [at |-> "reset_front", front |-> getc.front, c |-> getc.c]
           /\ queue = <<>> /\ queue_front \in Slots /\ queue_rear = -1
  <2>1. getc.at = "reset_front"
    BY <1>5
  <2>2. queue_front' = -1 /\ getc' = NoCall /\ queue_rear' = queue_rear /\ queue' = queue
    BY <2>1, Zenon DEF serial_getc
  <2> QED BY <1>3, <1>5, <2>2, Zenon DEF QueueState, Slots, NoCall
<1>6. CASE /\ Holds
           /\ getc.at \in {"compare", "advance", "reset_rear"}
           /\ getc = [at |-> getc.at, front |-> queue_front, c |-> queue[1]]
           /\ getc.at = "advance" => Len(queue) > 1
           /\ getc.at = "reset_rear" => Len(queue) = 1
  <2>0. getc.front = queue_front /\ queue \in Seq(Bytes) /\ queue_front \in Slots
    BY <1>6 DEF Holds
  <2>1. CASE getc.at = "compare"
    <3>1. /\ getc' = [getc EXCEPT !.at = IF getc.front = queue_rear THEN "reset_rear" ELSE "advance"]
          /\ queue_front' = queue_front /\ queue_rear' = queue_rear /\ queue' = queue
      BY <2>1, Zenon DEF serial_getc, indices
    <3>2. Holds'
      BY <1>1, <1>6, <3>1, Zenon DEF Holds, Slots, Wrap
    <3>3. /\ getc'.at \in {"advance", "reset_rear"}
          /\ getc' = [at |-> getc'.at, front |-> queue_front', c |-> queue'[1]]
          /\ getc'.at = "reset_rear" <=> queue_front = queue_rear
      BY <1>6, <2>0, <3>1
    <3>4. Len(queue) \in Nat \ {0}
      BY <1>6, SerialAssumption DEF Holds
    <3>5. /\ getc'.at = "advance" => Len(queue') > 1
          /\ getc'.at = "reset_rear" => Len(queue') = 1
      <4>1. queue_front = queue_rear <=> Len(queue) = 1
        BY <1>6, LastByte, Zenon
      <4>2. \A n \in Nat \ {0} : n # 1 => n > 1
        OBVIOUS
      <4>3. queue' = queue /\ (Len(queue) # 1 => Len(queue) > 1)
        BY <3>1, <3>4, <4>2, Zenon
      <4>4. getc'.at = "advance" => queue_front # queue_rear
        BY <3>3, Zenon
      <4> QED BY <3>3, <4>1, <4>3, <4>4, Zenon
    <3> QED BY <1>3, <3>2, <3>3, <3>5, Zenon DEF QueueState, Slots
  <2>2. CASE getc.at = "advance"
    <3>1. /\ queue_front' = (queue_front + 1) % READ_QUEUE_SIZE /\ queue_rear' = queue_rear
          /\ queue' = Tail(queue) /\ getc' = NoCall
      BY <1>1, <2>0, <2>2 DEF serial_getc, Dequeue
    <3>2. Holds'
      BY <1>1, <1>6, <2>2, <3>1, Dequeued, Zenon
    <3> QED BY <1>3, <3>1, <3>2, Zenon DEF QueueState, Slots, NoCall
  <2>3. CASE getc.at = "reset_rear"
    <3>1. /\ queue_front' = queue_front /\ queue_rear' = -1
          /\ queue' = Tail(queue) /\ getc' = [getc EXCEPT !.at = "reset_front"]
      BY <1>1, <2>3 DEF serial_getc, Dequeue
    <3>2. queue' = <<>>
      <4>1. Len(queue) = 1 /\ queue # <<>>
        BY <1>6, <2>3
      <4>2. Tail(queue) \in Seq(Bytes) /\ Len(Tail(queue)) = 0
        BY <2>0, <4>1
      <4> QED BY <3>1, <4>2
    <3>3. getc' = [at |-> "reset_front", front |-> getc'.front, c |-> getc'.c]
      BY <1>6, <3>1, Zenon
    <3> QED BY <1>3, <2>0, <3>1, <3>2, <3>3, Zenon DEF QueueState, Slots
  <2> QED BY <1>6, <2>1, <2>2, <2>3, Zenon
<1> QED BY <1>2, <1>4, <1>5, <1>6, Zenon DEF QueueState

\* A step of the three drivers.
LEMMA QueueStep ==
    ASSUME QueueInv, [Next]_vars
    PROVE  QueueInv'
<1>1. LineInv'
  BY LineStep, Zenon DEF QueueInv
<1>2. ASSUME ~lost', UNCHANGED <<read_queue, indices, getc, queue, lost>> PROVE QueueState'
  <2>1. /\ read_queue' = read_queue /\ queue_front' = queue_front /\ queue_rear' = queue_rear
        /\ queue' = queue /\ lost' = lost /\ getc' = getc
    BY <1>2, Zenon DEF indices
  <2> QED BY <1>2, <2>1 DEF QueueInv, QueueState, Holds, Slots, Wrap, NoCall
<1>3. CASE KbdStep \/ RtcStep \/ UNCHANGED vars
  <2>1. UNCHANGED <<read_queue, indices, getc, queue, lost>>
    BY <1>3, Zenon DEF KbdStep, RtcStep, vars, com
  <2> QED BY <1>1, <1>2, <2>1, Zenon DEF QueueInv
<1>4. CASE ComStep
  <2>1. CASE serial_init \/ idt_init \/ SerialDevice
    <3>1. UNCHANGED <<read_queue, indices, getc, queue, lost>>
      BY <2>1, Zenon DEF serial_init, idt_init, SerialDevice, pause, receive
    <3> QED BY <1>1, <1>2, <3>1, Zenon DEF QueueInv
  <2>2. CASE serial_irq_handler
    BY <1>1, <2>2, QueueHandler, Zenon DEF QueueInv
  <2>3. CASE read_com
    BY <1>1, <2>3, QueueRead, Zenon DEF QueueInv
  <2>4. CASE serial_getc
    BY <1>1, <2>4, QueueGetc, Zenon DEF QueueInv
  <2> QED BY <1>4, <2>1, <2>2, <2>3, <2>4, Zenon DEF ComStep
<1> QED BY <1>3, <1>4, Zenon DEF Next

\* Readers get the received bytes in order, whenever the interrupt comes between the
\* stores of serial_getc, as long as the queue does not overflow and no byte arrives while
\* the last one is taken.
THEOREM QueueKeepsOrder == Spec => []BytesInOrder
<1>1. Init => QueueInv
  <2> SUFFICES ASSUME Init PROVE QueueInv
    BY Zenon
  <2>1. LineInv
    BY LineInit, Zenon
  <2>2. /\ read_queue = [k \in Slots |-> 0] /\ getc = NoCall /\ queue = <<>>
        /\ queue_front = -1 /\ queue_rear = -1
    BY Zenon DEF Init, SerialInit
  <2>3. read_queue = [k \in Slots |-> read_queue[k]]
    BY <2>2, Zenon
  <2> QED BY <2>1, <2>2, <2>3, Zenon DEF QueueInv, QueueState
<1>2. QueueInv /\ [Next]_vars => QueueInv'
  BY QueueStep, Zenon
<1>3. QueueInv => BytesInOrder
  <2> SUFFICES ASSUME QueueState
               PROVE  /\ Contents = queue
                      /\ getc.at \in {"compare", "advance", "reset_rear"} => getc.c = Head(queue)
    BY Zenon DEF QueueInv, BytesInOrder
  <2>1. CASE getc = NoCall /\ Holds
    BY <2>1, QueueContents, Zenon DEF NoCall
  <2>2. CASE getc = NoCall /\ queue = <<>> /\ queue_front = -1
    BY <2>2, Zenon DEF NoCall, Contents
  <2>3. CASE Holds /\ getc = [at |-> getc.at, front |-> queue_front, c |-> queue[1]]
    <3>1. queue \in Seq(Bytes) /\ Len(queue) # 0
      BY <2>3, SerialAssumption DEF Holds
    <3>2. Head(queue) = queue[1]
      BY <3>1
    <3>3. getc.c = queue[1]
      BY <2>3
    <3> QED BY <2>3, <3>2, <3>3, QueueContents, Zenon
  <2>4. CASE /\ getc = [at |-> "reset_front", front |-> getc.front, c |-> getc.c]
             /\ queue = <<>> /\ queue_rear = -1
    <3>1. getc.at = "reset_front"
      BY <2>4
    <3> QED BY <2>4, <3>1, Zenon DEF Contents
  <2> QED BY <2>1, <2>2, <2>3, <2>4, Zenon DEF QueueState
<1> QED BY <1>1, <1>2, <1>3, PTL DEF Spec

-----------------------------------------------------------------------------

(* The bytes between the keys and the driver explain its modifiers: a bit   *)
(* that is set, or will be, has a key that is down or a release to come.    *)
Waiting == (IF ps2.full THEN <<ps2.data>> ELSE <<>>) \o unsent

MakeCodes == 1 .. 95
Up(b) == b \in 129 .. 223
Bits(b) == shiftcode(IF Up(b) THEN b - RELEASE ELSE b)

\* The bytes that mean something else behind E0, and E0 itself.
Unescaped == {E0, 42, 54, 170, 182}

IsHeld(m, h) == \E k \in h : m \in shiftcode(k[2])
Comes(m, p, i) == \E j \in i .. Len(p) : Up(p[j]) /\ m \in Bits(p[j])

Explained(p, s, h) ==
    /\ \A i \in 1 .. Len(p) : p[i] \in MakeCodes \/ Up(p[i]) \/ p[i] = E0
    /\ \A i \in 1 .. Len(p) : p[i] = E0 => i < Len(p) /\ p[i + 1] \notin Unescaped
    /\ E0ESC \in s => p # <<>> /\ p[1] \notin Unescaped
    /\ \A m \in {SHIFT, CTL, ALT} :
          /\ m \in s => IsHeld(m, h) \/ Comes(m, p, 1)
          /\ \A i \in 1 .. Len(p) :
                p[i] \in MakeCodes /\ m \in Bits(p[i]) => IsHeld(m, h) \/ Comes(m, p, i + 1)

KeyInv ==
    /\ boot \in 1 .. 12
    /\ kbd_irq \in BOOLEAN
    /\ unsent \in Seq(Nat) /\ ps2 \in [data : Nat, full : BOOLEAN]
    /\ kbd_handler <=> boot >= 6
    /\ ~kbd_handler => shift = {}
    /\ kbd_irq => ps2.full
    /\ kbd_handler /\ ps2.full /\ ~kbd_irq => boot = 6 /\ shift = {}
    /\ held \subseteq Keys
    /\ Explained(Waiting, shift, held)

\* Behind E0 the codes have the same bits, except those of the shift keys.
LEMMA EscapedBits ==
    ASSUME NEW c \in MakeCodes
    PROVE  /\ ~Up(c) /\ c # E0 /\ Bits(c) = shiftcode(c)
           /\ Up(c + RELEASE) /\ c + RELEASE # E0 /\ Bits(c + RELEASE) = shiftcode(c)
           /\ c \notin {42, 54} => shiftcode(c + RELEASE) = shiftcode(c)
<1>1. ~Up(c) /\ c # E0 /\ Up(c + 128) /\ c + 128 # E0 /\ (c + 128) - 128 = c
  BY DEF MakeCodes, Up, E0
<1>2. Bits(c) = shiftcode(c) /\ Bits(c + RELEASE) = shiftcode(c)
  BY <1>1, Zenon DEF Bits, RELEASE
<1>3. ASSUME c \notin {42, 54} PROVE shiftcode(c + 128) = shiftcode(c)
  <2>1. /\ c + 128 \in {29, 157} <=> c = 29
        /\ c + 128 \notin {42, 54}
        /\ c + 128 \in {56, 184} <=> c = 56
        /\ c \in {29, 157} <=> c = 29
        /\ c \in {56, 184} <=> c = 56
    BY DEF MakeCodes
  <2>2. CASE c = 29
    BY <1>3, <2>1, <2>2 DEF shiftcode
  <2>3. CASE c = 56
    BY <1>3, <2>1, <2>3 DEF shiftcode
  <2>4. CASE c # 29 /\ c # 56
    BY <1>3, <2>1, <2>4, Zenon DEF shiftcode
  <2> QED BY <2>2, <2>3, <2>4, Zenon
<1> QED BY <1>1, <1>2, <1>3, Zenon DEF RELEASE

\* What decode makes of a byte.
LEMMA Decoded ==
    ASSUME NEW d, d \in MakeCodes \/ Up(d) \/ d = E0, decode(d),
           E0ESC \in shift => d \notin Unescaped
    PROVE  /\ d = E0 => shift' = shift \cup {E0ESC}
           /\ d # E0 => E0ESC \notin shift'
           /\ \A m \in {SHIFT, CTL, ALT} :
                 /\ Up(d) /\ m \in shift' => m \in shift /\ m \notin Bits(d)
                 /\ d \in MakeCodes /\ m \in shift' => m \in shift \/ m \in Bits(d)
<1>1. CASE d = E0
  BY <1>1 DEF decode, E0, Up, MakeCodes
<1>2. CASE Up(d)
  <2>1. d # E0 /\ d >= RELEASE /\ d - RELEASE \in MakeCodes /\ (d - RELEASE) + RELEASE = d
        /\ d \notin MakeCodes
    BY <1>2 DEF Up, E0, RELEASE, MakeCodes
  <2>2. shift' = shift \ (shiftcode(IF E0ESC \in shift THEN d ELSE d - RELEASE) \cup {E0ESC})
    BY <2>1, Zenon DEF decode
  <2>3. shiftcode(IF E0ESC \in shift THEN d ELSE d - RELEASE) = Bits(d)
    <3>1. Bits(d) = shiftcode(d - RELEASE)
      BY <1>2, Zenon DEF Bits
    <3>2. CASE E0ESC \in shift
      <4>1. d - RELEASE \notin {42, 54}
        BY <1>2, <3>2 DEF Unescaped, RELEASE, Up
      <4>2. shiftcode(d) = shiftcode(d - RELEASE)
        BY <2>1, <4>1, EscapedBits, Zenon
      <4> QED BY <3>1, <3>2, <4>2, Zenon
    <3>3. CASE E0ESC \notin shift
      BY <3>1, <3>3, Zenon
    <3> QED BY <3>2, <3>3, Zenon
  <2> QED BY <2>1, <2>2, <2>3, Zenon
<1>3. CASE d \in MakeCodes
  <2> DEFINE code == IF E0ESC \in shift THEN d + RELEASE ELSE d
             on == (shift \ {E0ESC}) \cup shiftcode(code)
  <2>1. d # E0 /\ ~(d >= RELEASE) /\ ~Up(d)
    BY <1>3 DEF Up, E0, RELEASE, MakeCodes
  <2>2. shift' = toggle(on, togglecode(code))
    BY <2>1, Zenon DEF decode
  <2>3. shiftcode(code) = Bits(d)
    <3>1. Bits(d) = shiftcode(d)
      BY <1>3, EscapedBits, Zenon
    <3>2. CASE E0ESC \in shift
      <4>1. d \notin {42, 54}
        BY <3>2, Zenon DEF Unescaped
      <4>2. shiftcode(d + RELEASE) = shiftcode(d)
        BY <1>3, <4>1, EscapedBits, Zenon
      <4> QED BY <3>1, <3>2, <4>2, Zenon
    <3>3. CASE E0ESC \notin shift
      BY <3>1, <3>3, Zenon
    <3> QED BY <3>2, <3>3, Zenon
  <2> HIDE DEF code
  <2>4. togglecode(code) \subseteq {"CAPSLOCK", "NUMLOCK", "SCROLLLOCK"}
    BY Zenon DEF togglecode
  <2>5. shiftcode(code) \subseteq {SHIFT, CTL, ALT}
    BY Zenon DEF shiftcode
  <2>6. \A m \in {SHIFT, CTL, ALT, E0ESC} : m \notin togglecode(code)
    BY <2>4, Zenon DEF SHIFT, CTL, ALT, E0ESC
  <2>7. E0ESC \notin on
    BY <2>5, Zenon DEF SHIFT, CTL, ALT, E0ESC
  <2> HIDE DEF on
  <2>8. \A m \in {SHIFT, CTL, ALT, E0ESC} : m \in shift' => m \in on
    BY <2>2, <2>6, Zenon DEF toggle
  <2> QED BY <2>1, <2>3, <2>7, <2>8, Zenon DEF on
<1> QED BY <1>1, <1>2, <1>3, Zenon

\* The driver takes the first byte.
LEMMA FirstByteTaken ==
    ASSUME NEW p \in Seq(Nat), p # <<>>, NEW s, NEW t, NEW h, Explained(p, s, h),
           p[1] = E0 => t = s \cup {E0ESC},
           p[1] # E0 => E0ESC \notin t,
           \A m \in {SHIFT, CTL, ALT} :
              /\ Up(p[1]) /\ m \in t => m \in s /\ m \notin Bits(p[1])
              /\ p[1] \in MakeCodes /\ m \in t => m \in s \/ m \in Bits(p[1])
    PROVE  Explained(Tail(p), t, h)
<1> DEFINE q == Tail(p)
           n == Len(p)
<1>1. n \in Nat \ {0} /\ q \in Seq(Nat) /\ Len(q) = n - 1 /\ \A k \in 1 .. n - 1 : q[k] = p[k + 1]
  OBVIOUS
<1>2. 1 \in 1 .. n
  BY <1>1
<1>3. ASSUME NEW m, NEW k \in Nat \ {0}, Comes(m, p, k + 1) PROVE Comes(m, q, k)
  <2>1. PICK j \in k + 1 .. n : Up(p[j]) /\ m \in Bits(p[j])
    BY <1>3, Zenon DEF Comes
  <2>2. j - 1 \in k .. n - 1 /\ j - 1 \in 1 .. n - 1 /\ (j - 1) + 1 = j
    BY <1>1, <1>3, <2>1
  <2>3. q[j - 1] = p[j]
    BY <1>1, <2>2, Zenon
  <2> QED BY <1>1, <2>1, <2>2, <2>3, Zenon DEF Comes
<1>4. /\ \A k \in 1 .. n : p[k] \in MakeCodes \/ Up(p[k]) \/ p[k] = E0
      /\ \A k \in 1 .. n : p[k] = E0 => k < n /\ p[k + 1] \notin Unescaped
      /\ \A m \in {SHIFT, CTL, ALT} :
            /\ m \in s => IsHeld(m, h) \/ Comes(m, p, 1)
            /\ \A k \in 1 .. n :
                  p[k] \in MakeCodes /\ m \in Bits(p[k]) => IsHeld(m, h) \/ Comes(m, p, k + 1)
  BY Zenon DEF Explained
<1> HIDE DEF n
<1>5. \A k \in 1 .. n - 1 : k + 1 \in 1 .. n /\ (k + 1 < n => k < n - 1 /\ k + 1 \in 1 .. n - 1)
                          /\ k \in Nat \ {0}
  BY <1>1
<1>6. \A k \in 1 .. n - 1 : q[k] \in MakeCodes \/ Up(q[k]) \/ q[k] = E0
  BY <1>1, <1>4, <1>5, Zenon
<1>7. \A k \in 1 .. n - 1 : q[k] = E0 => k < n - 1 /\ q[k + 1] \notin Unescaped
  <2> SUFFICES ASSUME NEW k \in 1 .. n - 1, q[k] = E0
               PROVE  k < n - 1 /\ q[k + 1] \notin Unescaped
    BY Zenon
  <2>1. p[k + 1] = E0 /\ k + 1 \in 1 .. n
    BY <1>1, <1>5, Zenon
  <2>2. k + 1 < n /\ p[(k + 1) + 1] \notin Unescaped
    BY <1>4, <2>1, Zenon
  <2>3. k < n - 1 /\ k + 1 \in 1 .. n - 1
    BY <1>5, <2>2, Zenon
  <2> QED BY <1>1, <2>2, <2>3, Zenon
<1>8. ASSUME E0ESC \in t PROVE q # <<>> /\ q[1] \notin Unescaped
  <2>1. p[1] = E0
    BY <1>8, Zenon
  <2>2. 1 < n /\ p[1 + 1] \notin Unescaped
    BY <1>2, <1>4, <2>1, Zenon
  <2>3. 1 \in 1 .. n - 1
    BY <1>1, <2>2
  <2>4. q[1] = p[1 + 1]
    BY <1>1, <2>3, Zenon
  <2>5. Len(q) # 0
    BY <1>1, <2>2
  <2> HIDE DEF q
  <2>6. q # <<>>
    BY <2>5
  <2> QED BY <2>2, <2>4, <2>6, Zenon
<1>9. ASSUME NEW m \in {SHIFT, CTL, ALT}, m \in t PROVE IsHeld(m, h) \/ Comes(m, q, 1)
  <2>0. m # E0ESC
    BY Zenon DEF SHIFT, CTL, ALT, E0ESC
  <2>1. CASE m \in s /\ (p[1] = E0 \/ p[1] \in MakeCodes \/ m \notin Bits(p[1]))
    <3> SUFFICES ASSUME Comes(m, p, 1) PROVE Comes(m, q, 1)
      BY <1>4, <2>1, Zenon
    <3>1. PICK j \in 1 .. n : Up(p[j]) /\ m \in Bits(p[j])
      BY Zenon DEF Comes, n
    <3>2. ~Up(E0) /\ \A c \in MakeCodes : ~Up(c)
      BY DEF Up, E0, MakeCodes
    <3>3. j # 1
      BY <2>1, <3>1, <3>2, Zenon
    <3>4. j \in 1 + 1 .. n
      BY <3>1, <3>3, <1>1
    <3>5. Comes(m, p, 1 + 1)
      BY <3>1, <3>4, Zenon DEF Comes, n
    <3> QED BY <1>3, <3>5
  <2>2. CASE p[1] \in MakeCodes /\ m \in Bits(p[1])
    <3>1. IsHeld(m, h) \/ Comes(m, p, 1 + 1)
      BY <1>2, <1>4, <2>2, Zenon
    <3> QED BY <1>3, <3>1
  <2>3. CASE p[1] = E0
    BY <1>9, <2>0, <2>1, <2>3, Zenon
  <2>4. CASE Up(p[1])
    BY <1>9, <2>1, <2>4, Zenon
  <2>5. CASE p[1] \in MakeCodes
    BY <1>9, <2>1, <2>2, <2>5, Zenon
  <2>6. p[1] \in MakeCodes \/ Up(p[1]) \/ p[1] = E0
    BY <1>2, <1>4, Zenon
  <2> QED BY <2>3, <2>4, <2>5, <2>6, Zenon
<1>10. ASSUME NEW m \in {SHIFT, CTL, ALT}, NEW k \in 1 .. n - 1,
              q[k] \in MakeCodes, m \in Bits(q[k])
       PROVE  IsHeld(m, h) \/ Comes(m, q, k + 1)
  <2>1. IsHeld(m, h) \/ Comes(m, p, (k + 1) + 1)
    BY <1>1, <1>4, <1>5, <1>10, Zenon
  <2>2. k + 1 \in Nat \ {0}
    BY <1>5
  <2> QED BY <1>3, <2>1, <2>2, Zenon
<1> HIDE DEF q
<1>11. Explained(q, t, h)
  BY <1>1, <1>6, <1>7, <1>8, <1>9, <1>10, Zenon DEF Explained
<1> QED BY <1>11, Zenon DEF q

\* The first byte is lost while no bit is set.
LEMMA FirstByteDropped ==
    ASSUME NEW p \in Seq(Nat), p # <<>>, NEW h, Explained(p, {}, h)
    PROVE  Explained(Tail(p), {}, h)
<1> DEFINE q == Tail(p)
<1>1. Len(p) \in Nat \ {0} /\ 1 \in 1 .. Len(p)
  OBVIOUS
<1>2. Explained(q, {E0ESC}, h) \/ Explained(q, {}, h)
  <2>1. CASE p[1] = E0
    <3>1. ~Up(E0) /\ E0 \notin MakeCodes
      BY DEF Up, E0, MakeCodes
    <3>2. {E0ESC} = {} \cup {E0ESC}
      BY Zenon
    <3> QED BY <2>1, <3>1, <3>2, FirstByteTaken, Zenon
  <2>2. CASE p[1] # E0
    BY <2>2, FirstByteTaken, Zenon
  <2> QED BY <2>1, <2>2, Zenon
<1>3. \A m \in {SHIFT, CTL, ALT} : m # E0ESC
  BY Zenon DEF SHIFT, CTL, ALT, E0ESC
<1> HIDE DEF q
<1>4. Explained(q, {}, h)
  BY <1>2, Zenon DEF Explained
<1> QED BY <1>4, Zenon DEF q

\* Positions in a sequence of n elements with l more behind them.
LEMMA Positions ==
    ASSUME NEW n \in Nat, NEW l \in Nat
    PROVE  /\ \A k \in 1 .. n : k < n => k + 1 \in 1 .. n /\ k < n + l
           /\ \A j \in 1 .. l : j < l => j + 1 \in 1 .. l /\ n + j < n + l /\ (n + j) + 1 = n + (j + 1)
           /\ \A k \in 1 .. n : k + 1 \in 1 .. n + 1 /\ k + 1 \in Nat \ {0}
           /\ \A k \in Nat \ {0} : \A j \in k .. n : j \in 1 .. n /\ j \in k .. n + l
           /\ \A k \in 1 .. n + 1 : \A j \in 1 .. l : n + j \in k .. n + l
           /\ \A k \in 1 .. n + l : k \in 1 .. n \/ \E j \in 1 .. l : k = n + j
           /\ 1 \in 1 .. n + 1 /\ 1 \in Nat \ {0}
<1>1. ASSUME NEW k \in 1 .. n + l PROVE k \in 1 .. n \/ \E j \in 1 .. l : k = n + j
  <2>1. CASE k > n
    <3>1. k - n \in 1 .. l /\ k = n + (k - n)
      BY <2>1
    <3> QED BY <3>1, Zenon
  <2>2. CASE ~(k > n)
    BY <2>2
  <2> QED BY <2>1, <2>2, Zenon
<1>2. \A k \in Nat \ {0} : \A j \in k .. n : j \in 1 .. n /\ j \in k .. n + l
  OBVIOUS
<1>3. \A k \in 1 .. n + 1 : \A j \in 1 .. l : n + j \in k .. n + l
  OBVIOUS
<1> QED BY <1>1, <1>2, <1>3

\* The keyboard adds bytes.
LEMMA BytesAdded ==
    ASSUME NEW p \in Seq(Nat), NEW r \in Seq(Nat), NEW s, NEW h, NEW g, Explained(p, s, h),
           \A i \in 1 .. Len(r) : r[i] \in MakeCodes \/ Up(r[i]) \/ r[i] = E0,
           \A i \in 1 .. Len(r) : r[i] = E0 => i < Len(r) /\ r[i + 1] \notin Unescaped,
           \A m \in {SHIFT, CTL, ALT} :
              /\ IsHeld(m, h) => IsHeld(m, g) \/ Comes(m, r, 1)
              /\ \A i \in 1 .. Len(r) : r[i] \in MakeCodes /\ m \in Bits(r[i]) => IsHeld(m, g)
    PROVE  Explained(p \o r, s, g)
<1> DEFINE q == p \o r
           n == Len(p)
           l == Len(r)
<1>1. /\ n \in Nat /\ l \in Nat /\ q \in Seq(Nat) /\ Len(q) = n + l
      /\ \A k \in 1 .. n : q[k] = p[k]
      /\ \A k \in 1 .. l : q[n + k] = r[k]
  <2>1. q \in Seq(Nat) /\ Len(q) = n + l /\ n \in Nat /\ l \in Nat
    BY ONLY p \in Seq(Nat), r \in Seq(Nat), ConcatProperties
  <2>2. \A k \in 1 .. n + l : q[k] = IF k <= n THEN p[k] ELSE r[k - n]
    BY ConcatProperties, Zenon
  <2> HIDE DEF q, n, l
  <2>3. \A k \in 1 .. n : k \in 1 .. n + l /\ k <= n
    BY <2>1
  <2>4. \A k \in 1 .. l : n + k \in 1 .. n + l /\ ~(n + k <= n) /\ (n + k) - n = k
    BY <2>1
  <2> QED BY <2>1, <2>2, <2>3, <2>4, Zenon
<1>2. /\ \A k \in 1 .. n : p[k] \in MakeCodes \/ Up(p[k]) \/ p[k] = E0
      /\ \A k \in 1 .. n : p[k] = E0 => k < n /\ p[k + 1] \notin Unescaped
      /\ E0ESC \in s => p # <<>> /\ p[1] \notin Unescaped
      /\ \A m \in {SHIFT, CTL, ALT} :
            /\ m \in s => IsHeld(m, h) \/ Comes(m, p, 1)
            /\ \A k \in 1 .. n :
                  p[k] \in MakeCodes /\ m \in Bits(p[k]) => IsHeld(m, h) \/ Comes(m, p, k + 1)
  BY Zenon DEF Explained
<1>3. /\ \A k \in 1 .. l : r[k] \in MakeCodes \/ Up(r[k]) \/ r[k] = E0
      /\ \A k \in 1 .. l : r[k] = E0 => k < l /\ r[k + 1] \notin Unescaped
      /\ \A m \in {SHIFT, CTL, ALT} :
            /\ IsHeld(m, h) => IsHeld(m, g) \/ Comes(m, r, 1)
            /\ \A k \in 1 .. l : r[k] \in MakeCodes /\ m \in Bits(r[k]) => IsHeld(m, g)
  BY Zenon
<1>4. ASSUME NEW m, NEW k \in Nat \ {0}, Comes(m, p, k) PROVE Comes(m, q, k)
  <2>1. PICK j \in k .. n : Up(p[j]) /\ m \in Bits(p[j])
    BY <1>4, Zenon DEF Comes
  <2>2. j \in 1 .. n /\ j \in k .. n + l
    BY <1>1, <1>4, <2>1, Positions, Zenon
  <2> QED BY <1>1, <2>1, <2>2, Zenon DEF Comes
<1>5. ASSUME NEW m, NEW k \in 1 .. n + 1, Comes(m, r, 1) PROVE Comes(m, q, k)
  <2>1. PICK j \in 1 .. l : Up(r[j]) /\ m \in Bits(r[j])
    BY <1>5, Zenon DEF Comes
  <2>2. n + j \in k .. n + l
    BY <1>1, <1>5, <2>1, Positions, Zenon
  <2> QED BY <1>1, <2>1, <2>2, Zenon DEF Comes
<1> HIDE DEF q, n, l
<1>6. ASSUME NEW k \in 1 .. n + l PROVE k \in 1 .. n \/ \E j \in 1 .. l : k = n + j
  <2>1. n \in Nat /\ l \in Nat
    BY <1>1, Zenon
  <2>2. \A i \in 1 .. n + l : i \in 1 .. n \/ \E j \in 1 .. l : i = n + j
    BY ONLY <2>1, Positions, Zenon
  <2> QED BY <2>2, <1>6, Zenon
<1>7. \A k \in 1 .. n + l : q[k] \in MakeCodes \/ Up(q[k]) \/ q[k] = E0
  BY <1>1, <1>2, <1>3, <1>6, Zenon
<1>8. \A k \in 1 .. n + l : q[k] = E0 => k < n + l /\ q[k + 1] \notin Unescaped
  <2> SUFFICES ASSUME NEW k \in 1 .. n + l, q[k] = E0
               PROVE  k < n + l /\ q[k + 1] \notin Unescaped
    BY Zenon
  <2>1. CASE k \in 1 .. n
    <3>1. k < n /\ p[k + 1] \notin Unescaped
      BY <1>1, <1>2, <2>1, Zenon
    <3>2. k + 1 \in 1 .. n /\ k < n + l
      BY <1>1, <2>1, <3>1, Positions, Zenon
    <3> QED BY <1>1, <3>1, <3>2, Zenon
  <2>2. CASE \E j \in 1 .. l : k = n + j
    <3>1. PICK j \in 1 .. l : k = n + j
      BY <2>2, Zenon
    <3>2. j < l /\ r[j + 1] \notin Unescaped
      BY <1>1, <1>3, <3>1, Zenon
    <3>3. j + 1 \in 1 .. l /\ k < n + l /\ k + 1 = n + (j + 1)
      <4>1. \A i \in 1 .. l : i < l => i + 1 \in 1 .. l /\ n + i < n + l /\ (n + i) + 1 = n + (i + 1)
        BY <1>1, Positions, Zenon
      <4>2. j + 1 \in 1 .. l /\ n + j < n + l /\ (n + j) + 1 = n + (j + 1)
        BY <3>1, <3>2, <4>1, Zenon
      <4> QED BY <3>1, <4>2, Zenon
    <3>4. q[n + (j + 1)] = r[j + 1]
      BY <1>1, <3>3, Zenon
    <3>5. q[k + 1] = r[j + 1]
      BY <3>3, <3>4, Zenon
    <3> QED BY <3>2, <3>3, <3>5, Zenon
  <2> QED BY <1>6, <2>1, <2>2, Zenon
<1>9. ASSUME E0ESC \in s PROVE q # <<>> /\ q[1] \notin Unescaped
  <2>1. n # 0 /\ p[1] \notin Unescaped
    BY <1>2, <1>9 DEF n
  <2>2. 1 \in 1 .. n /\ n + l # 0
    <3>1. \A a \in Nat, b \in Nat : a # 0 => 1 \in 1 .. a /\ a + b # 0
      OBVIOUS
    <3> QED BY <1>1, <2>1, <3>1, Zenon
  <2>3. Len(q) # 0
    BY <1>1, <2>2, Zenon
  <2>4. q # <<>>
    BY <2>3
  <2>5. q[1] = p[1]
    BY <1>1, <2>2, Zenon
  <2> QED BY <2>1, <2>4, <2>5, Zenon
<1>10. ASSUME NEW m \in {SHIFT, CTL, ALT}, m \in s PROVE IsHeld(m, g) \/ Comes(m, q, 1)
  <2>1. IsHeld(m, h) \/ Comes(m, p, 1)
    BY <1>2, <1>10, Zenon
  <2>2. 1 \in 1 .. n + 1 /\ 1 \in Nat \ {0}
    BY <1>1, Positions, Zenon
  <2> QED BY <1>3, <1>4, <1>5, <2>1, <2>2, Zenon
<1>11. ASSUME NEW m \in {SHIFT, CTL, ALT}, NEW k \in 1 .. n + l,
              q[k] \in MakeCodes, m \in Bits(q[k])
       PROVE  IsHeld(m, g) \/ Comes(m, q, k + 1)
  <2>1. CASE k \in 1 .. n
    <3>1. IsHeld(m, h) \/ Comes(m, p, k + 1)
      BY <1>1, <1>2, <1>11, <2>1, Zenon
    <3>2. k + 1 \in 1 .. n + 1 /\ k + 1 \in Nat \ {0}
      BY <1>1, <2>1, Positions, Zenon
    <3> QED BY <1>3, <1>4, <1>5, <3>1, <3>2, Zenon
  <2>2. CASE \E j \in 1 .. l : k = n + j
    BY <1>1, <1>3, <1>11, <2>2, Zenon
  <2> QED BY <1>6, <2>1, <2>2, Zenon
<1>12. Explained(q, s, g)
  BY <1>1, <1>7, <1>8, <1>9, <1>10, <1>11, Zenon DEF Explained
<1> QED BY <1>12, Zenon DEF q

\* The bytes of a key.
LEMMA CodesOfKey ==
    ASSUME NEW k \in Keys, NEW up \in BOOLEAN
    PROVE  LET r == Codes(k, up) IN
           /\ r \in Seq(Nat)
           /\ \A i \in 1 .. Len(r) : r[i] \in MakeCodes \/ Up(r[i]) \/ r[i] = E0
           /\ \A i \in 1 .. Len(r) : r[i] = E0 => i < Len(r) /\ r[i + 1] \notin Unescaped
           /\ \A i \in 1 .. Len(r) : r[i] \in MakeCodes => ~up /\ Bits(r[i]) = shiftcode(k[2])
           /\ up => \E i \in 1 .. Len(r) : Up(r[i]) /\ Bits(r[i]) = shiftcode(k[2])
<1> DEFINE c == k[2]
           x == IF up THEN c + RELEASE ELSE c
           r == Codes(k, up)
<1>1. k[1] \in BOOLEAN /\ c \in MakeCodes /\ (k[1] => c \notin {42, 54})
  <2>1. k \in BOOLEAN \X (1 .. 95) /\ (k[1] => k[2] \notin {42, 54})
    BY KeysAssumption, Zenon
  <2> QED BY <2>1, Zenon DEF MakeCodes
<1>2. r = (IF k[1] THEN <<E0>> ELSE <<>>) \o <<x>>
  BY Zenon DEF Codes
<1> HIDE DEF c, r
<1>3. /\ x \in Nat /\ x # E0 /\ (x \in MakeCodes \/ Up(x)) /\ (x \in MakeCodes <=> ~up)
      /\ (Up(x) <=> up) /\ Bits(x) = shiftcode(c)
  <2>1. CASE up
    BY <1>1, <2>1, EscapedBits DEF MakeCodes, RELEASE, Up
  <2>2. CASE ~up
    BY <1>1, <2>2, EscapedBits, SMTT(30) DEF MakeCodes, RELEASE
  <2> QED BY <2>1, <2>2, Zenon
<1>4. k[1] => x \notin Unescaped
  <2>1. CASE up
    BY <1>1, <2>1 DEF Unescaped, E0, MakeCodes, RELEASE
  <2>2. CASE ~up
    BY <1>1, <2>2 DEF Unescaped, E0, MakeCodes
  <2> QED BY <2>1, <2>2, Zenon
<1>5. E0 \in Nat /\ E0 \notin MakeCodes /\ ~Up(E0)
  BY DEF E0, MakeCodes, Up
<1> HIDE DEF x
<1>6. CASE k[1]
  <2>1. r = <<E0>> \o <<x>> /\ <<E0>> \in Seq(Nat) /\ <<x>> \in Seq(Nat)
        /\ Len(<<E0>>) = 1 /\ Len(<<x>>) = 1
    BY <1>2, <1>3, <1>5, <1>6
  <2>2. r \in Seq(Nat) /\ Len(r) = 2 /\ r[1] = E0 /\ r[2] = x
    <3>1. /\ r \in Seq(Nat) /\ Len(r) = 1 + 1
          /\ \A j \in 1 .. 1 + 1 : r[j] = IF j <= 1 THEN <<E0>>[j] ELSE <<x>>[j - 1]
      BY <2>1, ConcatProperties
    <3> QED BY <3>1
  <2>3. \A j \in 1 .. 2 : j = 1 \/ j = 2
    OBVIOUS
  <2>4. /\ \A j \in 1 .. Len(r) : r[j] \in MakeCodes \/ Up(r[j]) \/ r[j] = E0
        /\ \A j \in 1 .. Len(r) : r[j] \in MakeCodes => ~up /\ Bits(r[j]) = shiftcode(c)
    BY <1>3, <1>5, <2>2, <2>3, Zenon
  <2>5. \A j \in 1 .. Len(r) : r[j] = E0 => j < Len(r) /\ r[j + 1] \notin Unescaped
    BY <1>3, <1>4, <1>6, <2>2, <2>3
  <2>6. 2 \in 1 .. Len(r) /\ (up => Up(r[2]) /\ Bits(r[2]) = shiftcode(c))
    BY <1>3, <2>2
  <2> QED BY <2>2, <2>4, <2>5, <2>6, Zenon DEF r, c
<1>7. CASE ~k[1]
  <2>1. r = <<x>>
    <3>1. <<x>> \in Seq(Nat)
      BY <1>3
    <3>2. <<>> \o <<x>> = <<x>>
      BY <3>1, ConcatEmptySeq, Zenon
    <3> QED BY <1>2, <1>7, <3>2, Zenon
  <2>2. r \in Seq(Nat) /\ Len(r) = 1 /\ r[1] = x
    BY <1>3, <2>1
  <2>3. \A j \in 1 .. Len(r) : j = 1
    BY <2>2
  <2>4. /\ \A j \in 1 .. Len(r) : r[j] \in MakeCodes \/ Up(r[j]) \/ r[j] = E0
        /\ \A j \in 1 .. Len(r) : r[j] \in MakeCodes => ~up /\ Bits(r[j]) = shiftcode(c)
        /\ \A j \in 1 .. Len(r) : r[j] # E0
    BY <1>3, <2>2, <2>3, Zenon
  <2>5. 1 \in 1 .. Len(r) /\ (up => Up(r[1]) /\ Bits(r[1]) = shiftcode(c))
    BY <1>3, <2>2
  <2> QED BY <2>2, <2>4, <2>5, Zenon DEF r, c
<1> QED BY <1>1, <1>6, <1>7, Zenon

\* The bytes ahead of those the keyboard has yet to send.
LEMMA WaitingBytes ==
    ASSUME unsent \in Seq(Nat), ps2 \in [data : Nat, full : BOOLEAN]
    PROVE  /\ Waiting \in Seq(Nat)
           /\ ps2.full => Waiting # <<>> /\ Waiting[1] = ps2.data /\ Tail(Waiting) = unsent
           /\ ~ps2.full => Waiting = unsent
<1>1. CASE ps2.full
  <2> DEFINE x == ps2.data
  <2>1. x \in Nat /\ Waiting = <<x>> \o unsent
    BY <1>1, Zenon DEF Waiting
  <2> HIDE DEF x
  <2>2. <<x>> \in Seq(Nat) /\ Len(<<x>>) = 1
    BY <2>1
  <2>3. /\ Waiting \in Seq(Nat) /\ Len(Waiting) = 1 + Len(unsent)
        /\ \A j \in 1 .. 1 + Len(unsent) : Waiting[j] = IF j <= 1 THEN <<x>>[j] ELSE unsent[j - 1]
    BY <2>1, <2>2, ConcatProperties
  <2> DEFINE l == Len(unsent)
             w == Waiting
  <2>4. l \in Nat /\ w \in Seq(Nat) /\ Len(w) = 1 + l /\ unsent \in Seq(Nat)
        /\ \A j \in 1 .. 1 + l : w[j] = IF j <= 1 THEN <<x>>[j] ELSE unsent[j - 1]
    BY <2>3
  <2>5. Len(unsent) = l
    BY Zenon
  <2> HIDE DEF l, w
  <2>6. w[1] = x /\ \A j \in 1 .. l : w[j + 1] = unsent[j]
    <3>1. 1 \in 1 .. 1 + l /\ 1 <= 1 /\ <<x>>[1] = x
      BY <2>4
    <3>2. \A j \in 1 .. l : j + 1 \in 1 .. 1 + l /\ ~(j + 1 <= 1) /\ (j + 1) - 1 = j
      BY <2>4
    <3>3. w[1] = x
      BY <2>4, <3>1, Zenon
    <3>4. ASSUME NEW j \in 1 .. l PROVE w[j + 1] = unsent[j]
      <4>1. w[j + 1] = unsent[(j + 1) - 1]
        BY <2>4, <3>2, Zenon
      <4> QED BY <3>2, <4>1, Zenon
    <3> QED BY <3>3, <3>4, Zenon
  <2>7. w # <<>>
    BY <2>4
  <2>8. Tail(w) \in Seq(Nat) /\ Len(Tail(w)) = l /\ \A j \in 1 .. l : Tail(w)[j] = w[j + 1]
    <3>1. /\ Tail(w) \in Seq(Nat) /\ Len(Tail(w)) = Len(w) - 1
          /\ \A j \in 1 .. Len(Tail(w)) : Tail(w)[j] = w[j + 1]
      BY <2>4, <2>7, HeadTailProperties, Zenon
    <3>2. Len(Tail(w)) = l
      BY <2>4, <3>1
    <3> QED BY <3>1, <3>2, Zenon
  <2>9. Tail(w) = unsent
    BY <2>4, <2>5, <2>6, <2>8, SeqEqual, Zenon
  <2> QED BY <1>1, <2>4, <2>6, <2>7, <2>9, Zenon DEF w, x
<1>2. CASE ~ps2.full
  <2>1. Waiting = <<>> \o unsent
    BY <1>2, Zenon DEF Waiting
  <2> QED BY <1>2, <2>1, ConcatEmptySeq, Zenon
<1> QED BY <1>1, <1>2, Zenon

\* A key goes down or up.
LEMMA KeyMoves ==
    ASSUME KeyInv, NEW k \in Keys, press(k) \/ release(k)
    PROVE  KeyInv'
<1> DEFINE pre == IF ps2.full THEN <<ps2.data>> ELSE <<>>
<1>0. /\ unsent \in Seq(Nat) /\ ps2 \in [data : Nat, full : BOOLEAN] /\ held \subseteq Keys
      /\ Explained(Waiting, shift, held)
  BY Zenon DEF KeyInv
<1>1. /\ boot' = boot /\ ps2' = ps2 /\ kbd_irq' = kbd_irq /\ kbd_handler' = kbd_handler
      /\ shift' = shift
  BY Zenon DEF press, release
<1>2. PICK up \in BOOLEAN : /\ unsent' = unsent \o Codes(k, up)
                           /\ held' = IF up THEN held \ {k} ELSE held \cup {k}
  BY Zenon DEF press, release
<1> DEFINE r == Codes(k, up)
<1>3. /\ r \in Seq(Nat)
      /\ \A j \in 1 .. Len(r) : r[j] \in MakeCodes \/ Up(r[j]) \/ r[j] = E0
      /\ \A j \in 1 .. Len(r) : r[j] = E0 => j < Len(r) /\ r[j + 1] \notin Unescaped
      /\ \A j \in 1 .. Len(r) : r[j] \in MakeCodes => ~up /\ Bits(r[j]) = shiftcode(k[2])
      /\ up => \E j \in 1 .. Len(r) : Up(r[j]) /\ Bits(r[j]) = shiftcode(k[2])
  BY CodesOfKey, Zenon
<1>4. unsent' = unsent \o r
  BY <1>2, Zenon
<1> HIDE DEF r
<1>5. Waiting' = Waiting \o r /\ unsent' \in Seq(Nat)
  <2>1. pre \in Seq(Nat)
    <3>1. <<>> \in Seq(Nat)
      OBVIOUS
    <3>2. ps2.data \in Nat
      BY <1>0, Zenon
    <3>3. <<ps2.data>> \in Seq(Nat)
      BY <3>2
    <3> QED BY <3>1, <3>3, Zenon
  <2>2. Waiting = pre \o unsent /\ Waiting' = pre \o (unsent \o r)
    BY <1>1, <1>4, Zenon DEF Waiting
  <2>3. unsent \o r \in Seq(Nat)
    BY <1>0, <1>3, ConcatProperties, Zenon
  <2> HIDE DEF pre
  <2>4. (pre \o unsent) \o r = pre \o (unsent \o r)
    BY <1>0, <1>3, <2>1, ConcatAssociative, SMTT(30)
  <2> QED BY <1>4, <2>2, <2>3, <2>4, Zenon
<1>6. ASSUME NEW m PROVE IsHeld(m, held) => IsHeld(m, held') \/ Comes(m, r, 1)
  <2>1. CASE ~up
    BY <1>2, <2>1, Zenon DEF IsHeld
  <2>2. CASE up
    <3>1. CASE m \in shiftcode(k[2])
      <4>1. PICK j \in 1 .. Len(r) : Up(r[j]) /\ Bits(r[j]) = shiftcode(k[2])
        BY <1>3, <2>2, Zenon
      <4> QED BY <3>1, <4>1, Zenon DEF Comes
    <3>2. CASE m \notin shiftcode(k[2])
      BY <1>2, <2>2, <3>2, Zenon DEF IsHeld
    <3> QED BY <3>1, <3>2, Zenon
  <2> QED BY <2>1, <2>2, Zenon
<1>7. ASSUME NEW m, NEW j \in 1 .. Len(r), r[j] \in MakeCodes, m \in Bits(r[j])
      PROVE  IsHeld(m, held')
  <2>1. ~up /\ m \in shiftcode(k[2])
    BY <1>3, <1>7, Zenon
  <2>2. k \in held'
    BY <1>2, <2>1, Zenon
  <2> QED BY <2>1, <2>2, Zenon DEF IsHeld
<1>8. Waiting \in Seq(Nat)
  BY <1>0, WaitingBytes, Zenon
<1>9. Explained(Waiting \o r, shift, held')
  BY <1>0, <1>3, <1>6, <1>7, <1>8, BytesAdded, Zenon
<1>10. Explained(Waiting', shift', held')
  BY <1>1, <1>5, <1>9, Zenon
<1>11. held' \subseteq Keys
  BY <1>0, <1>2, Zenon
<1> QED BY <1>0, <1>1, <1>5, <1>10, <1>11, Zenon DEF KeyInv, Explained, IsHeld, Comes, Bits, Up, MakeCodes, Unescaped

\* A byte moves into the controller, and its edge is seen once the handler is there.
LEMMA KeySends ==
    ASSUME KeyInv, send
    PROVE  KeyInv'
<1>0. /\ boot \in 1 .. 12 /\ unsent \in Seq(Nat) /\ ps2 \in [data : Nat, full : BOOLEAN]
      /\ kbd_handler <=> boot >= 6
  BY Zenon DEF KeyInv
<1>1. /\ unsent # <<>> /\ ~ps2.full /\ ps2' = [data |-> Head(unsent), full |-> TRUE]
      /\ unsent' = Tail(unsent) /\ kbd_irq' = Enabled
      /\ boot' = boot /\ held' = held /\ kbd_handler' = kbd_handler /\ shift' = shift
  BY Zenon DEF send
<1>2. Head(unsent) \in Nat /\ Tail(unsent) \in Seq(Nat)
  BY <1>0, <1>1
<1>3. ps2' \in [data : Nat, full : BOOLEAN] /\ ps2'.full /\ ps2'.data = Head(unsent)
  BY <1>1, <1>2, Zenon
<1>4. Waiting' = Waiting
  <2>1. Waiting = unsent
    BY <1>0, <1>1, WaitingBytes, Zenon
  <2>2. Waiting' = <<Head(unsent)>> \o Tail(unsent)
    BY <1>1, <1>3, Zenon DEF Waiting
  <2>3. <<Head(unsent)>> \o Tail(unsent) = unsent
    BY <1>0, <1>1
  <2> QED BY <2>1, <2>2, <2>3, Zenon
<1>5. Enabled <=> boot >= 5
  BY <1>0, StageNumbers, Zenon
<1>6. kbd_irq' \in BOOLEAN /\ (kbd_handler' => kbd_irq')
  <2>1. kbd_irq' <=> boot >= 5
    BY <1>1, <1>5, Zenon
  <2>2. kbd_irq' \in BOOLEAN
    BY <1>1, Zenon DEF Enabled
  <2>3. kbd_handler' => boot >= 6
    BY <1>0, <1>1, Zenon
  <2>4. boot >= 6 => boot >= 5
    BY <1>0
  <2> QED BY <2>1, <2>2, <2>3, <2>4, Zenon
<1>7. Explained(Waiting', shift', held')
  BY <1>1, <1>4, Zenon DEF KeyInv
<1> QED BY <1>1, <1>2, <1>3, <1>6, <1>7, Zenon
        DEF KeyInv, Explained, IsHeld, Comes, Bits, Up, MakeCodes, Unescaped

\* The handler reads the byte; without a handler the byte stays.
LEMMA KeyHandled ==
    ASSUME KeyInv, keyboard_irq_handler
    PROVE  KeyInv'
<1>0. /\ boot \in 1 .. 12 /\ unsent \in Seq(Nat) /\ ps2 \in [data : Nat, full : BOOLEAN]
      /\ Explained(Waiting, shift, held) /\ held \subseteq Keys
      /\ kbd_handler <=> boot >= 6
  BY Zenon DEF KeyInv
<1>1. /\ boot' = boot /\ unsent' = unsent /\ held' = held /\ kbd_handler' = kbd_handler
      /\ kbd_irq' = FALSE /\ ps2.full
  BY Zenon DEF keyboard_irq_handler, KeyInv
<1>2. Waiting \in Seq(Nat) /\ Waiting # <<>> /\ Waiting[1] = ps2.data /\ Tail(Waiting) = unsent
  BY <1>0, <1>1, WaitingBytes, Zenon
<1>3. CASE kbd_handler
  <2>1. ps2' = [ps2 EXCEPT !.full = FALSE] /\ decode(ps2.data)
    BY <1>3, Zenon DEF keyboard_irq_handler
  <2>2. ps2' \in [data : Nat, full : BOOLEAN] /\ ~ps2'.full
    BY <1>0, <2>1, Zenon
  <2>3. Waiting' = unsent
    <3>1. Waiting' = <<>> \o unsent
      BY <1>1, <2>2, Zenon DEF Waiting
    <3> QED BY <1>0, <3>1, ConcatEmptySeq, Zenon
  <2> DEFINE w == Waiting
             d == ps2.data
  <2>4. /\ d \in MakeCodes \/ Up(d) \/ d = E0
        /\ E0ESC \in shift => d \notin Unescaped
    <3>1. Len(w) \in Nat \ {0}
      BY <1>2
    <3>2. 1 \in 1 .. Len(w)
      BY <3>1
    <3>3. /\ \A j \in 1 .. Len(w) : w[j] \in MakeCodes \/ Up(w[j]) \/ w[j] = E0
          /\ E0ESC \in shift => w[1] \notin Unescaped
      BY <1>0, Zenon DEF Explained
    <3>4. w[1] \in MakeCodes \/ Up(w[1]) \/ w[1] = E0
      BY <3>2, <3>3, Zenon
    <3> QED BY <1>2, <3>3, <3>4, Zenon
  <2>5. /\ d = E0 => shift' = shift \cup {E0ESC}
        /\ d # E0 => E0ESC \notin shift'
        /\ \A m \in {SHIFT, CTL, ALT} :
              /\ Up(d) /\ m \in shift' => m \in shift /\ m \notin Bits(d)
              /\ d \in MakeCodes /\ m \in shift' => m \in shift \/ m \in Bits(d)
    BY <2>1, <2>4, Decoded, Zenon
  <2> HIDE DEF w, d
  <2>6. Explained(Tail(w), shift', held)
    <3>1. w \in Seq(Nat) /\ w # <<>> /\ Explained(w, shift, held) /\ w[1] = d
      BY <1>0, <1>2, Zenon DEF w, d
    <3> QED BY <2>5, <3>1, FirstByteTaken, Zenon
  <2>7. Explained(Waiting', shift', held')
    BY <1>1, <1>2, <2>3, <2>6, Zenon DEF w
  <2> QED BY <1>0, <1>1, <1>3, <2>2, <2>7, Zenon
          DEF KeyInv, Explained, IsHeld, Comes, Bits, Up, MakeCodes, Unescaped
<1>4. CASE ~kbd_handler
  <2>1. ps2' = ps2 /\ shift' = shift
    BY <1>4, Zenon DEF keyboard_irq_handler
  <2>2. Explained(Waiting', shift', held')
    <3>1. Waiting' = Waiting
      BY <1>1, <2>1, Zenon DEF Waiting
    <3> QED BY <1>0, <1>1, <2>1, <3>1, Zenon
  <2>3. shift = {}
    BY <1>4, Zenon DEF KeyInv
  <2> QED BY <1>0, <1>1, <1>4, <2>1, <2>2, <2>3, Zenon
          DEF KeyInv, Explained, IsHeld, Comes, Bits, Up, MakeCodes, Unescaped
<1> QED BY <1>3, <1>4, Zenon

\* keyboard_init drops a byte that nobody handles, when no modifier is set yet.
LEMMA KeyInits ==
    ASSUME KeyInv, keyboard_init
    PROVE  KeyInv'
<1>0. /\ boot \in 1 .. 12 /\ unsent \in Seq(Nat) /\ ps2 \in [data : Nat, full : BOOLEAN]
      /\ Explained(Waiting, shift, held) /\ held \subseteq Keys
      /\ kbd_handler <=> boot >= 6
      /\ ~kbd_irq /\ kbd_irq \in BOOLEAN
      /\ ~kbd_handler => shift = {}
      /\ kbd_handler /\ ps2.full /\ ~kbd_irq => boot = 6 /\ shift = {}
  BY Zenon DEF KeyInv, keyboard_init
<1>1. CASE At("kbd_first") /\ install /\ GoTo("kbd_second")
  <2>1. boot = 5 /\ boot' = 6
    BY <1>0, <1>1, StageNumbers, GoToNumbers, Zenon
  <2>2. /\ kbd_handler' = TRUE /\ unsent' = unsent /\ held' = held /\ ps2' = ps2
        /\ kbd_irq' = kbd_irq /\ shift' = shift
    BY <1>1, Zenon DEF install
  <2>3. Explained(Waiting', shift', held')
    <3>1. Waiting' = Waiting
      BY <2>2, Zenon DEF Waiting
    <3> QED BY <1>0, <2>2, <3>1, Zenon
  <2>4. shift' = {}
    BY <1>0, <2>1, <2>2
  <2>5. Explained(Waiting, shift, held)'
    BY <2>3, Zenon DEF Explained, IsHeld, Comes, Bits, Up, MakeCodes, Unescaped
  <2>6. kbd_handler' /\ kbd_irq' \in BOOLEAN /\ ~kbd_irq'
    BY <1>0, <2>2, Zenon
  <2> QED BY <1>0, <2>1, <2>2, <2>4, <2>5, <2>6 DEF KeyInv
<1>2. CASE At("kbd_second") /\ keyboard_reset /\ GoTo("rtc_enable")
  <2>1. boot = 6 /\ boot' = 7
    BY <1>0, <1>2, StageNumbers, GoToNumbers, Zenon
  <2>2. /\ kbd_handler' = kbd_handler /\ unsent' = unsent /\ held' = held
        /\ ps2' = [ps2 EXCEPT !.full = FALSE] /\ kbd_irq' = kbd_irq /\ shift' = shift
    BY <1>2, Zenon DEF keyboard_reset
  <2>3. ps2' \in [data : Nat, full : BOOLEAN] /\ ~ps2'.full
    BY <1>0, <2>2, Zenon
  <2>4. Waiting' = unsent
    <3>1. Waiting' = <<>> \o unsent
      BY <2>2, <2>3, Zenon DEF Waiting
    <3> QED BY <1>0, <3>1, ConcatEmptySeq, Zenon
  <2>5. Explained(unsent, shift, held)
    <3>1. CASE ps2.full
      <4>1. shift = {}
        BY <1>0, <2>1, <3>1, Zenon
      <4>2. Waiting \in Seq(Nat) /\ Waiting # <<>> /\ Tail(Waiting) = unsent
        BY <1>0, <3>1, WaitingBytes, Zenon
      <4> DEFINE w == Waiting
      <4> HIDE DEF w
      <4>3. Explained(Tail(w), {}, held)
        <5>1. w \in Seq(Nat) /\ w # <<>> /\ Explained(w, {}, held)
          BY <1>0, <4>1, <4>2, Zenon DEF w
        <5> QED BY <5>1, FirstByteDropped, Zenon
      <4> QED BY <4>1, <4>2, <4>3, Zenon DEF w
    <3>2. CASE ~ps2.full
      BY <1>0, <3>2, WaitingBytes, Zenon
    <3> QED BY <3>1, <3>2, Zenon
  <2>6. Explained(Waiting', shift', held')
    BY <2>2, <2>4, <2>5, Zenon
  <2>7. Explained(Waiting, shift, held)'
    BY <2>6, Zenon DEF Explained, IsHeld, Comes, Bits, Up, MakeCodes, Unescaped
  <2>8. kbd_handler' /\ kbd_irq' \in BOOLEAN /\ ~kbd_irq'
    BY <1>0, <2>1, <2>2
  <2> QED BY <1>0, <2>1, <2>2, <2>3, <2>7, <2>8 DEF KeyInv
<1> QED BY <1>1, <1>2, Zenon DEF keyboard_init

\* A step of the three drivers.
LEMMA KeyStep ==
    ASSUME KeyInv, [Next]_vars
    PROVE  KeyInv'
<1>0. boot \in 1 .. 12
  BY Zenon DEF KeyInv
<1>1. ASSUME UNCHANGED kbd, boot' \in 1 .. 12,
             boot' = boot \/ (boot <= 4 /\ boot' <= 5) \/ (boot >= 7 /\ boot' >= 7)
      PROVE  KeyInv'
  <2>1. /\ kbd_handler' = kbd_handler /\ unsent' = unsent /\ held' = held /\ ps2' = ps2
        /\ kbd_irq' = kbd_irq /\ shift' = shift
    BY <1>1, Zenon DEF kbd
  <2>2. Explained(Waiting', shift', held')
    <3>1. Waiting' = Waiting
      BY <2>1, Zenon DEF Waiting
    <3> QED BY <2>1, <3>1, Zenon DEF KeyInv
  <2>3. Explained(Waiting, shift, held)'
    BY <2>2, Zenon DEF Explained, IsHeld, Comes, Bits, Up, MakeCodes, Unescaped
  <2> QED BY <1>1, <2>1, <2>3 DEF KeyInv
<1>2. CASE KbdStep
  BY <1>2, KeyInits, KeyHandled, KeySends, KeyMoves, Zenon DEF KbdStep, KbdDevice
<1>3. CASE ComStep
  <2>1. UNCHANGED kbd /\ ComBoots /\ boot' \in 1 .. 12
    BY <1>0, <1>3, BootSteps, Zenon DEF ComStep
  <2> QED BY <1>0, <1>1, <2>1 DEF ComBoots
<1>4. CASE RtcStep
  <2>1. UNCHANGED kbd /\ RtcBoots /\ boot' \in 1 .. 12
    BY <1>0, <1>4, BootSteps, Zenon DEF RtcStep
  <2> QED BY <1>0, <1>1, <2>1 DEF RtcBoots
<1>5. CASE UNCHANGED vars
  <2>1. UNCHANGED kbd /\ boot' = boot
    BY <1>5, Zenon DEF vars
  <2> QED BY <1>0, <1>1, <2>1, Zenon
<1> QED BY <1>2, <1>3, <1>4, <1>5, Zenon DEF Next

\* No modifier sticks, whatever bytes came before the handler was installed, for any keys
\* and any number of bytes on their way.
THEOREM ModifiersNeverStick == Spec => []ModifiersAreHeld
<1>1. Init => KeyInv
  <2> SUFFICES ASSUME Init PROVE KeyInv
    BY Zenon
  <2>1. /\ boot = 1 /\ unsent = <<>> /\ held = {} /\ ps2 = [data |-> 0, full |-> FALSE]
        /\ kbd_irq = FALSE /\ kbd_handler = FALSE /\ shift = {}
    BY Zenon DEF Init, BootInit, KbdInit
  <2>2. unsent \in Seq(Nat) /\ Len(unsent) = 0
    BY <2>1
  <2>3. ps2 \in [data : Nat, full : BOOLEAN] /\ ~ps2.full
    BY <2>1, Zenon
  <2>4. Waiting = unsent
    BY <2>2, <2>3, WaitingBytes, Zenon
  <2>5. Explained(unsent, shift, held)
    <3>1. \A j \in 1 .. Len(unsent) : FALSE
      BY <2>2
    <3> QED BY <2>1, <3>1, Zenon DEF Explained
  <2>6. kbd_irq \in BOOLEAN /\ ~kbd_irq /\ ~kbd_handler
    BY <2>1, Zenon
  <2> QED BY <2>1, <2>2, <2>3, <2>4, <2>5, <2>6 DEF KeyInv
<1>2. KeyInv /\ [Next]_vars => KeyInv'
  BY KeyStep, Zenon
<1>3. KeyInv => ModifiersAreHeld
  <2> SUFFICES ASSUME KeyInv, unsent = <<>>, ~ps2.full
               PROVE  /\ \A m \in shift \cap {SHIFT, CTL, ALT} : \E k \in held : m \in shiftcode(k[2])
                      /\ E0ESC \notin shift
    BY Zenon DEF ModifiersAreHeld, AllRead
  <2>1. unsent \in Seq(Nat) /\ ps2 \in [data : Nat, full : BOOLEAN]
        /\ Explained(Waiting, shift, held)
    BY Zenon DEF KeyInv
  <2>2. Waiting = <<>>
    BY <2>1, WaitingBytes, Zenon
  <2>3. Explained(<<>>, shift, held)
    BY <2>1, <2>2, Zenon
  <2>4. \A m : ~Comes(m, <<>>, 1)
    <3>1. ~\E j \in 1 .. Len(<<>>) : TRUE
      OBVIOUS
    <3> QED BY <3>1, Zenon DEF Comes
  <2> QED BY <2>3, <2>4, Zenon DEF Explained, IsHeld
<1> QED BY <1>1, <1>2, <1>3, PTL DEF Spec

=============================================================================
