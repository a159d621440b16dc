-------------------------------- MODULE Rtc --------------------------------
(***************************************************************************)
(* The clock of src/kernel/drivers/rtc.c.  A time has two fields, as in    *)
(* months and days; get_seconds reads them, in whichever order the         *)
(* compiler chose, while the interrupt handler may replace them.           *)
(***************************************************************************)
EXTENDS KernelMain

CONSTANTS
    Field,                  \* values of the low field
    HighWeight, LowWeight,  \* the seconds get_seconds counts for a field
    SecondsSpan,            \* 2^32, the range of its answer
    MaxTime                 \* bound on the time

\* A month counts 2629800 seconds, whatever its days: no relation of the weights to
\* Field is assumed.
ASSUME RtcAssumption ==
    /\ {Field, SecondsSpan} \subseteq Nat \ {0}
    /\ {HighWeight, LowWeight} \subseteq Nat

VARIABLES
    now,           \* the time in the CMOS
    update_ended,  \* bit 4 of CMOS_STATUS_C
    uie,           \* update ended interrupts are enabled in CMOS_STATUS_B
    rtc_irq,       \* is IRQ 8 pending?
    rtc_handler,   \* is rtc_irq_handler installed?
    dt,
    asked_time,    \* the activation of get_seconds
    shown,         \* the time dt was read at; Never before, or if an update tore it
    missed         \* did an update end between rtc_init's look at the flag and the installation?

rtc == <<now, update_ended, uie, rtc_irq, rtc_handler, dt, asked_time, shown, missed>>

Never == -1
High(t) == t \div Field
Low(t) == t % Field
Fields(t) == [high |-> High(t), low |-> Low(t)]
Seconds(d) == (d.high * HighWeight + d.low * LowWeight) % SecondsSpan

\* part is the field read so far; begun and ended are dt.high at the two reads.
Asked == [at : {"none", "low", "high", "result"}, part : Nat, answer : Nat,
          since : Int, begun : Nat, ended : Nat]

RtcInit ==
    /\ now \in 0 .. Field - 1
    /\ update_ended \in BOOLEAN /\ uie = FALSE
    /\ rtc_irq = FALSE /\ rtc_handler = FALSE
    /\ dt = [high |-> 0, low |-> 0]
    /\ asked_time = [at |-> "none", part |-> 0, answer |-> 0,
                     since |-> Never, begun |-> 0, ended |-> 0]
    /\ shown = Never /\ missed = FALSE

update ==
    /\ now < MaxTime
    /\ now' = now + 1
    /\ update_ended' = TRUE
    /\ rtc_irq' = (rtc_irq \/ (Enabled /\ uie /\ ~update_ended))
    /\ shown' = IF At("rtc_high") THEN Never ELSE shown
    /\ missed' = (missed \/ \E s \in {"rtc_low", "rtc_high", "rtc_install"} : At(s))
    /\ UNCHANGED <<boot, uie, rtc_handler, dt, asked_time>>

\* An interrupt that is pending comes before the next instruction.
rtc_init ==
    /\ ~rtc_irq
    /\ \/ /\ At("rtc_enable") /\ GoTo("rtc_flag")
          /\ uie' = TRUE /\ rtc_irq' = update_ended
          /\ UNCHANGED <<update_ended, rtc_handler, dt, shown>>
       \/ /\ At("rtc_flag") /\ GoTo(IF update_ended THEN "rtc_low" ELSE "rtc_install")
          /\ update_ended' = FALSE
          /\ UNCHANGED <<uie, rtc_irq, rtc_handler, dt, shown>>
       \/ /\ At("rtc_low") /\ GoTo("rtc_high")
          /\ dt' = [dt EXCEPT !.low = Low(now)]
          /\ shown' = now
          /\ UNCHANGED <<update_ended, uie, rtc_irq, rtc_handler>>
       \/ /\ At("rtc_high") /\ GoTo("rtc_install")
          /\ dt' = [dt EXCEPT !.high = High(now)]
          /\ UNCHANGED <<update_ended, uie, rtc_irq, rtc_handler, shown>>
       \/ /\ At("rtc_install") /\ GoTo("done")
          /\ rtc_handler' = TRUE
          /\ UNCHANGED <<update_ended, uie, rtc_irq, dt, shown>>
    /\ UNCHANGED <<now, asked_time, missed>>

\* Mutant: status register C is not read.
rtc_irq_handler_keeps_flag ==
    /\ Enabled /\ rtc_irq
    /\ rtc_irq' = FALSE
    /\ IF rtc_handler
       THEN /\ update_ended' = update_ended
            /\ dt' = IF update_ended THEN Fields(now) ELSE dt
            /\ shown' = IF update_ended THEN now ELSE shown
       ELSE UNCHANGED <<update_ended, dt, shown>>
    /\ UNCHANGED <<boot, now, uie, rtc_handler, asked_time, missed>>

\* Mutant: the handler stores only the low field.
rtc_irq_handler_low ==
    /\ Enabled /\ rtc_irq
    /\ rtc_irq' = FALSE
    /\ IF rtc_handler
       THEN /\ update_ended' = FALSE
            /\ dt' = IF update_ended THEN [dt EXCEPT !.low = Low(now)] ELSE dt
            /\ shown' = IF update_ended THEN now ELSE shown
       ELSE UNCHANGED <<update_ended, dt, shown>>
    /\ UNCHANGED <<boot, now, uie, rtc_handler, asked_time, missed>>

\* The handler is over before the next update.
rtc_irq_handler ==
    /\ Enabled /\ rtc_irq
    /\ rtc_irq' = FALSE
    /\ IF rtc_handler
       THEN /\ update_ended' = FALSE
            /\ dt' = IF update_ended THEN Fields(now) ELSE dt
            /\ shown' = IF update_ended THEN now ELSE shown
       ELSE UNCHANGED <<update_ended, dt, shown>>
    /\ UNCHANGED <<boot, now, uie, rtc_handler, asked_time, missed>>

\* The first field is read, either one.
get_seconds ==
    /\ Booted
    /\ asked_time.at \in {"none", "result"}
    /\ \E f \in {"high", "low"} :
          asked_time' = [asked_time EXCEPT !.at = f, !.part = dt[f], !.since = shown,
                                           !.begun = dt.high]
    /\ UNCHANGED <<boot, now, update_ended, uie, rtc_irq, rtc_handler, dt, shown, missed>>

\* Then the other one, and the sum is made.
get_seconds_sum ==
    /\ asked_time.at \in {"high", "low"}
    /\ asked_time' = [asked_time EXCEPT
                         !.at = "result",
                         !.ended = dt.high,
                         !.answer = Seconds([dt EXCEPT ![asked_time.at] = asked_time.part])]
    /\ UNCHANGED <<boot, now, update_ended, uie, rtc_irq, rtc_handler, dt, shown, missed>>

\* An answer of get_seconds counts the fields of times that dt has shown since the
\* call began, whichever field is read first and whatever interrupts come between the
\* reads, and both fields of one time if the high field did not change meanwhile (over
\* a carry it may count the fields of two times).  Nothing is said of a dt that was
\* never read, or that rtc_init read in the middle of an update.
AnswersAreShown ==
    asked_time.at = "result" /\ asked_time.since # Never =>
        \E t, u \in asked_time.since .. now :
            /\ asked_time.answer = Seconds([high |-> High(t), low |-> Low(u)])
            /\ asked_time.begun = asked_time.ended => t = u

\* Every update of the clock reaches dt, unless one ended after rtc_init had read
\* the flag and before the handler was installed.  Then nobody ever clears the flag
\* and the clock stands still.
ClockKeepsTime ==
    \A n \in 1 .. MaxTime :
        (Booted /\ update_ended /\ now = n) ~> (missed \/ dt.high * Field + dt.low >= n)
=============================================================================
