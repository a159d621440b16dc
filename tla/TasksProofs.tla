---------------------------- MODULE TasksProofs ----------------------------
(***************************************************************************)
(* What tasks share, for any number of them.                               *)
(*                                                                         *)
(* Interrupts, system calls and sleep: lines, answers and the lengths of   *)
(* sleep, for any width of the tick counter.                               *)
(*                                                                         *)
(* The spin locks of devfs.c and rootfs.c do their work: in a directory    *)
(* that nobody reads with rootfs_readdir, callers exclude each other, no   *)
(* name is registered twice and lookups answer rightly.                    *)
(***************************************************************************)
EXTENDS Interrupts, Registry, SequenceTheorems, TLAPS


Frame == [no : Irqs \cup {SYSCALL, FPU_TRAP, UNHANDLED},
          at : {"entry", "handler", "yielded", "return"}, eax : Int]
Activation == [eticks : Nat, n : Nat, slept : Nat]

Types ==
    /\ current_task \in Tasks
    /\ frames \in [Tasks -> Seq(Frame)]
    /\ ifr \in [Tasks -> Nat]
    /\ eax \in [Tasks -> Int]
    /\ service \in [master : SUBSET Int, slave : SUBSET Int]
    /\ timer_ticks \in Nat
    /\ asked \in [Tasks -> Int \cup {None}]
    /\ sleeper \in [Tasks -> Activation \cup {None}]

\* What the frame of a task, if it has one, says about the task.
FrameOf(t) ==
    /\ Len(frames[t]) <= 1
    /\ asked[t] # None => frames[t] # <<>> /\ frames[t][1].no = SYSCALL
    /\ frames[t] # <<>> =>
          LET f == frames[t][1]
          IN  /\ f.at # "entry" => ifr[t] = 1
              /\ f.at = "yielded" => f.no = SYSCALL /\ asked[t] = SYS_YIELD
              /\ f.no = SYSCALL =>
                    /\ asked[t] # None
                    /\ f.at \in {"entry", "handler"} => f.eax = asked[t]
                    /\ f.at = "return" => f.eax = Answer(t, asked[t])
              /\ f.no # SYSCALL => f.eax = eax[t]
              /\ t # current_task => f.at \in {"return", "yielded"}

\* The lines in service are those of the interrupt that irq_handler has yet to
\* acknowledge.
Unacknowledged ==
    LET s == frames[current_task]
    IN  IF s # <<>> /\ s[1].no \in Irqs /\ s[1].at = "entry" THEN {s[1].no} ELSE {}
ServiceOf ==
    /\ service.master = {Line(q) : q \in Unacknowledged}
    /\ service.slave = {q \in Unacknowledged : q >= 40}

\* A sleeper that has seen too few ticks started late enough.
SleepOf(t) ==
    sleeper[t] # None =>
        /\ sleeper[t].slept <= sleeper[t].n
        /\ sleeper[t].slept < sleeper[t].n =>
              timer_ticks <= sleeper[t].eticks - sleeper[t].n + sleeper[t].slept

IInv == Types /\ (\A t \in Tasks : FrameOf(t) /\ SleepOf(t)) /\ ServiceOf

\* A frame is pushed on the stack of a task that has none.
LEMMA Pushed ==
    ASSUME Types, NEW t \in Tasks, frames[t] = <<>>, NEW no, NEW a,
           [no |-> no, at |-> "entry", eax |-> a] \in Frame, push(t, no, a)
    PROVE  /\ frames' \in [Tasks -> Seq(Frame)]
           /\ frames'[t] = <<[no |-> no, at |-> "entry", eax |-> a]>>
           /\ \A u \in Tasks \ {t} : frames'[u] = frames[u]
<1> DEFINE f == [no |-> no, at |-> "entry", eax |-> a]
<1>1. frames' = [frames EXCEPT ![t] = Append(<<>>, f)]
  BY Zenon DEF push, Types
<1>2. Append(<<>>, f) = <<f>> /\ <<f>> \in Seq(Frame)
  BY SMT
<1> QED BY <1>1, <1>2, Zenon DEF Types

\* A task has one frame or none.
LEMMA OneFrame ==
    ASSUME Types, NEW t \in Tasks, frames[t] # <<>>, Len(frames[t]) <= 1
    PROVE  /\ frames[t] \in Seq(Frame) /\ Len(frames[t]) = 1
           /\ frames[t][1] \in Frame
<1>1. frames[t] \in Seq(Frame)
  BY Zenon DEF Types
<1>2. Len(frames[t]) \in Nat \ {0}
  BY <1>1, EmptySeq, Zenon
<1>3. \A n \in Nat \ {0} : n <= 1 => n = 1
  OBVIOUS
<1>4. Len(frames[t]) = 1
  BY <1>2, <1>3, Zenon
<1>5. frames[t][1] \in Frame
  BY <1>1, <1>4
<1> QED BY <1>1, <1>4, <1>5, Zenon

\* The frame is replaced.
LEMMA Changed ==
    ASSUME Types, NEW t \in Tasks, frames[t] # <<>>, Len(frames[t]) <= 1, NEW f \in Frame,
           frames' = [frames EXCEPT ![t] = [@ EXCEPT ![1] = f]]
    PROVE  /\ frames' \in [Tasks -> Seq(Frame)]
           /\ frames'[t] # <<>> /\ Len(frames'[t]) = 1 /\ frames'[t][1] = f
           /\ \A u \in Tasks \ {t} : frames'[u] = frames[u]
<1>1. frames[t] \in Seq(Frame) /\ Len(frames[t]) = 1
  BY OneFrame, Zenon
<1>2. /\ [frames[t] EXCEPT ![1] = f] \in Seq(Frame)
      /\ Len([frames[t] EXCEPT ![1] = f]) = 1
      /\ [frames[t] EXCEPT ![1] = f][1] = f
  BY <1>1, ExceptSeq
<1> QED BY <1>2, EmptySeq DEF Types

\* The frame is taken away.
LEMMA Popped ==
    ASSUME Types, NEW t \in Tasks, frames[t] # <<>>, Len(frames[t]) <= 1,
           frames' = [frames EXCEPT ![t] = SubSeq(@, 1, Len(@) - 1)]
    PROVE  /\ frames' \in [Tasks -> Seq(Frame)]
           /\ frames'[t] = <<>>
           /\ \A u \in Tasks \ {t} : frames'[u] = frames[u]
<1>1. frames[t] \in Seq(Frame) /\ Len(frames[t]) = 1
  BY OneFrame, Zenon
<1>2. SubSeq(frames[t], 1, 0) = <<>>
  BY <1>1, SubSeqEmpty
<1>3. <<>> \in Seq(Frame)
  OBVIOUS
<1> QED BY <1>1, <1>2, <1>3 DEF Types

\* The handler of the frame goes on to another place.
LEMMA Went ==
    ASSUME Types, NEW t \in Tasks, frames[t] # <<>>, Len(frames[t]) <= 1,
           NEW at \in {"entry", "handler", "yielded", "return"}, Go(t, at)
    PROVE  /\ frames' \in [Tasks -> Seq(Frame)]
           /\ frames'[t] # <<>> /\ Len(frames'[t]) = 1
           /\ frames'[t][1] = [frames[t][1] EXCEPT !.at = at]
           /\ \A u \in Tasks \ {t} : frames'[u] = frames[u]
<1>1. Len(frames[t]) = 1 /\ frames[t][1] \in Frame
  BY OneFrame, Zenon
<1>2. [frames[t][1] EXCEPT !.at = at] \in Frame
  BY <1>1, Zenon DEF Frame
<1>3. frames' = [frames EXCEPT ![t] = [@ EXCEPT ![1] = [frames[t][1] EXCEPT !.at = at]]]
  BY <1>1, Zenon DEF Go, Types
<1> QED BY <1>2, <1>3, Changed, Zenon

\* The dispatcher stores the answer into the frame.
LEMMA Answered ==
    ASSUME Types, NEW t \in Tasks, frames[t] # <<>>, Len(frames[t]) <= 1, ifr[t] = 1,
           NEW v \in Int, frames' = answer(t, v)
    PROVE  /\ frames' \in [Tasks -> Seq(Frame)]
           /\ frames'[t] # <<>> /\ Len(frames'[t]) = 1
           /\ frames'[t][1] = [frames[t][1] EXCEPT !.eax = v, !.at = "return"]
           /\ \A u \in Tasks \ {t} : frames'[u] = frames[u]
<1> DEFINE f == [frames[t][1] EXCEPT !.eax = v, !.at = "return"]
<1>1. Len(frames[t]) = 1 /\ frames[t][1] \in Frame /\ frames[t] \in Seq(Frame)
  BY OneFrame, Zenon
<1>2. f \in Frame
  BY <1>1, Zenon DEF Frame
<1>3. frames' = [frames EXCEPT ![t] = [@ EXCEPT ![1] = f]]
  BY <1>1, Zenon DEF answer, Types
<1> HIDE DEF f
<1>4. /\ frames' \in [Tasks -> Seq(Frame)]
      /\ frames'[t] # <<>> /\ Len(frames'[t]) = 1
      /\ frames'[t][1] = f
      /\ \A u \in Tasks \ {t} : frames'[u] = frames[u]
  BY <1>2, <1>3, Changed, Zenon
<1> QED BY <1>4, Zenon DEF f

\* A task whose state is not touched, and that is not the one that loses the
\* processor in the middle of a handler.
LEMMA FrameKept ==
    ASSUME NEW u \in Tasks, FrameOf(u), frames'[u] = frames[u], asked'[u] = asked[u],
           ifr'[u] = ifr[u], eax'[u] = eax[u], u = current_task => u = current_task'
    PROVE  FrameOf(u)'
  BY Zenon DEF FrameOf

\* A sleeper at a step that is not a tick.
LEMMA SleepKept ==
    ASSUME NEW u \in Tasks, SleepOf(u), sleeper'[u] = sleeper[u], timer_ticks' = timer_ticks
    PROVE  SleepOf(u)'
  BY Zenon DEF SleepOf

\* An interrupt, exception or call enters the kernel.
LEMMA EnterStep ==
    ASSUME IInv, NEW t \in Tasks, Executes(t), NEW no \in {SYSCALL, FPU_TRAP, UNHANDLED},
           NEW a \in Int, push(t, no, a), no # SYSCALL => a = eax[t],
           asked' = IF no = SYSCALL THEN [asked EXCEPT ![t] = a] ELSE asked,
           UNCHANGED <<current_task, ifr, eax, service, timer_ticks, sleeper>>
    PROVE  IInv'
<1> DEFINE f == [no |-> no, at |-> "entry", eax |-> a]
<1>1. f \in Frame
  BY Zenon DEF Frame
<1>2. /\ frames' \in [Tasks -> Seq(Frame)] /\ frames'[t] = <<f>>
      /\ \A u \in Tasks \ {t} : frames'[u] = frames[u]
  BY <1>1, Pushed, Zenon DEF IInv, Executes
<1>3. Len(<<f>>) = 1 /\ <<f>>[1] = f /\ <<f>> # <<>>
  BY Zenon
<1>4. Types'
  BY <1>2, Zenon DEF IInv, Types
<1>5. asked[t] = None
  BY Zenon DEF IInv, FrameOf, Executes
<1>6. FrameOf(t)'
  <2>1. asked'[t] = IF no = SYSCALL THEN a ELSE None
    BY <1>5, Zenon DEF IInv, Types
  <2>2. a # None
    BY InterruptsAssumption, Zenon
  <2>3. t = current_task'
    BY Zenon DEF Executes
  <2> QED BY <1>2, <1>3, <2>1, <2>2, <2>3 DEF FrameOf
<1>7. \A u \in Tasks : FrameOf(u)'
  BY <1>2, <1>6, FrameKept, Zenon DEF IInv, Types
<1>8. \A u \in Tasks : SleepOf(u)'
  BY SleepKept, Zenon DEF IInv
<1>9. ServiceOf'
  <2>1. Unacknowledged = {}
    BY Zenon DEF Unacknowledged, Executes
  <2>2. Unacknowledged' = {}
    BY <1>2, <1>3 DEF Unacknowledged, Executes, Irqs, TIMER_IRQ, RTC_IRQ, SYSCALL, FPU_TRAP, UNHANDLED
  <2> QED BY <2>1, <2>2, Zenon DEF ServiceOf, IInv
<1> QED BY <1>4, <1>7, <1>8, <1>9, Zenon DEF IInv

\* A controller delivers an interrupt.
LEMMA IrqStep ==
    ASSUME IInv, NEW q \in Irqs, irq(q)
    PROVE  IInv'
<1> DEFINE t == current_task
           f == [no |-> q, at |-> "entry", eax |-> eax[t]]
<1>0. t \in Tasks /\ frames[t] = <<>> /\ push(t, q, eax[t])
      /\ UNCHANGED <<current_task, ifr, eax, timer_ticks, asked, sleeper>>
  BY Zenon DEF irq, Executes, IInv, Types, clock
<1>1. f \in Frame
  BY <1>0, Zenon DEF Frame, IInv, Types
<1>2. /\ frames' \in [Tasks -> Seq(Frame)] /\ frames'[t] = <<f>>
      /\ \A u \in Tasks \ {t} : frames'[u] = frames[u]
  BY <1>0, <1>1, Pushed DEF IInv
<1>3. Len(<<f>>) = 1 /\ <<f>>[1] = f /\ <<f>> # <<>>
  BY Zenon
<1>4. service' = [master |-> service.master \cup {Line(q)},
                  slave |-> service.slave \cup (IF q >= 40 THEN {q} ELSE {})]
  BY Zenon DEF irq
<1>4a. Line(q) \in Int /\ q \in Int
  BY DEF Line, Irqs, TIMER_IRQ, RTC_IRQ
<1>5. Types'
  BY <1>0, <1>2, <1>4, <1>4a, Zenon DEF IInv, Types
<1>6. asked[t] = None
  BY <1>0, Zenon DEF IInv, FrameOf
<1>7. FrameOf(t)'
  <2>1. q # SYSCALL
    BY DEF Irqs, TIMER_IRQ, RTC_IRQ, SYSCALL
  <2> QED BY <1>0, <1>2, <1>3, <1>6, <2>1 DEF FrameOf
<1>8. \A u \in Tasks : FrameOf(u)'
  BY <1>0, <1>2, <1>7, FrameKept, Zenon DEF IInv, Types
<1>9. \A u \in Tasks : SleepOf(u)'
  BY <1>0, SleepKept, Zenon DEF IInv
<1>10. ServiceOf'
  <2>1. Unacknowledged = {}
    BY <1>0, Zenon DEF Unacknowledged
  <2>2. service.master = {} /\ service.slave = {}
    BY <2>1, Zenon DEF ServiceOf, IInv
  <2>3. Unacknowledged' = {q}
    BY <1>0, <1>2, <1>3 DEF Unacknowledged
  <2> QED BY <2>2, <2>3, <1>4, Zenon DEF ServiceOf
<1> QED BY <1>5, <1>8, <1>9, <1>10, Zenon DEF IInv

\* A handler goes on to another place and keeps the processor.
LEMMA HandlerStep ==
    ASSUME IInv, NEW t \in Tasks, NEW no, NEW from, NEW at \in {"handler", "return"},
           In(t, no, from), from \in {"entry", "handler"}, Go(t, at),
           from = "entry" => ifr' = [ifr EXCEPT ![t] = Len(frames[t])],
           from # "entry" => ifr' = ifr,
           no = SYSCALL => at = "handler", from = "entry" => no \notin Irqs,
           UNCHANGED <<current_task, eax, service, timer_ticks, asked, sleeper>>
    PROVE  IInv'
<1>0. /\ t = current_task /\ frames[t] # <<>> /\ Len(frames[t]) = 1
      /\ frames[t][1].no = no /\ frames[t][1].at = from /\ frames[t][1] \in Frame
  BY OneFrame, Zenon DEF In, Top, IInv, FrameOf
<1>0a. Len(frames[t]) <= 1 /\ at \in {"entry", "handler", "yielded", "return"} /\ Types
  BY Zenon DEF IInv, FrameOf
<1>1. /\ frames' \in [Tasks -> Seq(Frame)]
      /\ frames'[t] # <<>> /\ Len(frames'[t]) = 1
      /\ frames'[t][1] = [frames[t][1] EXCEPT !.at = at]
      /\ \A u \in Tasks \ {t} : frames'[u] = frames[u]
  BY <1>0, <1>0a, Went, Zenon
<1>2. ifr' \in [Tasks -> Nat] /\ ifr'[t] = 1 /\ \A u \in Tasks \ {t} : ifr'[u] = ifr[u]
  <2>1. CASE from = "entry"
    <3>1. ifr \in [Tasks -> Nat] /\ ifr' = [ifr EXCEPT ![t] = 1]
      BY <2>1, <1>0, Zenon DEF IInv, Types
    <3>2. ifr \in [Tasks -> Nat] /\ t \in Tasks /\ 1 \in Nat
      BY <3>1
    <3> QED
      BY ONLY <3>1, <3>2
  <2>2. CASE from # "entry"
    BY <2>2, <1>0, Zenon DEF IInv, Types, FrameOf
  <2> QED BY <2>1, <2>2, Zenon
<1>3. Types'
  BY <1>1, <1>2, Zenon DEF IInv, Types
<1>4. FrameOf(t)'
  <2>1. /\ frames'[t][1].no = no /\ frames'[t][1].at = at
        /\ frames'[t][1].eax = frames[t][1].eax
    BY <1>0, <1>1, Zenon DEF Frame
  <2>2. FrameOf(t)
    BY Zenon DEF IInv
  <2> QED BY <1>0, <1>1, <1>2, <2>1, <2>2, Zenon DEF FrameOf
<1>5. \A u \in Tasks : FrameOf(u)'
  BY <1>1, <1>2, <1>4, FrameKept, SMTT(30) DEF IInv
<1>6. \A u \in Tasks : SleepOf(u)'
  BY SleepKept, Zenon DEF IInv
<1>7. ServiceOf'
  <2>1. Unacknowledged = {}
    BY <1>0, Zenon DEF Unacknowledged
  <2>2. Unacknowledged' = {}
    BY <1>0, <1>1, Zenon DEF Unacknowledged, Frame
  <2> QED BY <2>1, <2>2, Zenon DEF ServiceOf, IInv
<1> QED BY <1>3, <1>5, <1>6, <1>7, Zenon DEF IInv

\* The interrupt is acknowledged, on both controllers if it came from the second.
LEMMA AcknowledgeStep ==
    ASSUME IInv, NEW t \in Tasks, NEW q \in Irqs, irq_handler(t, q)
    PROVE  IInv'
<1>0. /\ t = current_task /\ frames[t] # <<>> /\ Len(frames[t]) = 1
      /\ frames[t][1].no = q /\ frames[t][1].at = "entry" /\ frames[t][1] \in Frame
      /\ UNCHANGED <<current_task, eax, timer_ticks, asked, sleeper>>
  BY OneFrame, Zenon DEF irq_handler, In, Top, IInv, FrameOf, clock
<1>0a. Len(frames[t]) <= 1 /\ Types /\ Go(t, "handler")
  BY Zenon DEF IInv, FrameOf, irq_handler
<1>1. /\ frames' \in [Tasks -> Seq(Frame)]
      /\ frames'[t] # <<>> /\ Len(frames'[t]) = 1
      /\ frames'[t][1] = [frames[t][1] EXCEPT !.at = "handler"]
      /\ \A u \in Tasks \ {t} : frames'[u] = frames[u]
  BY <1>0, <1>0a, Went, Zenon
<1>2. ifr' = [ifr EXCEPT ![t] = 1]
  BY <1>0, Zenon DEF irq_handler
<1>3. /\ frames'[t][1].no = q /\ frames'[t][1].at = "handler"
      /\ frames'[t][1].eax = frames[t][1].eax
  BY <1>0, <1>1, Zenon DEF Frame
<1>4. service.master = {Line(q)} /\ service.slave = (IF q >= 40 THEN {q} ELSE {})
  <2>1. Unacknowledged = {q}
    BY <1>0, Zenon DEF Unacknowledged
  <2> QED BY <2>1, Zenon DEF ServiceOf, IInv
<1>5. eoi(service.master) = {} /\ q \in Int
  BY <1>4 DEF eoi, Line, Irqs, TIMER_IRQ, RTC_IRQ
<1>6. q >= 40 => eoi(service.slave) = {}
  BY <1>4, <1>5 DEF eoi
<1>7. service' = [master |-> {}, slave |-> {}]
  BY <1>4, <1>5, <1>6, Zenon DEF irq_handler
<1>8. Types'
  BY <1>0, <1>1, <1>2, <1>7, Zenon DEF IInv, Types
<1>9. FrameOf(t)'
  <2>1. FrameOf(t) /\ q # SYSCALL /\ ifr'[t] = 1
    BY <1>2 DEF IInv, Types, Irqs, TIMER_IRQ, RTC_IRQ, SYSCALL
  <2> QED BY <1>0, <1>1, <1>3, <2>1, Zenon DEF FrameOf
<1>10. \A u \in Tasks : FrameOf(u)'
  BY <1>0, <1>1, <1>2, <1>9, FrameKept, Zenon DEF IInv, Types
<1>11. \A u \in Tasks : SleepOf(u)'
  BY <1>0, SleepKept, Zenon DEF IInv
<1>12. ServiceOf'
  <2>1. Unacknowledged' = {}
    BY <1>0, <1>1, <1>3, Zenon DEF Unacknowledged
  <2> QED BY <2>1, <1>7, Zenon DEF ServiceOf
<1> QED BY <1>8, <1>10, <1>11, <1>12, Zenon DEF IInv

\* The next task is one of the tasks.
LEMMA NextIsTask ==
    ASSUME NEW t \in Tasks
    PROVE  next_task(t) \in Tasks
  BY InterruptsAssumption DEF next_task, Tasks

\* The running task t has put its frame at a place where it may lose the processor,
\* and everything else about the tasks is as it was.
LEMMA SwitchStep ==
    ASSUME IInv, NEW t \in Tasks, t = current_task, current_task' \in Tasks,
           frames' \in [Tasks -> Seq(Frame)], frames'[t] # <<>>, Len(frames'[t]) = 1,
           \A u \in Tasks \ {t} : frames'[u] = frames[u],
           frames'[t][1].at \in {"return", "yielded"}, FrameOf(t)', Unacknowledged = {},
           UNCHANGED <<ifr, eax, service, asked>>,
           timer_ticks' \in Nat, sleeper' \in [Tasks -> Activation \cup {None}],
           \A u \in Tasks : SleepOf(u)'
    PROVE  IInv'
<1>1. Types'
  BY Zenon DEF IInv, Types
<1>2. \A u \in Tasks : FrameOf(u)'
  BY FrameKept, Zenon DEF IInv
<1>3. Unacknowledged' = {}
  <2>1. CASE current_task' = t
    BY <2>1, Zenon DEF Unacknowledged
  <2>2. CASE current_task' # t
    <3>1. frames'[current_task'] = frames[current_task'] /\ FrameOf(current_task')
      BY <2>2, Zenon DEF IInv
    <3>2. frames[current_task'] # <<>> => frames[current_task'][1].at \in {"return", "yielded"}
      BY <2>2, <3>1, Zenon DEF FrameOf
    <3> QED BY <3>1, <3>2, Zenon DEF Unacknowledged
  <2> QED BY <2>1, <2>2, Zenon
<1>4. ServiceOf'
  BY <1>3, Zenon DEF ServiceOf, IInv
<1> QED BY <1>1, <1>2, <1>4, Zenon DEF IInv

\* A tick: every sleeper counts it, and the counter grows by one or wraps to 0.
LEMMA TickStep ==
    ASSUME IInv, NEW t \in Tasks, timer_irq_handler(t)
    PROVE  IInv'
<1>0. /\ t = current_task /\ frames[t] # <<>> /\ Len(frames[t]) = 1
      /\ frames[t][1].no = TIMER_IRQ /\ frames[t][1].at = "handler" /\ frames[t][1] \in Frame
      /\ UNCHANGED <<ifr, eax, service, asked>>
  BY OneFrame, Zenon DEF timer_irq_handler, In, Top, IInv, FrameOf, pic
<1>0a. Len(frames[t]) <= 1 /\ Types /\ Go(t, "return")
  BY Zenon DEF IInv, FrameOf, timer_irq_handler
<1>1. /\ frames' \in [Tasks -> Seq(Frame)]
      /\ frames'[t] # <<>> /\ Len(frames'[t]) = 1
      /\ frames'[t][1] = [frames[t][1] EXCEPT !.at = "return"]
      /\ \A u \in Tasks \ {t} : frames'[u] = frames[u]
  BY <1>0, <1>0a, Went, Zenon
<1>2. /\ frames'[t][1].no = TIMER_IRQ /\ frames'[t][1].at = "return"
      /\ frames'[t][1].eax = frames[t][1].eax
  BY <1>0, <1>1, Zenon DEF Frame
<1>3. current_task' \in Tasks
  BY NextIsTask, Zenon DEF timer_irq_handler, schedule
<1>4. FrameOf(t)'
  <2>1. FrameOf(t) /\ TIMER_IRQ # SYSCALL
    BY DEF IInv, TIMER_IRQ, SYSCALL
  <2> QED BY <1>0, <1>1, <1>2, <2>1, Zenon DEF FrameOf
<1>5. timer_ticks' \in Nat /\ timer_ticks' <= timer_ticks + 1 /\ timer_ticks \in Nat
  <2>1. timer_ticks \in Nat /\ TickMod \in Nat \ {0}
    BY InterruptsAssumption, Zenon DEF IInv, Types
  <2>2. \A a \in Nat, m \in Nat \ {0} : (a + 1) % m \in Nat /\ (a + 1) % m <= a + 1
    OBVIOUS
  <2> QED BY <2>1, <2>2, Zenon DEF timer_irq_handler
<1>6. sleeper' \in [Tasks -> Activation \cup {None}] /\ \A u \in Tasks : SleepOf(u)'
  <2>1. sleeper' = [u \in Tasks |-> IF sleeper[u] = None THEN None
               ELSE [sleeper[u] EXCEPT !.slept = IF @ < sleeper[u].n THEN @ + 1 ELSE @]]
    BY Zenon DEF timer_irq_handler
  <2>2. ASSUME NEW u \in Tasks
        PROVE  sleeper'[u] \in Activation \cup {None} /\ SleepOf(u)'
    <3>1. CASE sleeper[u] = None
      BY <3>1, <2>1, Zenon DEF SleepOf
    <3>2. CASE sleeper[u] # None
      <4> DEFINE s == sleeper[u]
      <4>1. s \in Activation /\ SleepOf(u)
        BY <3>2, Zenon DEF IInv, Types
      <4>2. /\ s.n \in Nat /\ s.slept \in Nat /\ s.eticks \in Nat /\ s.slept <= s.n
            /\ s.slept < s.n => timer_ticks <= s.eticks - s.n + s.slept
        BY <3>2, <4>1, Zenon DEF Activation, SleepOf
      <4>3. sleeper'[u] = [s EXCEPT !.slept = IF s.slept < s.n THEN s.slept + 1 ELSE s.slept]
        BY <3>2, <2>1, Zenon
      <4>4. /\ sleeper'[u] \in Activation
            /\ sleeper'[u].n = s.n /\ sleeper'[u].eticks = s.eticks
            /\ sleeper'[u].slept = IF s.slept < s.n THEN s.slept + 1 ELSE s.slept
        BY <4>1, <4>2, <4>3 DEF Activation
      <4> HIDE DEF s
      <4>5. /\ sleeper'[u].slept <= sleeper'[u].n
            /\ sleeper'[u].slept < sleeper'[u].n =>
                  timer_ticks' <= sleeper'[u].eticks - sleeper'[u].n + sleeper'[u].slept
        BY <4>2, <4>4, <1>5
      <4> QED BY <4>4, <4>5, Zenon DEF SleepOf
    <3> QED BY <3>1, <3>2, Zenon
  <2> QED BY <2>1, <2>2, Zenon
<1>7. Unacknowledged = {}
  BY <1>0, Zenon DEF Unacknowledged
<1> QED BY <1>0, <1>1, <1>2, <1>3, <1>4, <1>5, <1>6, <1>7, SwitchStep, Zenon

\* The dispatcher answers the call it found in the frame, or yields.
LEMMA DispatchStep ==
    ASSUME IInv, NEW t \in Tasks, syscall_dispatcher(t)
    PROVE  IInv'
<1>0. /\ t = current_task /\ frames[t] # <<>> /\ Len(frames[t]) = 1
      /\ frames[t][1].no = SYSCALL /\ frames[t][1].at = "handler" /\ frames[t][1] \in Frame
      /\ UNCHANGED <<ifr, eax, service, timer_ticks, asked, sleeper>>
  BY OneFrame, Zenon DEF syscall_dispatcher, In, Top, IInv, FrameOf, pic
<1>0a. Len(frames[t]) <= 1 /\ Types /\ FrameOf(t)
  BY Zenon DEF IInv, FrameOf
<1>0b. ifr[t] = 1 /\ frames[t][1].eax = asked[t] /\ asked[t] # None /\ asked[t] \in Int
  BY <1>0, <1>0a, Zenon DEF FrameOf, Types
<1>0c. timer_ticks' \in Nat /\ sleeper' \in [Tasks -> Activation \cup {None}]
       /\ \A u \in Tasks : SleepOf(u)'
  BY <1>0, SleepKept, Zenon DEF IInv, Types
<1>7. Unacknowledged = {}
  BY <1>0, Zenon DEF Unacknowledged
<1>1. ASSUME frames' = answer(t, Answer(t, asked[t])), stay
      PROVE  IInv'
  <2>1. Answer(t, asked[t]) \in Int
    BY InterruptsAssumption DEF Answer, Tasks
  <2>2. /\ frames' \in [Tasks -> Seq(Frame)]
        /\ frames'[t] # <<>> /\ Len(frames'[t]) = 1
        /\ frames'[t][1] = [frames[t][1] EXCEPT !.eax = Answer(t, asked[t]), !.at = "return"]
        /\ \A u \in Tasks \ {t} : frames'[u] = frames[u]
    BY <1>0, <1>0a, <1>0b, <1>1, <2>1, Answered, Zenon
  <2>3. /\ frames'[t][1].no = SYSCALL /\ frames'[t][1].at = "return"
        /\ frames'[t][1].eax = Answer(t, asked[t])
    BY <1>0, <2>2, Zenon DEF Frame
  <2>4. current_task' = t
    BY <1>0, <1>1, Zenon DEF stay
  <2>5. FrameOf(t)'
    BY <1>0, <1>0b, <2>2, <2>3, <2>4 DEF FrameOf
  <2> QED BY <1>0, <1>0c, <1>7, <2>2, <2>3, <2>4, <2>5, SwitchStep, Zenon
<1>2. ASSUME asked[t] = SYS_YIELD, Go(t, "yielded"), schedule(t)
      PROVE  IInv'
  <2>1. /\ frames' \in [Tasks -> Seq(Frame)]
        /\ frames'[t] # <<>> /\ Len(frames'[t]) = 1
        /\ frames'[t][1] = [frames[t][1] EXCEPT !.at = "yielded"]
        /\ \A u \in Tasks \ {t} : frames'[u] = frames[u]
    BY <1>0, <1>0a, <1>2, Went, Zenon
  <2>2. frames'[t][1].no = SYSCALL /\ frames'[t][1].at = "yielded"
    BY <1>0, <2>1, Zenon DEF Frame
  <2>3. current_task' \in Tasks
    BY <1>2, NextIsTask, Zenon DEF schedule
  <2>4. FrameOf(t)'
    BY <1>0, <1>0b, <1>2, <2>1, <2>2 DEF FrameOf
  <2> QED BY <1>0, <1>0c, <1>7, <2>1, <2>2, <2>3, <2>4, SwitchStep, Zenon
<1>3. \/ asked[t] = SYS_GETTID /\ frames' = answer(t, t) /\ stay
      \/ asked[t] = SYS_RPL3TEST /\ frames' = answer(t, 0) /\ stay
      \/ asked[t] = SYS_YIELD /\ Go(t, "yielded") /\ schedule(t)
      \/ asked[t] \notin 1 .. 4 /\ frames' = answer(t, -1) /\ stay
  BY <1>0b, Zenon DEF syscall_dispatcher
<1>4. /\ asked[t] = SYS_GETTID => Answer(t, asked[t]) = t
      /\ asked[t] = SYS_RPL3TEST => Answer(t, asked[t]) = 0
      /\ asked[t] \notin 1 .. 4 => Answer(t, asked[t]) = -1
  BY <1>0b DEF Answer, SYS_GETTID, SYS_YIELD, SYS_RPL3TEST
<1> QED BY <1>1, <1>2, <1>3, <1>4, Zenon

\* The task that had yielded gets the processor back and its answer.
LEMMA YieldedStep ==
    ASSUME IInv, NEW t \in Tasks, sys_yield_returns(t)
    PROVE  IInv'
<1>0. /\ t = current_task /\ frames[t] # <<>> /\ Len(frames[t]) = 1
      /\ frames[t][1].no = SYSCALL /\ frames[t][1].at = "yielded" /\ frames[t][1] \in Frame
      /\ UNCHANGED <<current_task, ifr, eax, service, timer_ticks, asked, sleeper>>
      /\ frames' = answer(t, 0)
  BY OneFrame, Zenon DEF sys_yield_returns, In, Top, IInv, FrameOf, pic, clock
<1>1. Len(frames[t]) <= 1 /\ Types /\ FrameOf(t)
  BY Zenon DEF IInv, FrameOf
<1>2. ifr[t] = 1 /\ asked[t] = SYS_YIELD /\ asked[t] # None
  BY <1>0, <1>1, Zenon DEF FrameOf
<1>3. /\ frames' \in [Tasks -> Seq(Frame)]
      /\ frames'[t] # <<>> /\ Len(frames'[t]) = 1
      /\ frames'[t][1] = [frames[t][1] EXCEPT !.eax = 0, !.at = "return"]
      /\ \A u \in Tasks \ {t} : frames'[u] = frames[u]
  <2>1. 0 \in Int
    OBVIOUS
  <2> QED BY <1>0, <1>1, <1>2, <2>1, Answered, Zenon
<1>4. /\ frames'[t][1].no = SYSCALL /\ frames'[t][1].at = "return"
      /\ frames'[t][1].eax = Answer(t, asked[t])
  <2>1. Answer(t, SYS_YIELD) = 0
    BY DEF Answer, SYS_GETTID, SYS_YIELD
  <2> QED BY <1>0, <1>2, <1>3, <2>1, Zenon DEF Frame
<1>5. FrameOf(t)'
  <2>1. Len(frames'[t]) <= 1
    BY <1>3
  <2> QED BY <1>0, <1>2, <1>3, <1>4, <2>1, Zenon DEF FrameOf
<1>6. timer_ticks' \in Nat /\ sleeper' \in [Tasks -> Activation \cup {None}]
      /\ \A u \in Tasks : SleepOf(u)'
  BY <1>0, SleepKept, Zenon DEF IInv, Types
<1>7. Unacknowledged = {}
  BY <1>0, Zenon DEF Unacknowledged
<1> QED BY <1>0, <1>3, <1>4, <1>5, <1>6, <1>7, SwitchStep, Zenon

\* What iret does to the frames and the register of the task.
LEMMA IretEffect ==
    ASSUME IInv, NEW t \in Tasks, iret(t)
    PROVE  /\ frames' \in [Tasks -> Seq(Frame)] /\ frames'[t] = <<>>
           /\ \A u \in Tasks \ {t} : frames'[u] = frames[u]
           /\ asked' = [asked EXCEPT ![t] = None]
           /\ eax' = [eax EXCEPT ![t] = IF asked[t] # None THEN Answer(t, asked[t]) ELSE eax[t]]
           /\ t = current_task /\ Unacknowledged = {}
           /\ UNCHANGED <<current_task, ifr, service, timer_ticks, sleeper>>
<1>0. /\ t = current_task /\ frames[t] # <<>> /\ Len(frames[t]) = 1
      /\ frames[t][1].at = "return" /\ Top(t) = frames[t][1]
      /\ UNCHANGED <<current_task, ifr, service, timer_ticks, sleeper>>
      /\ frames' = [frames EXCEPT ![t] = SubSeq(@, 1, Len(@) - 1)]
      /\ eax' = [eax EXCEPT ![t] = Top(t).eax]
      /\ asked' = IF Top(t).no = SYSCALL THEN [asked EXCEPT ![t] = None] ELSE asked
  BY OneFrame, Zenon DEF iret, Top, IInv, FrameOf, pic, clock
<1>1. Len(frames[t]) <= 1 /\ Types /\ FrameOf(t)
  BY Zenon DEF IInv, FrameOf
<1>2. /\ frames' \in [Tasks -> Seq(Frame)] /\ frames'[t] = <<>>
      /\ \A u \in Tasks \ {t} : frames'[u] = frames[u]
  BY <1>0, <1>1, Popped, Zenon
<1>3. asked' = [asked EXCEPT ![t] = None]
      /\ frames[t][1].eax = IF asked[t] # None THEN Answer(t, asked[t]) ELSE eax[t]
  <2>1. CASE frames[t][1].no = SYSCALL
    BY <2>1, <1>0, <1>1, Zenon DEF FrameOf
  <2>2. CASE frames[t][1].no # SYSCALL
    <3>1. asked[t] = None /\ asked' = asked /\ frames[t][1].eax = eax[t]
      BY <2>2, <1>0, <1>1, Zenon DEF FrameOf
    <3> QED BY <3>1, <1>1, Zenon DEF Types
  <2> QED BY <2>1, <2>2, Zenon
<1>4. Unacknowledged = {}
  BY <1>0, Zenon DEF Unacknowledged
<1> QED BY <1>0, <1>2, <1>3, <1>4, Zenon

\* The end of an interrupt, exception or call.
LEMMA IretStep ==
    ASSUME IInv, NEW t \in Tasks, iret(t)
    PROVE  IInv'
<1>1. /\ frames' \in [Tasks -> Seq(Frame)] /\ frames'[t] = <<>>
      /\ \A u \in Tasks \ {t} : frames'[u] = frames[u]
      /\ asked' = [asked EXCEPT ![t] = None]
      /\ eax' = [eax EXCEPT ![t] = IF asked[t] # None THEN Answer(t, asked[t]) ELSE eax[t]]
      /\ t = current_task /\ Unacknowledged = {}
      /\ UNCHANGED <<current_task, ifr, service, timer_ticks, sleeper>>
  BY IretEffect, Zenon
<1>2. Answer(t, asked[t]) \in Int
  BY InterruptsAssumption DEF Answer, Tasks
<1>3. Types'
  <2>1. eax' \in [Tasks -> Int]
    BY <1>1, <1>2, Zenon DEF IInv, Types
  <2> QED BY <1>1, <2>1, Zenon DEF IInv, Types
<1>4. FrameOf(t)'
  <2>1. asked'[t] = None /\ Len(<<>>) = 0
    BY <1>1, Zenon DEF IInv, Types
  <2> QED BY <1>1, <2>1 DEF FrameOf
<1>5. \A u \in Tasks : FrameOf(u)'
  BY <1>1, <1>4, FrameKept, Zenon DEF IInv, Types
<1>6. \A u \in Tasks : SleepOf(u)'
  BY <1>1, SleepKept, Zenon DEF IInv
<1>7. ServiceOf'
  <2>1. Unacknowledged' = {}
    BY <1>1, Zenon DEF Unacknowledged
  <2> QED BY <1>1, <2>1, Zenon DEF ServiceOf, IInv
<1> QED BY <1>3, <1>5, <1>6, <1>7, Zenon DEF IInv

\* sleep starts, or its loop makes a round.
LEMMA SleepStep ==
    ASSUME IInv, NEW t \in Tasks,
           (\E n \in 0 .. MaxSleep : sleep(t, n)) \/ sleep_polls(t)
    PROVE  IInv'
<1>1. UNCHANGED <<current_task, frames, ifr, eax, service, timer_ticks, asked>>
  BY Zenon DEF sleep, sleep_polls, machine, pic
<1>2. sleeper' \in [Tasks -> Activation \cup {None}] /\ \A u \in Tasks : SleepOf(u)'
  <2>0. timer_ticks \in Nat /\ sleeper \in [Tasks -> Activation \cup {None}]
        /\ \A u \in Tasks : SleepOf(u)
    BY Zenon DEF IInv, Types
  <2>1. ASSUME NEW n \in 0 .. MaxSleep, sleep(t, n)
        PROVE  sleeper' \in [Tasks -> Activation \cup {None}] /\ \A u \in Tasks : SleepOf(u)'
    <3> DEFINE s == [eticks |-> n + timer_ticks, n |-> n, slept |-> 0]
    <3>1. sleeper' = [sleeper EXCEPT ![t] = s]
      BY <2>1, Zenon DEF sleep
    <3>2. s \in Activation /\ s.slept <= s.n /\ timer_ticks <= s.eticks - s.n + s.slept
      BY <2>0, InterruptsAssumption DEF Activation
    <3> HIDE DEF s
    <3>3. sleeper'[t] = s
      BY <2>0, <3>1, Zenon
    <3>4. SleepOf(t)'
      BY <1>1, <3>2, <3>3, Zenon DEF SleepOf
    <3> QED BY <1>1, <2>0, <3>1, <3>2, <3>4, SleepKept, Zenon
  <2>2. ASSUME sleep_polls(t)
        PROVE  sleeper' \in [Tasks -> Activation \cup {None}] /\ \A u \in Tasks : SleepOf(u)'
    <3>1. sleeper' = sleeper \/ sleeper' = [sleeper EXCEPT ![t] = None]
      BY <2>2, Zenon DEF sleep_polls
    <3> QED BY <1>1, <2>0, <3>1, Zenon DEF SleepOf
  <2> QED BY <2>1, <2>2, Zenon
<1>3. Types'
  BY <1>1, <1>2, Zenon DEF IInv, Types
<1>4. \A u \in Tasks : FrameOf(u)'
  BY <1>1, FrameKept, Zenon DEF IInv
<1>5. ServiceOf'
  BY <1>1, Zenon DEF ServiceOf, Unacknowledged, IInv
<1> QED BY <1>2, <1>3, <1>4, <1>5, Zenon DEF IInv

\* Steps that touch nothing the invariant speaks of.
LEMMA IdleStep ==
    ASSUME IInv, UNCHANGED <<current_task, frames, ifr, eax, service, timer_ticks, asked, sleeper>>
    PROVE  IInv'
  BY Zenon DEF IInv, Types, FrameOf, SleepOf, ServiceOf, Unacknowledged

\* The invariant holds in the beginning,
LEMMA IInvInit == Init => IInv
<1> SUFFICES ASSUME Init PROVE IInv
  BY Zenon
<1>1. <<>> \in Seq(Frame) /\ Len(<<>>) = 0
  OBVIOUS
<1>2. NumTasks - 1 \in Tasks
  BY InterruptsAssumption DEF Tasks
<1>3. Types
  BY <1>1, <1>2, InterruptsAssumption DEF Init, Types
<1>4. \A t \in Tasks : FrameOf(t) /\ SleepOf(t)
  BY <1>1 DEF Init, FrameOf, SleepOf
<1>5. ServiceOf
  BY <1>2, Zenon DEF Init, ServiceOf, Unacknowledged
<1> QED BY <1>3, <1>4, <1>5, Zenon DEF IInv

\* is kept by every step,
LEMMA IInvNext == IInv /\ [Next]_vars => IInv'
<1> SUFFICES ASSUME IInv, [Next]_vars PROVE IInv'
  BY Zenon
<1>1. ASSUME NEW q \in Irqs, raise(q) PROVE IInv'
  BY <1>1, IdleStep, Zenon DEF raise, machine, clock
<1>2. ASSUME NEW q \in Irqs, irq(q) PROVE IInv'
  BY <1>2, IrqStep, Zenon
<1>3. ASSUME NEW t \in Tasks, NEW no \in {SYSCALL, FPU_TRAP, UNHANDLED}, isr_handler(t, no)
      PROVE  IInv'
  <2> DEFINE at == IF no = UNHANDLED THEN "return" ELSE "handler"
  <2>1. /\ In(t, no, "entry") /\ Go(t, at) /\ ifr' = [ifr EXCEPT ![t] = Len(frames[t])]
        /\ UNCHANGED <<current_task, eax, service, timer_ticks, asked, sleeper>>
    BY <1>3, Zenon DEF isr_handler, pic, clock
  <2>2. at \in {"handler", "return"} /\ (no = SYSCALL => at = "handler")
    BY DEF SYSCALL, UNHANDLED
  <2>3. no \notin Irqs
    BY DEF Irqs, TIMER_IRQ, RTC_IRQ, SYSCALL, FPU_TRAP, UNHANDLED
  <2> HIDE DEF at
  <2> QED BY <2>1, <2>2, <2>3, HandlerStep, Zenon
<1>4. ASSUME NEW t \in Tasks, NEW q \in Irqs, irq_handler(t, q) PROVE IInv'
  BY <1>4, AcknowledgeStep, Zenon
<1>5. ASSUME NEW t \in Tasks, NEW q \in Irqs, device_handler(t, q) PROVE IInv'
  <2>1. /\ In(t, q, "handler") /\ Go(t, "return") /\ ifr' = ifr /\ q # SYSCALL
        /\ UNCHANGED <<current_task, eax, service, timer_ticks, asked, sleeper>>
    BY <1>5 DEF device_handler, pic, clock, Irqs, TIMER_IRQ, RTC_IRQ, SYSCALL
  <2> QED BY <2>1, HandlerStep, Zenon
<1>6. ASSUME NEW t \in Tasks, fpu_exception_handler(t) PROVE IInv'
  <2>1. /\ In(t, FPU_TRAP, "handler") /\ Go(t, "return") /\ ifr' = ifr /\ FPU_TRAP # SYSCALL
        /\ UNCHANGED <<current_task, eax, service, timer_ticks, asked, sleeper>>
    BY <1>6 DEF fpu_exception_handler, pic, clock, FPU_TRAP, SYSCALL
  <2> QED BY <2>1, HandlerStep, Zenon
<1>7. ASSUME NEW t \in Tasks, Handle(t) PROVE IInv'
  BY <1>3, <1>4, <1>5, <1>6, <1>7, TickStep, DispatchStep, YieldedStep, IretStep, Zenon DEF Handle
<1>8. ASSUME NEW t \in Tasks, Own(t) PROVE IInv'
  <2>1. ASSUME compute(t) PROVE IInv'
    BY <2>1, IdleStep, Zenon DEF compute, machine, pic
  <2> QED BY <1>8, <2>1, SleepStep, Zenon DEF Own
<1>9. ASSUME NEW t \in Tasks, NEW n \in {0, SYS_GETTID, SYS_YIELD, SYS_RPL3TEST, 5}, syscall(t, n)
      PROVE  IInv'
  <2>1. n \in Int
    BY DEF SYS_GETTID, SYS_YIELD, SYS_RPL3TEST
  <2>2. /\ Executes(t) /\ push(t, SYSCALL, n) /\ asked' = [asked EXCEPT ![t] = n]
        /\ UNCHANGED <<current_task, ifr, eax, service, timer_ticks, sleeper>>
    BY <1>9, Zenon DEF syscall, pic
  <2> QED BY <2>1, <2>2, EnterStep, Zenon
<1>10. ASSUME NEW t \in Tasks, NEW no \in {FPU_TRAP, UNHANDLED}, Executes(t), push(t, no, eax[t]),
              UNCHANGED <<current_task, ifr, eax, service, timer_ticks, asked, sleeper>>
       PROVE  IInv'
  <2>1. eax[t] \in Int /\ no # SYSCALL
    BY DEF IInv, Types, FPU_TRAP, UNHANDLED, SYSCALL
  <2> QED BY <1>10, <2>1, EnterStep, Zenon
<1>11. ASSUME NEW t \in Tasks, exception(t) PROVE IInv'
  BY <1>10, <1>11, Zenon DEF exception, pic
<1>12. ASSUME NEW t \in Tasks, fpu_instruction(t) PROVE IInv'
  <2>1. CASE ts
    BY <1>10, <1>12, <2>1, Zenon DEF fpu_instruction, pic
  <2>2. CASE ~ts
    BY <1>12, <2>2, IdleStep, Zenon DEF fpu_instruction, pic
  <2> QED BY <2>1, <2>2, Zenon
<1>13. ASSUME NEW t \in Tasks, \E n \in 0 .. MaxSleep : sleep(t, n) PROVE IInv'
  BY <1>13, SleepStep, Zenon
<1>14. CASE UNCHANGED vars
  BY <1>14, IdleStep, Zenon DEF vars, machine, pic, clock
<1> QED BY <1>1, <1>2, <1>7, <1>8, <1>9, <1>11, <1>12, <1>13, <1>14, Zenon DEF Next

\* and so always holds.
LEMMA IInvAlways == Spec => []IInv
<1> QED BY IInvInit, IInvNext, PTL DEF Spec

\* While a task runs its own code no interrupt line is blocked (isr.c:27), for any
\* number of tasks that lose and regain the processor in the middle of handlers.
THEOREM LinesAreFree == Spec => []NothingInService
<1>1. IInv => NothingInService
  <2> SUFFICES ASSUME IInv, NEW t \in Tasks, Executes(t)
               PROVE  service.master = {} /\ service.slave = {}
    BY Zenon DEF NothingInService
  <2>1. Unacknowledged = {}
    BY Zenon DEF Unacknowledged, Executes
  <2> QED BY <2>1, Zenon DEF IInv, ServiceOf
<1> QED BY <1>1, IInvAlways, PTL

\* Only iret changes the register or ends a call.
LEMMA OnlyIret ==
    ASSUME IInv, [Next]_vars, ~ \E t \in Tasks : iret(t), NEW u \in Tasks
    PROVE  eax'[u] = eax[u] /\ (asked[u] # None => asked'[u] # None)
<1>1. eax' = eax
  BY Zenon DEF Next, vars, machine, Handle, Own, raise, irq, isr_handler, irq_handler, device_handler,
         timer_irq_handler, syscall_dispatcher, sys_yield_returns, fpu_exception_handler, compute,
         sleep_polls, syscall, exception, fpu_instruction, sleep
<1>2. \/ asked' = asked
      \/ \E t \in Tasks, n \in {0, SYS_GETTID, SYS_YIELD, SYS_RPL3TEST, 5} : syscall(t, n)
  BY Zenon DEF Next, vars, Handle, Own, raise, irq, isr_handler, irq_handler, device_handler,
         timer_irq_handler, syscall_dispatcher, sys_yield_returns, fpu_exception_handler, compute,
         sleep_polls, exception, fpu_instruction, sleep
<1>3. ASSUME NEW t \in Tasks, NEW n \in {0, SYS_GETTID, SYS_YIELD, SYS_RPL3TEST, 5}, syscall(t, n)
      PROVE  asked[u] # None => asked'[u] # None
  <2>1. n # None
    BY InterruptsAssumption DEF SYS_GETTID, SYS_YIELD, SYS_RPL3TEST
  <2>2. asked' = [asked EXCEPT ![t] = n]
    BY <1>3, Zenon DEF syscall
  <2> QED BY <2>1, <2>2, Zenon DEF IInv, Types
<1> QED BY <1>1, <1>2, <1>3, SMTT(30)

\* Each system call returns its own answer to its own caller, and no interrupt
\* changes the register of the task it interrupts (syscall.c:5, interrupt.asm:82).
THEOREM AnswersAreOwn == Spec => OwnAnswers
<1> DEFINE A == \A t \in Tasks : eax'[t] = IF asked[t] # None /\ asked'[t] = None
                                          THEN Answer(t, asked[t]) ELSE eax[t]
<1>1. IInv /\ [Next]_vars => [A]_vars
  <2> SUFFICES ASSUME IInv, [Next]_vars PROVE A
    BY Zenon
  <2>1. CASE \E t \in Tasks : iret(t)
    <3>1. PICK t \in Tasks : iret(t)
      BY <2>1, Zenon
    <3>2. /\ asked' = [asked EXCEPT ![t] = None]
          /\ eax' = [eax EXCEPT ![t] = IF asked[t] # None THEN Answer(t, asked[t]) ELSE eax[t]]
      BY <3>1, IretEffect, Zenon
    <3> QED BY <3>2, Zenon DEF IInv, Types
  <2>2. CASE ~ \E t \in Tasks : iret(t)
    BY <2>2, OnlyIret, Zenon
  <2> QED BY <2>1, <2>2, Zenon
<1> QED BY <1>1, IInvAlways, PTL DEF Spec, OwnAnswers

\* sleep sees at least as many ticks as it was asked for (timer.c:15), for every
\* width of the counter and although the counter wraps.
THEOREM SleepsAreLongEnough == Spec => SleepsLongEnough
<1> DEFINE A == \A t \in Tasks : sleeper[t] # None /\ sleeper'[t] = None =>
                                    sleeper[t].slept = sleeper[t].n
<1>1. IInv /\ [Next]_vars => [A]_vars
  <2> SUFFICES ASSUME IInv, [Next]_vars, NEW t \in Tasks, sleeper[t] # None, sleeper'[t] = None
               PROVE  sleeper[t].slept = sleeper[t].n
    BY Zenon
  <2>1. sleeper[t] \in Activation /\ SleepOf(t) /\ timer_ticks \in Nat
    BY Zenon DEF IInv, Types
  <2>2. ASSUME NEW u \in Tasks, sleep_polls(u)
        PROVE  sleeper[t].slept = sleeper[t].n
    <3>1. u = t /\ ~ (sleeper[t].eticks > timer_ticks)
      BY <2>2, Zenon DEF sleep_polls, still_sleeping, IInv, Types
    <3> QED BY <2>1, <3>1 DEF Activation, SleepOf
  <2>3. ASSUME NEW u \in Tasks, timer_irq_handler(u) PROVE FALSE
    <3>1. sleeper'[t] = [sleeper[t] EXCEPT !.slept = IF @ < sleeper[t].n THEN @ + 1 ELSE @]
      BY <2>3, Zenon DEF timer_irq_handler
    <3>2. sleeper'[t] \in Activation
      BY <2>1, <3>1 DEF Activation
    <3> QED BY <3>2, InterruptsAssumption, Zenon DEF Activation
  <2>4. ASSUME NEW u \in Tasks, NEW n \in 0 .. MaxSleep, sleep(u, n) PROVE FALSE
    <3>1. sleeper' = [sleeper EXCEPT ![u] = [eticks |-> n + timer_ticks, n |-> n, slept |-> 0]]
          /\ sleeper[u] = None
      BY <2>4, Zenon DEF sleep
    <3> QED BY <3>1, Zenon DEF IInv, Types
  <2>5. \/ sleeper' = sleeper
        \/ \E u \in Tasks : sleep_polls(u) \/ timer_irq_handler(u) \/ \E n \in 0 .. MaxSleep : sleep(u, n)
    BY ZenonT(60) DEF Next, vars, Handle, Own, raise, irq, isr_handler, irq_handler, device_handler,
           syscall_dispatcher, sys_yield_returns, fpu_exception_handler, compute, iret,
           syscall, exception, fpu_instruction
  <2> QED BY <2>2, <2>3, <2>4, <2>5, Zenon
<1> QED BY <1>1, IInvAlways, PTL DEF Spec, SleepsLongEnough

-----------------------------------------------------------------------------
(* What a task knows about the directory it has locked: foreach is in the  *)
(* list and the nodes it has passed do not have the name; a name about to  *)
(* be inserted is not there, and the list behind its node is current; a    *)
(* finished lookup has the right answer.                                   *)
Knows(c, ns) ==
    /\ c.pc = "scan" =>
          /\ Len(c.rest) =< Len(ns)
          /\ \A k \in 1 .. Len(c.rest) : c.rest[k] = ns[Len(ns) - Len(c.rest) + k]
    /\ c.pc = "scan" /\ c.kind # "readdir" =>
          \A k \in 1 .. (Len(ns) - Len(c.rest)) : ns[k] # c.name
    /\ c.pc \in {"insert", "publish"} => \A k \in 1 .. Len(ns) : ns[k] # c.name
    /\ c.pc = "publish" => c.rest = ns
    /\ c.pc = "unlock" /\ c.kind = "finddir" =>
          c.ret = IF \E k \in 1 .. Len(ns) : ns[k] = c.name THEN c.name ELSE NotFound

(* A call is consistent in itself.                                         *)
Consistent(c) ==
    /\ c.pc = "entry" => c.dir = Root /\ ReadsRoot # {} /\ c.kind = "readdir"
    /\ c.pc \notin {"idle", "entry"} /\ c.kind # "readdir" => c.name \in Names
    /\ c.pc \in {"lock", "begin", "scan"} => c.ret = NotFound
    /\ c.pc \in {"insert", "publish", "count"} => c.kind = "register"

DirsInv ==
    /\ TypeOK
    /\ LockExcludes
    /\ UniqueNames
    /\ \A t \in Callers : Consistent(op[t])
    /\ \A t \in Callers : op[t].dir \in Guarded => Knows(op[t], nodes[op[t].dir])

Locked == {"begin", "scan", "insert", "publish", "count", "unlock"}

(* Steps that leave the locks and the lists alone and keep a call on the   *)
(* same side of the lock.                                                  *)
LEMMA LocalStep ==
    ASSUME DirsInv, NEW t \in Callers, NEW c \in Call,
           op' = [op EXCEPT ![t] = c], UNCHANGED <<lock, nodes>>, root_files' \in Nat,
           c.dir \in Guarded \/ op[t].dir \in Guarded =>
              /\ c.pc \in Locked <=> op[t].pc \in Locked
              /\ c.pc \in Locked => c.dir = op[t].dir,
           Consistent(c), c.dir \in Guarded => Knows(c, nodes[c.dir])
    PROVE  DirsInv'
<1>0. /\ op \in [Callers -> Call] /\ lock' = lock /\ nodes' = nodes /\ op'[t] = c
      /\ \A u \in Callers : u # t => op'[u] = op[u]
      /\ op' \in [Callers -> Call]
  BY Zenon DEF DirsInv, TypeOK
<1>1. TypeOK'
  BY <1>0, Zenon DEF DirsInv, TypeOK
<1>2. \A d \in Guarded, u \in Callers : Holds(u, d)' <=> Holds(u, d)
  BY <1>0, Zenon DEF Holds, Locked
<1>3. LockExcludes'
  BY <1>0, <1>2, SMTT(30) DEF DirsInv, LockExcludes
<1>4. UniqueNames'
  BY <1>0, Zenon DEF DirsInv, UniqueNames
<1>5. \A u \in Callers : Consistent(op'[u])
  BY <1>0, Zenon DEF DirsInv
<1>6. \A u \in Callers : op'[u].dir \in Guarded => Knows(op'[u], nodes'[op'[u].dir])
  BY <1>0, Zenon DEF DirsInv
<1> QED BY <1>1, <1>3, <1>4, <1>5, <1>6, Zenon DEF DirsInv, Consistent, Knows

(* foreach goes on past a node that does not match.                        *)
LEMMA KnowsNext ==
    ASSUME NEW ns \in Seq(Names), NEW c, NEW e, c.rest \in Seq(Names), c.rest # <<>>,
           c.pc = "scan", e.pc = "scan", e.kind = c.kind, e.name = c.name,
           e.rest = Tail(c.rest), Knows(c, ns),
           c.kind # "readdir" => c.name # Head(c.rest)
    PROVE  Knows(e, ns)
<1>1. PICK n, r : n = Len(ns) /\ r = Len(c.rest)
  BY Zenon
<1>2. /\ n \in Nat /\ r \in Nat /\ r >= 1 /\ Len(e.rest) = r - 1
      /\ \A k \in 1 .. (r - 1) : e.rest[k] = c.rest[k + 1]
      /\ Head(c.rest) = c.rest[1]
  BY <1>1
<1>3. /\ r =< n
      /\ \A k \in 1 .. r : c.rest[k] = ns[n - r + k]
      /\ c.kind # "readdir" => \A k \in 1 .. (n - r) : ns[k] # c.name
  BY <1>1, Zenon DEF Knows
<1>4. \A k \in 1 .. (r - 1) : e.rest[k] = ns[n - (r - 1) + k]
  <2> TAKE k \in 1 .. (r - 1)
  <2>1. k + 1 \in 1 .. r /\ n - r + (k + 1) = n - (r - 1) + k
    BY <1>2, SMTT(30)
  <2> QED BY <2>1, <1>2, <1>3, Zenon
<1>5. ASSUME c.kind # "readdir", NEW k \in 1 .. (n - (r - 1)) PROVE ns[k] # c.name
  <2>1. CASE k \in 1 .. (n - r)
    BY <2>1, <1>5, <1>3, Zenon
  <2>2. CASE k = n - r + 1
    <3>1. 1 \in 1 .. r
      BY <1>2
    <3>2. c.rest[1] = ns[n - r + 1]
      BY <3>1, <1>3, Zenon
    <3> QED BY <3>2, <2>2, <1>2, <1>5, Zenon
  <2> QED BY <2>1, <2>2, <1>2, <1>3
<1>6. Len(e.rest) =< Len(ns)
  BY <1>1, <1>2, <1>3
<1> QED BY <1>1, <1>2, <1>4, <1>5, <1>6, Zenon DEF Knows

(* The node foreach is at is in the list.                                  *)
LEMMA HereIsRegistered ==
    ASSUME NEW ns \in Seq(Names), NEW c, c.rest \in Seq(Names), c.rest # <<>>,
           c.pc = "scan", Knows(c, ns)
    PROVE  \E k \in 1 .. Len(ns) : ns[k] = Head(c.rest)
<1>1. PICK n, r : n = Len(ns) /\ r = Len(c.rest)
  BY Zenon
<1>2. n \in Nat /\ r \in Nat /\ r >= 1 /\ Head(c.rest) = c.rest[1]
  BY <1>1
<1>3. r =< n /\ \A k \in 1 .. r : c.rest[k] = ns[n - r + k]
  BY <1>1, Zenon DEF Knows
<1>4. 1 \in 1 .. r /\ n - r + 1 \in 1 .. n
  BY <1>2, <1>3
<1> QED BY <1>1, <1>2, <1>3, <1>4, Zenon

(* At the end of the list every node has been passed.                      *)
LEMMA NotRegistered ==
    ASSUME NEW ns \in Seq(Names), NEW c, c.rest = <<>>, c.kind # "readdir",
           c.pc = "scan", Knows(c, ns)
    PROVE  \A k \in 1 .. Len(ns) : ns[k] # c.name
<1>1. PICK n : n = Len(ns)
  BY Zenon
<1>2. n \in Nat /\ Len(c.rest) = 0 /\ n - 0 = n
  BY <1>1
<1>3. \A k \in 1 .. (n - 0) : ns[k] # c.name
  BY <1>1, <1>2, Zenon DEF Knows
<1> QED BY <1>1, <1>2, <1>3, Zenon

(* A task that is not in a call.                                           *)
LEMMA IdleIsCall == Idle \in Call /\ Idle.ret = NotFound /\ Idle.dir = Root /\ Idle.pc = "idle"
<1>1. <<>> \in Seq(Names)
  OBVIOUS
<1>2. 0 \in Nat
  BY Zenon
<1> QED BY <1>1, <1>2, Zenon DEF Idle, Call, Lines, Kinds, Dirs

(* A call starts: it waits for the lock and knows nothing yet.             *)
LEMMA NamedCallInv ==
    ASSUME DirsInv, NEW t \in Callers, NEW d \in Dirs, NEW name \in Names,
           call_register(t, d, name) \/ call_finddir(t, d, name)
    PROVE  DirsInv'
<1>0. op \in [Callers -> Call] /\ op[t] \in Call /\ root_files \in Nat
  BY Zenon DEF DirsInv, TypeOK
<1>1. CASE call_register(t, d, name)
  <2>1. PICK c : c = [Idle EXCEPT !.pc = "lock", !.kind = "register", !.dir = d, !.name = name]
    BY Zenon
  <2>2. /\ c \in Call /\ c.pc = "lock" /\ c.ret = NotFound /\ c.name = name
    BY <2>1, IdleIsCall, ZenonT(60) DEF Call, Lines, Kinds, Dirs
  <2>3. /\ op' = [op EXCEPT ![t] = c] /\ op[t].pc = "idle"
        /\ UNCHANGED <<lock, nodes, root_files>>
    BY <1>1, <2>1, Zenon DEF call_register
  <2>4. Consistent(c) /\ Knows(c, nodes[c.dir])
    BY <2>2, Zenon DEF Consistent, Knows
  <2> QED BY <1>0, <2>2, <2>3, <2>4, LocalStep, Zenon DEF Locked
<1>2. CASE call_finddir(t, d, name)
  <2>1. PICK c : c = [Idle EXCEPT !.pc = "lock", !.dir = d, !.name = name]
    BY Zenon
  <2>2. /\ c \in Call /\ c.pc = "lock" /\ c.ret = NotFound /\ c.name = name
    BY <2>1, IdleIsCall, Zenon DEF Call, Lines, Kinds, Dirs
  <2>3. /\ op' = [op EXCEPT ![t] = c] /\ op[t].pc = "idle"
        /\ UNCHANGED <<lock, nodes, root_files>>
    BY <1>2, <2>1, Zenon DEF call_finddir
  <2>4. Consistent(c) /\ Knows(c, nodes[c.dir])
    BY <2>2, Zenon DEF Consistent, Knows
  <2> QED BY <1>0, <2>2, <2>3, <2>4, LocalStep, Zenon DEF Locked
<1> QED BY <1>1, <1>2, Zenon

(* So does a call that reads a directory.                                  *)
LEMMA IndexCallInv ==
    ASSUME DirsInv, NEW t \in Callers, NEW index \in Nat,
           call_devfs_readdir(t, index) \/ rootfs_readdir(t, index)
    PROVE  DirsInv'
<1>0. op \in [Callers -> Call] /\ op[t] \in Call /\ root_files \in Nat
  BY Zenon DEF DirsInv, TypeOK
<1>1. CASE call_devfs_readdir(t, index)
  <2>1. PICK c : c = [Idle EXCEPT !.pc = "lock", !.kind = "readdir", !.dir = Dev, !.index = index]
    BY Zenon
  <2>2. /\ c \in Call /\ c.pc = "lock" /\ c.ret = NotFound /\ c.kind = "readdir"
    BY <2>1, IdleIsCall, ZenonT(60) DEF Call, Lines, Kinds, Dirs
  <2>3. /\ op' = [op EXCEPT ![t] = c] /\ op[t].pc = "idle"
        /\ UNCHANGED <<lock, nodes, root_files>>
    BY <1>1, <2>1, Zenon DEF call_devfs_readdir
  <2>4. Consistent(c) /\ Knows(c, nodes[c.dir])
    BY <2>2, Zenon DEF Consistent, Knows
  <2> QED BY <1>0, <2>2, <2>3, <2>4, LocalStep, Zenon DEF Locked
<1>2. CASE rootfs_readdir(t, index)
  <2>1. PICK c : c = [Idle EXCEPT !.pc = "entry", !.kind = "readdir", !.index = index]
    BY Zenon
  <2>2. /\ c \in Call /\ c.pc = "entry" /\ c.kind = "readdir" /\ c.dir = Root
    BY <2>1, IdleIsCall, Zenon DEF Call, Lines, Kinds, Dirs
  <2>3. /\ op' = [op EXCEPT ![t] = c] /\ op[t].pc = "idle" /\ ReadsRoot # {}
        /\ UNCHANGED <<lock, nodes, root_files>>
    BY <1>2, <2>1, Zenon DEF rootfs_readdir
  <2>4. Consistent(c) /\ Knows(c, nodes[c.dir])
    BY <2>2, <2>3, Zenon DEF Consistent, Knows
  <2> QED BY <1>0, <2>2, <2>3, <2>4, LocalStep, Zenon DEF Locked
<1> QED BY <1>1, <1>2, Zenon

(* A step inside the lock that only reads the list.                        *)
LEMMA ReadInv ==
    ASSUME DirsInv, NEW t \in Callers,
           \/ rootfs_entry(t) \/ foreach_begin(t) \/ foreach_next(t)
           \/ foreach_found(t) \/ foreach_end(t) \/ link_front(t) \/ count_file(t)
    PROVE  DirsInv'
<1>0. /\ op \in [Callers -> Call] /\ op[t] \in Call /\ Consistent(op[t])
      /\ nodes \in [Dirs -> Seq(Names)] /\ op[t].dir \in Dirs /\ root_files \in Nat
      /\ op[t].dir \in Guarded => Knows(op[t], nodes[op[t].dir])
  BY Zenon DEF DirsInv, TypeOK, Call
<1> DEFINE c == op[t]
           ns == nodes[op[t].dir]
<1>a. ns \in Seq(Names)
  BY <1>0, Zenon
<1>1. CASE rootfs_entry(t)
  <2>1. PICK e : e = [c EXCEPT !.pc = "unlock",
                               !.ret = IF c.index < Len(nodes[Root])
                                       THEN nodes[Root][c.index + 1] ELSE NotFound]
    BY Zenon
  <2>a. ASSUME c.index < Len(nodes[Root]) PROVE nodes[Root][c.index + 1] \in Names
    <3>1. nodes[Root] \in Seq(Names) /\ c.index \in Nat
      BY <1>0, Zenon DEF Call, Dirs
    <3> QED BY <2>a, <3>1
  <2>b. e.ret \in Names \cup {NotFound}
    BY <1>0, <2>1, <2>a, Zenon DEF Call
  <2>2. e \in Call /\ e.pc = "unlock" /\ e.kind = c.kind /\ e.dir = c.dir /\ e.name = c.name
    BY <1>0, <2>1, <2>b, Zenon DEF Call, Lines
  <2>3. /\ op' = [op EXCEPT ![t] = e] /\ c.pc = "entry"
        /\ UNCHANGED <<lock, nodes, root_files>>
    BY <1>1, <1>0, <2>1, ZenonT(60) DEF rootfs_entry, Call
  <2>4. c.dir = Root /\ Root \notin Guarded /\ c.kind = "readdir"
    BY <1>0, <2>3, Zenon DEF Consistent, Guarded, Root, Dev
  <2>5. Consistent(e)
    BY <2>2, <2>4, Zenon DEF Consistent
  <2> QED BY <1>0, <2>2, <2>3, <2>4, <2>5, LocalStep, Zenon
<1>2. CASE foreach_begin(t)
  <2>1. PICK e : e = [c EXCEPT !.pc = "scan", !.rest = ns]
    BY Zenon
  <2>2. /\ e \in Call /\ e.pc = "scan" /\ e.kind = c.kind /\ e.dir = c.dir /\ e.name = c.name
        /\ e.rest = ns /\ e.ret = c.ret
    BY <1>0, <1>a, <2>1, Zenon DEF Call, Lines
  <2>3. /\ op' = [op EXCEPT ![t] = e] /\ c.pc = "begin"
        /\ UNCHANGED <<lock, nodes, root_files>>
    BY <1>2, <1>0, <2>1, ZenonT(60) DEF foreach_begin, Call
  <2>4. Consistent(e)
    BY <2>2, <2>3, <1>0, Zenon DEF Consistent
  <2>5. Knows(e, ns)
    BY <2>2, <1>a, SMTT(30) DEF Knows
  <2> QED BY <1>0, <2>2, <2>3, <2>4, <2>5, LocalStep, Zenon DEF Locked
<1>3. CASE foreach_next(t)
  <2>1. PICK e : e = [c EXCEPT !.seen = @ + 1, !.rest = Tail(@)]
    BY Zenon
  <2>2. /\ op' = [op EXCEPT ![t] = e] /\ c.pc = "scan" /\ c.rest # <<>>
        /\ UNCHANGED <<lock, nodes, root_files>>
        /\ c.kind # "readdir" => c.name # Head(c.rest)
    BY <1>3, <1>0, <2>1, Zenon DEF foreach_next, Call, Matches, Here
  <2>3. /\ e.pc = "scan" /\ e.kind = c.kind /\ e.dir = c.dir /\ e.name = c.name
        /\ e.rest = Tail(c.rest) /\ e.ret = c.ret /\ c.rest \in Seq(Names)
    BY <1>0, <2>1, <2>2, Zenon DEF Call
  <2>a. Tail(c.rest) \in Seq(Names) /\ c.seen + 1 \in Nat
    <3>1. PICK s : s = c.rest
      BY Zenon
    <3>2. s \in Seq(Names) /\ s # <<>>
      BY <3>1, <2>2, <2>3, Zenon
    <3>3. Tail(s) \in Seq(Names)
      BY ONLY <3>2, SMTT(30)
    <3>4. c.seen \in Nat
      BY <1>0, Zenon DEF Call
    <3>5. c.seen + 1 \in Nat
      BY ONLY <3>4
    <3> QED
      BY <3>1, <3>3, <3>5, Zenon
  <2>4. e \in Call
    BY <1>0, <2>1, <2>a, ZenonT(60) DEF Call
  <2>5. Consistent(e)
    BY <2>2, <2>3, <1>0, Zenon DEF Consistent
  <2>6. ASSUME c.dir \in Guarded PROVE Knows(e, ns)
    BY <2>6, <1>0, <1>a, <2>2, <2>3, KnowsNext, ZenonT(60)
  <2> QED BY <1>0, <2>2, <2>3, <2>4, <2>5, <2>6, LocalStep, Zenon DEF Locked
<1>4. CASE foreach_found(t)
  <2>1. PICK e : e = [c EXCEPT !.pc = "unlock",
                               !.ret = IF c.kind = "readdir" THEN NotFound ELSE Head(c.rest)]
    BY Zenon
  <2>2. /\ op' = [op EXCEPT ![t] = e] /\ c.pc = "scan" /\ c.rest # <<>>
        /\ UNCHANGED <<lock, nodes, root_files>>
        /\ c.kind # "readdir" => c.name = Head(c.rest)
    BY <1>4, <1>0, <2>1, Zenon DEF foreach_found, Call, Matches, Here
  <2>3. /\ e.pc = "unlock" /\ e.kind = c.kind /\ e.dir = c.dir /\ e.name = c.name
        /\ c.kind # "readdir" => e.ret = c.name
        /\ c.rest \in Seq(Names)
    BY <1>0, <2>1, <2>2, Zenon DEF Call
  <2>4. Head(c.rest) \in Names
    <3>1. PICK s : s = c.rest
      BY Zenon
    <3>2. s \in Seq(Names) /\ s # <<>>
      BY <3>1, <2>2, <2>3, Zenon
    <3>3. Head(s) \in Names
      BY ONLY <3>2
    <3> QED
      BY <3>1, <3>3, Zenon
  <2>5. e \in Call
    BY <1>0, <2>1, <2>4, ZenonT(60) DEF Call, Lines
  <2>6. Consistent(e)
    BY <2>2, <2>3, <1>0, Zenon DEF Consistent
  <2>7. ASSUME c.dir \in Guarded PROVE Knows(e, ns)
    <3>1. ASSUME c.kind # "readdir"
          PROVE  \E k \in 1 .. Len(ns) : ns[k] = c.name
      BY <2>7, <3>1, <1>0, <1>a, <2>2, <2>3, HereIsRegistered, ZenonT(60)
    <3> QED BY <3>1, <2>3, Zenon DEF Knows
  <2> QED BY <1>0, <2>2, <2>3, <2>5, <2>6, <2>7, LocalStep, Zenon DEF Locked
<1>5. CASE foreach_end(t)
  <2>1. PICK e : e = [c EXCEPT !.pc = IF c.kind = "register" THEN "insert" ELSE "unlock"]
    BY Zenon
  <2>2. /\ op' = [op EXCEPT ![t] = e] /\ c.pc = "scan" /\ c.rest = <<>>
        /\ UNCHANGED <<lock, nodes, root_files>>
    BY <1>5, <1>0, <2>1, Zenon DEF foreach_end, Goto, Call
  <2>3. /\ e.pc = (IF c.kind = "register" THEN "insert" ELSE "unlock")
        /\ e.kind = c.kind /\ e.dir = c.dir /\ e.name = c.name /\ e.ret = c.ret
    BY <1>0, <2>1, Zenon DEF Call
  <2>4. e \in Call
    BY <1>0, <2>1, ZenonT(60) DEF Call, Lines
  <2>5. Consistent(e) /\ c.ret = NotFound
    BY <2>2, <2>3, <1>0, Zenon DEF Consistent
  <2>6. ASSUME c.dir \in Guarded PROVE Knows(e, ns)
    <3>1. c.kind # "readdir" => \A k \in 1 .. Len(ns) : ns[k] # c.name
      BY <2>6, <1>0, <1>a, <2>2, NotRegistered, Zenon
    <3> QED BY <3>1, <2>3, <2>5, ZenonT(60) DEF Knows
  <2> QED BY <1>0, <2>2, <2>3, <2>4, <2>5, <2>6, LocalStep, Zenon DEF Locked
<1>6. CASE link_front(t)
  <2>1. PICK e : e = [c EXCEPT !.pc = "publish", !.rest = ns]
    BY Zenon
  <2>2. /\ op' = [op EXCEPT ![t] = e] /\ c.pc = "insert"
        /\ UNCHANGED <<lock, nodes, root_files>>
    BY <1>6, <1>0, <2>1, Zenon DEF link_front, Call
  <2>3. /\ e.pc = "publish" /\ e.kind = c.kind /\ e.dir = c.dir /\ e.name = c.name
        /\ e.rest = ns
    BY <1>0, <2>1, Zenon DEF Call
  <2>4. e \in Call
    BY <1>0, <1>a, <2>1, ZenonT(60) DEF Call, Lines
  <2>5. Consistent(e)
    BY <2>2, <2>3, <1>0, Zenon DEF Consistent
  <2>6. c.dir \in Guarded => Knows(e, ns)
    BY <2>2, <2>3, <1>0, Zenon DEF Knows
  <2> QED BY <1>0, <2>2, <2>3, <2>4, <2>5, <2>6, LocalStep, Zenon DEF Locked
<1>7. CASE count_file(t)
  <2>1. PICK e : e = [c EXCEPT !.pc = "unlock"]
    BY Zenon
  <2>2. /\ op' = [op EXCEPT ![t] = e] /\ c.pc = "count"
        /\ UNCHANGED <<lock, nodes>> /\ root_files' = root_files + 1
    BY <1>7, <1>0, <2>1, Zenon DEF count_file, Goto, Call
  <2>3. /\ e.pc = "unlock" /\ e.kind = c.kind /\ e.dir = c.dir /\ e.name = c.name
    BY <1>0, <2>1, Zenon DEF Call
  <2>4. e \in Call
    BY <1>0, <2>1, Zenon DEF Call, Lines
  <2>5. Consistent(e) /\ e.kind = "register"
    BY <2>2, <2>3, <1>0, Zenon DEF Consistent
  <2>6. Knows(e, ns)
    BY <2>3, <2>5, Zenon DEF Knows
  <2>7. root_files' \in Nat
    BY <2>2, SMTT(30) DEF DirsInv, TypeOK
  <2> QED BY <1>0, <2>2, <2>3, <2>4, <2>5, <2>6, <2>7, LocalStep, Zenon DEF Locked
<1> QED BY <1>1, <1>2, <1>3, <1>4, <1>5, <1>6, <1>7, Zenon

(* The test-and-set lets in one task, into an unlocked directory.          *)
LEMMA LockInv ==
    ASSUME DirsInv, NEW t \in Callers, spin_lock(t)
    PROVE  DirsInv'
<1> DEFINE c == op[t]
<1>1. PICK e : e = [c EXCEPT !.pc = "begin"]
  BY Zenon
<1>2. /\ op \in [Callers -> Call] /\ c \in Call /\ c.dir \in Dirs /\ Consistent(c)
      /\ lock \in [Dirs -> BOOLEAN]
  BY Zenon DEF DirsInv, TypeOK, Call
<1>3. /\ op' = [op EXCEPT ![t] = e] /\ c.pc = "lock" /\ ~lock[c.dir]
      /\ lock' = [lock EXCEPT ![c.dir] = TRUE]
      /\ nodes' = nodes /\ root_files' = root_files
  BY <1>1, <1>2, Zenon DEF spin_lock, Goto, Call
<1>4. e.pc = "begin" /\ e.kind = c.kind /\ e.dir = c.dir /\ e.name = c.name /\ e.ret = c.ret
  BY <1>1, <1>2, Zenon DEF Call
<1>5. e \in Call
  BY <1>1, <1>2, Zenon DEF Call, Lines
<1>6. op'[t] = e /\ \A u \in Callers : u # t => op'[u] = op[u]
  BY <1>2, <1>3, Zenon
<1>7. TypeOK'
  BY <1>3, <1>5, Zenon DEF DirsInv, TypeOK
<1>8. LockExcludes'
  <2> SUFFICES ASSUME NEW d \in Guarded
               PROVE  /\ lock'[d] <=> \E u \in Callers : Holds(u, d)'
                      /\ \A u, v \in Callers : Holds(u, d)' /\ Holds(v, d)' => u = v
    BY Zenon DEF LockExcludes, Guarded
  <2>1. /\ lock[d] <=> \E u \in Callers : Holds(u, d)
        /\ \A u, v \in Callers : Holds(u, d) /\ Holds(v, d) => u = v
    BY Zenon DEF DirsInv, LockExcludes
  <2>2. /\ \A u \in Callers : u # t => (Holds(u, d)' <=> Holds(u, d))
        /\ Holds(t, d)' <=> c.dir = d
        /\ ~Holds(t, d)
    BY <1>3, <1>4, <1>6, Zenon DEF Holds
  <2>3. d \in Dirs
    BY Zenon DEF Guarded, Dirs
  <2> QED BY <2>1, <2>2, <2>3, <1>2, <1>3, Zenon
<1>9. UniqueNames'
  BY <1>3, Zenon DEF DirsInv, UniqueNames, Guarded
<1>10. \A u \in Callers : Consistent(op'[u])
  <2>1. Consistent(e)
    BY <1>2, <1>3, <1>4, Zenon DEF Consistent
  <2> QED BY <2>1, <1>6, Zenon DEF DirsInv
<1>11. \A u \in Callers : op'[u].dir \in Guarded => Knows(op'[u], nodes'[op'[u].dir])
  <2>1. Knows(e, nodes[e.dir])
    BY <1>4, Zenon DEF Knows
  <2> QED BY <2>1, <1>3, <1>6, Zenon DEF DirsInv
<1> QED BY <1>7, <1>8, <1>9, <1>10, <1>11, Zenon DEF DirsInv, Consistent, Knows, Guarded

(* The task inside leaves.                                                 *)
LEMMA UnlockInv ==
    ASSUME DirsInv, NEW t \in Callers, spin_unlock(t)
    PROVE  DirsInv'
<1> DEFINE c == op[t]
<1>2. /\ op \in [Callers -> Call] /\ c \in Call /\ c.dir \in Dirs
      /\ lock \in [Dirs -> BOOLEAN]
  BY Zenon DEF DirsInv, TypeOK, Call
<1>3. /\ op' = [op EXCEPT ![t] = Idle] /\ c.pc = "unlock"
      /\ lock' = [lock EXCEPT ![c.dir] = FALSE]
      /\ nodes' = nodes /\ root_files' = root_files
  BY Zenon DEF spin_unlock
<1>6. op'[t] = Idle /\ \A u \in Callers : u # t => op'[u] = op[u]
  BY <1>2, <1>3, Zenon
<1>7. TypeOK'
  BY <1>3, IdleIsCall, ZenonT(60) DEF DirsInv, TypeOK
<1>8. LockExcludes'
  <2> SUFFICES ASSUME NEW d \in Guarded
               PROVE  /\ lock'[d] <=> \E u \in Callers : Holds(u, d)'
                      /\ \A u, v \in Callers : Holds(u, d)' /\ Holds(v, d)' => u = v
    BY Zenon DEF LockExcludes, Guarded
  <2>1. /\ lock[d] <=> \E u \in Callers : Holds(u, d)
        /\ \A u, v \in Callers : Holds(u, d) /\ Holds(v, d) => u = v
    BY Zenon DEF DirsInv, LockExcludes
  <2>2. /\ \A u \in Callers : u # t => (Holds(u, d)' <=> Holds(u, d))
        /\ ~Holds(t, d)'
        /\ Holds(t, d) <=> c.dir = d
    BY <1>3, <1>6, IdleIsCall, Zenon DEF Holds
  <2>3. d \in Dirs
    BY Zenon DEF Guarded, Dirs
  <2> QED BY <2>1, <2>2, <2>3, <1>2, <1>3, Zenon
<1>9. UniqueNames'
  BY <1>3, Zenon DEF DirsInv, UniqueNames, Guarded
<1>10. \A u \in Callers : Consistent(op'[u])
  <2>1. Consistent(Idle)
    BY IdleIsCall, Zenon DEF Consistent
  <2> QED BY <2>1, <1>6, Zenon DEF DirsInv
<1>11. \A u \in Callers : op'[u].dir \in Guarded => Knows(op'[u], nodes'[op'[u].dir])
  <2>1. Knows(Idle, nodes[Idle.dir])
    BY IdleIsCall, Zenon DEF Knows
  <2> QED BY <2>1, <1>3, <1>6, Zenon DEF DirsInv
<1> QED BY <1>7, <1>8, <1>9, <1>10, <1>11, Zenon DEF DirsInv, Consistent, Knows, Guarded

(* A name that is not in the list can be put in front of it.               *)
LEMMA ConsUnique ==
    ASSUME NEW ns \in Seq(Names), NEW name \in Names,
           \A k \in 1 .. Len(ns) : ns[k] # name,
           \A j, k \in DOMAIN ns : ns[j] = ns[k] => j = k
    PROVE  \A j, k \in DOMAIN (<<name>> \o ns) :
               (<<name>> \o ns)[j] = (<<name>> \o ns)[k] => j = k
<1>1. PICK n, ms : n = Len(ns) /\ ms = <<name>> \o ns
  BY Zenon
<1>2. /\ n \in Nat /\ DOMAIN ns = 1 .. n /\ DOMAIN ms = 1 .. (n + 1)
      /\ ms[1] = name /\ \A k \in 2 .. (n + 1) : ms[k] = ns[k - 1]
  BY <1>1
<1>3. \A k \in 2 .. (n + 1) : k - 1 \in 1 .. n
  BY <1>2
<1>4. ASSUME NEW j \in 1 .. (n + 1), NEW k \in 1 .. (n + 1), ms[j] = ms[k] PROVE j = k
  <2>1. CASE j = 1 /\ k # 1
    BY <2>1, <1>1, <1>2, <1>3, <1>4
  <2>2. CASE j # 1 /\ k = 1
    BY <2>2, <1>1, <1>2, <1>3, <1>4, SMTT(30)
  <2>3. CASE j # 1 /\ k # 1
    <3>1. /\ j \in 2 .. (n + 1) /\ k \in 2 .. (n + 1)
          /\ j - 1 \in 1 .. n /\ k - 1 \in 1 .. n
      BY <2>3, <1>2
    <3>2. ns[j - 1] = ns[k - 1]
      BY <3>1, <1>2, <1>4, Zenon
    <3>3. j - 1 = k - 1
      BY <3>1, <3>2, <1>2, Zenon
    <3> QED BY <3>1, <3>3, <1>2
  <2> QED BY <2>1, <2>2, <2>3, Zenon
<1> QED BY <1>1, <1>2, <1>4, Zenon

(* The list changes; no other task is between lock and unlock to see it.   *)
LEMMA PublishInv ==
    ASSUME DirsInv, NEW t \in Callers, publish_front(t)
    PROVE  DirsInv'
<1> DEFINE c == op[t]
           ms == <<c.name>> \o c.rest
<1>1. PICK e : e = [c EXCEPT !.pc = IF c.dir = Root THEN "count" ELSE "unlock"]
  BY Zenon
<1>2. /\ op \in [Callers -> Call] /\ c \in Call /\ c.dir \in Dirs /\ Consistent(c)
      /\ nodes \in [Dirs -> Seq(Names)] /\ c.rest \in Seq(Names)
  BY Zenon DEF DirsInv, TypeOK, Call
<1>3. /\ op' = [op EXCEPT ![t] = e] /\ c.pc = "publish"
      /\ nodes' = [nodes EXCEPT ![c.dir] = ms]
      /\ lock' = lock /\ root_files' = root_files
  BY <1>1, <1>2, Zenon DEF publish_front, Goto, Call
<1>4. /\ e.pc \in {"count", "unlock"} /\ e.kind = c.kind /\ e.dir = c.dir
      /\ e.name = c.name
  BY <1>1, <1>2, Zenon DEF Call
<1>5. e \in Call
  BY <1>1, <1>2, Zenon DEF Call, Lines
<1>6. op'[t] = e /\ \A u \in Callers : u # t => op'[u] = op[u]
  BY <1>2, <1>3, Zenon
<1>a. c.kind = "register" /\ c.name \in Names
  BY <1>2, <1>3, Zenon DEF Consistent
<1>b. ms \in Seq(Names)
  BY <1>a, <1>2
<1>7. TypeOK'
  BY <1>3, <1>5, <1>b, Zenon DEF DirsInv, TypeOK
<1>c. \A d \in Guarded, u \in Callers : Holds(u, d)' <=> Holds(u, d)
  BY <1>3, <1>4, <1>6, Zenon DEF Holds
<1>8. LockExcludes'
  BY <1>3, <1>c, Zenon DEF DirsInv, LockExcludes, Guarded
<1>9. UniqueNames'
  <2> SUFFICES ASSUME NEW d \in Guarded
               PROVE  \A j, k \in DOMAIN nodes'[d] : nodes'[d][j] = nodes'[d][k] => j = k
    BY Zenon DEF UniqueNames, Guarded
  <2>1. d \in Dirs /\ \A j, k \in DOMAIN nodes[d] : nodes[d][j] = nodes[d][k] => j = k
    BY Zenon DEF DirsInv, UniqueNames, Guarded, Dirs
  <2>2. CASE d = c.dir
    <3>1. /\ nodes[d] \in Seq(Names) /\ c.rest = nodes[d]
          /\ \A k \in 1 .. Len(nodes[d]) : nodes[d][k] # c.name
      BY <2>1, <2>2, <1>2, <1>3, ZenonT(60) DEF DirsInv, Knows
    <3>2. nodes'[d] = <<c.name>> \o nodes[d]
      BY <3>1, <2>1, <2>2, <1>2, <1>3, Zenon
    <3> QED BY <3>1, <3>2, <2>1, <1>a, ConsUnique, Zenon
  <2>3. CASE d # c.dir
    BY <2>1, <2>3, <1>2, <1>3, Zenon
  <2> QED BY <2>2, <2>3, Zenon
<1>10. \A u \in Callers : Consistent(op'[u])
  <2>1. Consistent(e)
    BY <1>4, <1>a, Zenon DEF Consistent
  <2> QED BY <2>1, <1>6, Zenon DEF DirsInv
<1>11. \A u \in Callers : op'[u].dir \in Guarded => Knows(op'[u], nodes'[op'[u].dir])
  <2> SUFFICES ASSUME NEW u \in Callers, op'[u].dir \in Guarded
               PROVE  Knows(op'[u], nodes'[op'[u].dir])
    BY Zenon
  <2>1. CASE u = t
    BY <2>1, <1>4, <1>6, <1>a, Zenon DEF Knows
  <2>2. CASE u # t /\ op[u].dir # c.dir
    <3>1. op[u].dir \in Dirs
      BY <1>2, Zenon DEF Call
    <3>2. nodes'[op[u].dir] = nodes[op[u].dir]
      BY <3>1, <2>2, <1>2, <1>3, Zenon
    <3> QED BY <3>2, <2>2, <1>6, Zenon DEF DirsInv
  <2>3. CASE u # t /\ op[u].dir = c.dir
    <3>1. ~Holds(u, c.dir)
      <4>1. Holds(t, c.dir)
        BY <1>3, Zenon DEF Holds
      <4>2. c.dir \in Guarded
        BY <2>3, <1>6, Zenon
      <4> QED
        BY <2>3, <4>1, <4>2, Zenon DEF DirsInv, LockExcludes
    <3>2. op'[u].pc \notin {"scan", "insert", "publish", "unlock"}
      BY <3>1, <2>3, <1>6, Zenon DEF Holds
    <3> QED BY <3>2, Zenon DEF Knows
  <2> QED BY <2>1, <2>2, <2>3, Zenon
<1> QED BY <1>7, <1>8, <1>9, <1>10, <1>11, Zenon DEF DirsInv, Consistent, Knows, Guarded

(* The directories start empty and unlocked.                               *)
LEMMA InitInv == DirsInit => DirsInv
<1> SUFFICES ASSUME DirsInit PROVE DirsInv
  BY Zenon
<1>1. /\ \A t \in Callers : op[t] = Idle
      /\ \A d \in Dirs : lock[d] = FALSE /\ nodes[d] = <<>>
  BY Zenon DEF DirsInit
<1>2. <<>> \in Seq(Names) /\ DOMAIN <<>> = {} /\ 0 \in Nat
  OBVIOUS
<1>3. TypeOK
  BY <1>2, IdleIsCall, Zenon DEF DirsInit, TypeOK
<1>4. LockExcludes
  BY <1>1, IdleIsCall, Zenon DEF LockExcludes, Holds, Guarded, Dirs
<1>5. UniqueNames
  BY <1>1, <1>2, Zenon DEF UniqueNames, Guarded, Dirs
<1>6. \A t \in Callers : Consistent(op[t])
  BY <1>1, IdleIsCall, Zenon DEF Consistent
<1>7. \A t \in Callers : op[t].dir \in Guarded => Knows(op[t], nodes[op[t].dir])
  BY <1>1, IdleIsCall, Zenon DEF Knows
<1> QED BY <1>3, <1>4, <1>5, <1>6, <1>7, Zenon DEF DirsInv

(* Every step keeps the invariant.                                         *)
LEMMA NextInv == DirsInv /\ [DirsNext]_dirVars => DirsInv'
<1> SUFFICES ASSUME DirsInv, [DirsNext]_dirVars PROVE DirsInv'
  BY Zenon
<1>1. CASE UNCHANGED dirVars
  <2>1. /\ op' = op /\ lock' = lock /\ nodes' = nodes /\ root_files' = root_files
    BY <1>1, Zenon DEF dirVars
  <2>2. TypeOK' /\ UniqueNames'
    BY <2>1, Zenon DEF DirsInv, TypeOK, UniqueNames
  <2>3. LockExcludes'
    BY <2>1, Zenon DEF DirsInv, LockExcludes, Holds
  <2>4. /\ \A t \in Callers : Consistent(op'[t])
        /\ \A t \in Callers : op'[t].dir \in Guarded => Knows(op'[t], nodes'[op'[t].dir])
    BY <2>1, Zenon DEF DirsInv
  <2> QED BY <2>2, <2>3, <2>4, Zenon DEF DirsInv, Consistent, Knows, Guarded
<1>2. ASSUME NEW t \in Callers, Step(t) PROVE DirsInv'
  BY <1>2, ReadInv, LockInv, PublishInv, UnlockInv, Zenon DEF Step
<1>3. ASSUME NEW t \in Callers, NEW d \in Dirs, NEW name \in Names,
             call_register(t, d, name) \/ call_finddir(t, d, name)
      PROVE  DirsInv'
  BY <1>3, NamedCallInv, Zenon
<1>4. ASSUME NEW t \in Callers, NEW index \in 0 .. MaxNodes,
             call_devfs_readdir(t, index) \/ rootfs_readdir(t, index)
      PROVE  DirsInv'
  <2>1. index \in Nat
    BY RegistryAssumption
  <2> QED BY <1>4, <2>1, IndexCallInv, Zenon
<1> QED BY <1>1, <1>2, <1>3, <1>4, Zenon DEF DirsNext

(* The invariant holds throughout.                                         *)
LEMMA Invariance == DirsSpec => []DirsInv
  BY InitInv, NextInv, PTL DEF DirsSpec

(* The locks of rootfs.c and devfs.c exclude: in a directory nobody reads  *)
(* without locking, at most one task is between spin_lock and spin_unlock, *)
(* and the lock is taken exactly then.                                     *)
THEOREM LocksExclude == DirsSpec => []LockExcludes
<1>1. DirsInv => LockExcludes
  BY Zenon DEF DirsInv
<1> QED BY <1>1, Invariance, PTL

(* fs_register and devfs_register never register a name twice in such a    *)
(* directory.                                                              *)
THEOREM NamesAreUnique == DirsSpec => []UniqueNames
<1>1. DirsInv => UniqueNames
  BY Zenon DEF DirsInv
<1> QED BY <1>1, Invariance, PTL

(* A lookup in such a directory returns the node of that name exactly if   *)
(* there is one at that moment.                                            *)
THEOREM LookupsAnswerRightly == DirsSpec => []LookupsAreRight
<1>1. ASSUME DirsInv PROVE LookupsAreRight
  <2> SUFFICES ASSUME NEW t \in Callers, op[t].pc = "unlock", op[t].kind = "finddir",
                      op[t].dir \in Guarded
               PROVE  op[t].ret = IF Registered(op[t].dir, op[t].name)
                                  THEN op[t].name ELSE NotFound
    BY Zenon DEF LookupsAreRight
  <2>1. nodes[op[t].dir] \in Seq(Names)
    BY <1>1, Zenon DEF DirsInv, TypeOK, Call
  <2>2. DOMAIN nodes[op[t].dir] = 1 .. Len(nodes[op[t].dir])
    BY <2>1, SMTT(30)
  <2>3. Knows(op[t], nodes[op[t].dir])
    BY <1>1, Zenon DEF DirsInv
  <2> QED BY <2>2, <2>3, Zenon DEF Registered, Knows
<1> QED BY <1>1, Invariance, PTL

=============================================================================
