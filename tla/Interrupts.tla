----------------------------- MODULE Interrupts -----------------------------
(***************************************************************************)
(* Interrupts and system calls of tasks: the stubs of                      *)
(* src/kernel/cpu/interrupt.asm, the dispatch of cpu/isr.c and             *)
(* sys/syscall.c, the two interrupt controllers as cpu/idt.c sets them up, *)
(* the timer of drivers/timer.c and the lazy FPU of cpu/fpu.c.             *)
(*                                                                         *)
(* Every gate is an interrupt gate and no handler enables interrupts, so a *)
(* task runs with interrupts enabled exactly when it has no frame on its   *)
(* stack.  schedule is the round robin of Scheduler among tasks that exist *)
(* already; tasks are their tids.                                          *)
(***************************************************************************)
EXTENDS Integers, Sequences, FiniteSets

CONSTANTS
    NumTasks,
    TickMod,     \* 2^32
    MaxSleep,    \* bound on the argument of sleep
    Sleepers,    \* the tasks that call sleep
    None

Tasks == 0 .. NumTasks - 1

TIMER_IRQ == 32
RTC_IRQ == 40
Irqs == {TIMER_IRQ, RTC_IRQ}
FPU_TRAP == 7
SYSCALL == 127
UNHANDLED == 0      \* an exception nobody installed a handler for

SYS_GETTID == 1
SYS_YIELD == 2
SYS_RPL3TEST == 4

ASSUME InterruptsAssumption ==
    /\ NumTasks \in Nat \ {0} /\ TickMod \in Nat \ {0} /\ MaxSleep \in Nat
    /\ Sleepers \subseteq Tasks
    /\ None \notin Int /\ None \notin [eticks : Nat, n : Nat, slept : Nat]

VARIABLES
    current_task,
    frames,      \* the regs_t on the stack of each task, with where it is
    ifr,         \* the index of the frame a task's ifr points to
    eax,         \* the register, while the task has no frame
    request,     \* the interrupt lines the controllers have latched
    service,     \* the in-service registers of the two controllers
    timer_ticks,
    ran,         \* has the running task made a step since it was scheduled?
    asked,       \* the system call a task waits for
    sleeper,     \* the activation of sleep in each task
    ts           \* CR0.TS

machine == <<current_task, frames, ifr, eax>>
pic == <<request, service>>
clock == <<timer_ticks, ran>>
vars == <<machine, pic, clock, asked, sleeper, ts>>

Init ==
    /\ current_task = NumTasks - 1
    /\ frames = [t \in Tasks |-> <<>>]
    /\ ifr = [t \in Tasks |-> 0]
    /\ eax = [t \in Tasks |-> 0]
    /\ request = {} /\ service = [master |-> {}, slave |-> {}]
    /\ timer_ticks \in 0 .. TickMod - 1 /\ ran = FALSE
    /\ asked = [t \in Tasks |-> None]
    /\ sleeper = [t \in Tasks |-> None]
    /\ ts = TRUE

\* The task schedule picks: the next in the list, or the front after the last.
next_task(t) == IF t = 0 THEN NumTasks - 1 ELSE t - 1

\* The task is running, in its own code and not in a handler.  All gates of idt_init
\* have type 0x8E, an interrupt gate: this is when it can be interrupted.
Executes(t) == current_task = t /\ frames[t] = <<>>

\* The stub pushes the registers and the number of the interrupt.
push(t, no, a) ==
    frames' = [frames EXCEPT ![t] = Append(@, [no |-> no, at |-> "entry", eax |-> a])]

Top(t) == frames[t][Len(frames[t])]
In(t, no, at) == current_task = t /\ frames[t] # <<>> /\ Top(t).no = no /\ Top(t).at = at
Go(t, at) == frames' = [frames EXCEPT ![t][Len(frames[t])].at = at]

\* int 0x7f with the number of a call in eax.
syscall(t, n) ==
    /\ Executes(t) /\ sleeper[t] = None
    /\ push(t, SYSCALL, n)
    /\ asked' = [asked EXCEPT ![t] = n]
    /\ ran' = TRUE
    /\ UNCHANGED <<current_task, ifr, eax, pic, timer_ticks, sleeper, ts>>

exception(t) ==
    /\ Executes(t) /\ sleeper[t] = None
    /\ push(t, UNHANDLED, eax[t])
    /\ ran' = TRUE
    /\ UNCHANGED <<current_task, ifr, eax, pic, timer_ticks, asked, sleeper, ts>>

\* A device raises its line.
raise(q) ==
    /\ q \notin request
    /\ request' = request \cup {q}
    /\ UNCHANGED <<machine, service, clock, asked, sleeper, ts>>

\* The line of the master to which the slave is connected is 2.
Line(q) == IF q >= 40 THEN 34 ELSE q

\* A controller delivers a line of a higher priority than those in service.  A tick
\* finds that the task has made at least one step since it was scheduled.
irq(q) ==
    /\ Executes(current_task) /\ q \in request /\ (q = TIMER_IRQ => ran)
    /\ \A s \in service.master : Line(q) < s
    /\ q >= 40 => \A s \in service.slave : q < s
    /\ \A p \in request : Line(p) >= Line(q)
    /\ request' = request \ {q}
    /\ service' = [master |-> service.master \cup {Line(q)},
                   slave |-> service.slave \cup (IF q >= 40 THEN {q} ELSE {})]
    /\ push(current_task, q, eax[current_task])
    /\ UNCHANGED <<current_task, ifr, eax, clock, asked, sleeper, ts>>

isr_handler(t, no) ==
    /\ In(t, no, "entry") /\ no \in {SYSCALL, FPU_TRAP, UNHANDLED}
    /\ ifr' = [ifr EXCEPT ![t] = Len(frames[t])]
    /\ Go(t, IF no = UNHANDLED THEN "return" ELSE "handler")
    /\ UNCHANGED <<current_task, eax, pic, clock, asked, sleeper, ts>>

\* End of interrupt: the line of highest priority is no longer in service.
eoi(s) == {q \in s : \E p \in s : p < q}

\* Mutant: the slave is acknowledged from IRQ 9 on.
irq_handler_above_40(t, q) ==
    /\ In(t, q, "entry") /\ q \in Irqs
    /\ ifr' = [ifr EXCEPT ![t] = Len(frames[t])]
    /\ service' = [master |-> eoi(service.master),
                   slave |-> IF q > 40 THEN eoi(service.slave) ELSE service.slave]
    /\ Go(t, "handler")
    /\ UNCHANGED <<current_task, eax, request, clock, asked, sleeper, ts>>

irq_handler(t, q) ==
    /\ In(t, q, "entry") /\ q \in Irqs
    /\ ifr' = [ifr EXCEPT ![t] = Len(frames[t])]
    /\ service' = [master |-> eoi(service.master),
                   slave |-> IF q >= 40 THEN eoi(service.slave) ELSE service.slave]
    /\ Go(t, "handler")
    /\ UNCHANGED <<current_task, eax, request, clock, asked, sleeper, ts>>

\* The handler of a device returns (Drivers has what it does).
device_handler(t, q) ==
    /\ In(t, q, "handler") /\ q \in Irqs \ {TIMER_IRQ}
    /\ Go(t, "return")
    /\ UNCHANGED <<current_task, ifr, eax, pic, clock, asked, sleeper, ts>>

schedule(t) == current_task' = next_task(t) /\ ran' = FALSE
stay == UNCHANGED <<current_task, ran>>

timer_irq_handler(t) ==
    /\ In(t, TIMER_IRQ, "handler")
    /\ timer_ticks' = (timer_ticks + 1) % TickMod
    /\ sleeper' = [u \in Tasks |-> IF sleeper[u] = None THEN None
                                   ELSE [sleeper[u] EXCEPT !.slept = IF @ < sleeper[u].n THEN @ + 1 ELSE @]]
    /\ schedule(t)
    /\ Go(t, "return")
    /\ UNCHANGED <<ifr, eax, pic, asked, ts>>

\* The dispatcher stores the result into the frame it found in ifr.
answer(t, value) == [frames EXCEPT ![t][ifr[t]].eax = value, ![t][Len(frames[t])].at = "return"]

\* Mutant: the table has no bound on the left.
syscall_dispatcher_zero(t) ==
    /\ In(t, SYSCALL, "handler")
    /\ LET n == frames[t][ifr[t]].eax IN
       \/ n = SYS_GETTID /\ frames' = answer(t, t) /\ stay
       \/ n \in {0, SYS_RPL3TEST} /\ frames' = answer(t, 0) /\ stay
       \/ n = SYS_YIELD /\ Go(t, "yielded") /\ schedule(t)
       \/ n \notin 0 .. 4 /\ frames' = answer(t, -1) /\ stay
    /\ UNCHANGED <<ifr, eax, pic, timer_ticks, asked, sleeper, ts>>

\* sys_exit is in Scheduler: the call does not return.
syscall_dispatcher(t) ==
    /\ In(t, SYSCALL, "handler")
    /\ LET n == frames[t][ifr[t]].eax IN
       \/ n = SYS_GETTID /\ frames' = answer(t, t) /\ stay
       \/ n = SYS_RPL3TEST /\ frames' = answer(t, 0) /\ stay
       \/ n = SYS_YIELD /\ Go(t, "yielded") /\ schedule(t)
       \/ n \notin 1 .. 4 /\ frames' = answer(t, -1) /\ stay
    /\ UNCHANGED <<ifr, eax, pic, timer_ticks, asked, sleeper, ts>>

sys_yield_returns(t) ==
    /\ In(t, SYSCALL, "yielded")
    /\ frames' = answer(t, 0)
    /\ UNCHANGED <<current_task, ifr, eax, pic, clock, asked, sleeper, ts>>

\* The end of the stub: popa and iret.
iret(t) ==
    /\ current_task = t /\ frames[t] # <<>> /\ Top(t).at = "return"
    /\ eax' = [eax EXCEPT ![t] = Top(t).eax]
    /\ frames' = [frames EXCEPT ![t] = SubSeq(@, 1, Len(@) - 1)]
    /\ asked' = IF Top(t).no = SYSCALL THEN [asked EXCEPT ![t] = None] ELSE asked
    /\ UNCHANGED <<current_task, ifr, pic, clock, sleeper, ts>>

\* eticks is 64 bits wide: the sum does not wrap, timer_ticks does.
sleep(t, n) ==
    /\ Executes(t) /\ sleeper[t] = None /\ t \in Sleepers
    /\ sleeper' = [sleeper EXCEPT ![t] = [eticks |-> n + timer_ticks, n |-> n, slept |-> 0]]
    /\ ran' = TRUE
    /\ UNCHANGED <<machine, pic, timer_ticks, asked, ts>>

\* Mutant: the sum is cut to 32 bits.
still_sleeping_32(e) == e % TickMod > timer_ticks

\* Mutant: the tick itself has to be seen.
still_sleeping_equal(e) == e # timer_ticks

still_sleeping(e) == e > timer_ticks

\* One round of the loop.
sleep_polls(t) ==
    /\ Executes(t) /\ sleeper[t] # None
    /\ sleeper' = IF still_sleeping(sleeper[t].eticks) THEN sleeper
                  ELSE [sleeper EXCEPT ![t] = None]
    /\ ran' = TRUE
    /\ UNCHANGED <<machine, pic, timer_ticks, asked, ts>>

\* An instruction of the FPU.
fpu_instruction(t) ==
    /\ Executes(t) /\ sleeper[t] = None
    /\ IF ts THEN push(t, FPU_TRAP, eax[t]) ELSE UNCHANGED frames
    /\ ran' = TRUE
    /\ UNCHANGED <<current_task, ifr, eax, pic, timer_ticks, asked, sleeper, ts>>

\* clts; what the handler does to the registers of the FPU is left out.
fpu_exception_handler(t) ==
    /\ In(t, FPU_TRAP, "handler")
    /\ ts' = FALSE
    /\ Go(t, "return")
    /\ UNCHANGED <<current_task, ifr, eax, pic, clock, asked, sleeper>>

compute(t) ==
    /\ Executes(t) /\ sleeper[t] = None
    /\ ran' = TRUE
    /\ UNCHANGED <<machine, pic, timer_ticks, asked, sleeper, ts>>

Handle(t) ==
    \/ \E no \in {SYSCALL, FPU_TRAP, UNHANDLED} : isr_handler(t, no)
    \/ \E q \in Irqs : irq_handler(t, q) \/ device_handler(t, q)
    \/ timer_irq_handler(t) \/ syscall_dispatcher(t) \/ sys_yield_returns(t)
    \/ fpu_exception_handler(t) \/ iret(t)

Own(t) == compute(t) \/ sleep_polls(t)

Next ==
    \/ \E q \in Irqs : raise(q) \/ irq(q)
    \/ \E t \in Tasks :
           \/ Handle(t) \/ Own(t)
           \/ \E n \in {0, SYS_GETTID, SYS_YIELD, SYS_RPL3TEST, 5} : syscall(t, n)
           \/ exception(t) \/ fpu_instruction(t)
           \/ \E n \in 0 .. MaxSleep : sleep(t, n)

\* The processor executes handlers to their end and gets to run its task between
\* interrupts, and the timer ticks.
Fairness ==
    /\ WF_vars(\E t \in Tasks : Handle(t))
    /\ SF_vars(\E t \in Tasks : Own(t))
    /\ WF_vars(raise(TIMER_IRQ)) /\ SF_vars(irq(TIMER_IRQ))

Spec == Init /\ [][Next]_vars /\ Fairness

\* No interrupt line is blocked while a task runs with interrupts enabled: the
\* timer's handler leaves through a context switch, so the acknowledgement in
\* irq_handler has to come before it, and IRQ 8 needs one for each controller.
NothingInService ==
    (\E t \in Tasks : Executes(t)) => service.master = {} /\ service.slave = {}

\* What each system call answers to the task that made it.
Answer(t, n) ==
    CASE n = SYS_GETTID -> t
      [] n \in {SYS_YIELD, SYS_RPL3TEST} -> 0
      [] OTHER -> -1

\* A system call returns to the task the answer to its own request, also when
\* other tasks made calls while it had yielded the processor.  Nothing else changes
\* the register: interrupts leave it as it was.
OwnAnswers ==
    [][\A t \in Tasks : eax'[t] = IF asked[t] # None /\ asked'[t] = None
                                  THEN Answer(t, asked[t]) ELSE eax[t]]_vars

\* sleep never returns early, the wrap of timer_ticks included.
SleepsLongEnough ==
    [][\A t \in Tasks : sleeper[t] # None /\ sleeper'[t] = None =>
           sleeper[t].slept = sleeper[t].n]_vars

\* sleep ends if timer_ticks reaches its end with room for every task to run once
\* before the counter wraps.  With less room the sleeper may not be the one that
\* runs at the time, and with none it never wakes up.
SleepEnds ==
    \A t \in Tasks :
        (sleeper[t] # None /\ sleeper[t].eticks < TickMod - NumTasks) ~> sleeper[t] = None
=============================================================================
