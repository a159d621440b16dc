----------------------------- MODULE Scheduler ------------------------------
(***************************************************************************)
(* Multitasking: src/kernel/sys/task.c, context_switch.asm, the timer      *)
(* interrupt and the yield and exit system calls, over task_list.          *)
(*                                                                         *)
(* There is one processor.  The thread that runs is current_task, or the   *)
(* boot thread of kernel_main while current_task is NULL (Null).  A thread *)
(* is a stack of frames, each with the line it is at, its local variables  *)
(* (curr_ticks is one: nothing reads it later, -Os keeps it in a register) *)
(* and the interrupt flag it runs with.  A timer interrupt may come        *)
(* between any two lines of a frame with interrupts enabled and pushes a   *)
(* frame without; handlers and system calls enter through interrupt gates. *)
(*                                                                         *)
(* A task_t and its list node are one node of List.  The page at address 0 *)
(* reads as zeros: NULL->next is NULL and NULL->state is TASK_READY.       *)
(***************************************************************************)
EXTENDS List, FiniteSetsExt, Sequences

CONSTANTS
    TickMod,    \* 2^32, the range of timer_ticks and usage
    Idle,       \* the first task, which runs stage2
    Creators,   \* the tasks whose code calls task_create
    Exiters     \* the tasks whose code exits

ASSUME SchedulerAssumption ==
    /\ TickMod \in Nat \ {0}
    /\ Idle \in Nodes
    /\ Creators \subseteq Nodes
    /\ Exiters \subseteq Nodes

\* stage2 ends in a loop.
ASSUME IdleAssumption == Idle \notin Exiters

VARIABLES
    task_list,    \* task_list has been created
    current,      \* current_task
    tstate,       \* t->state, "none" before the task is created
    self,         \* t->self
    stack,        \* the frames of every thread, the innermost first
    timer_ticks,
    prev_ticks,
    usage,        \* t->usage
    tss, cr3,     \* whose stack and directory are loaded; Null: the kernel's
    outcome       \* "ok", or how the system came to a stop

taskVars == <<task_list, tstate, self>>
timeVars == <<timer_ticks, prev_ticks, usage>>
loadVars == <<tss, cr3>>
vars == <<listVars, taskVars, current, stack, timeVars, loadVars, outcome>>

Lines == {"body", "boot", "alloc", "link", "publish", "self", "enter", "pick",
          "account", "prev", "tss", "cr3", "switch", "switched", "spin"}

Frame == [pc : Lines, ifl : BOOLEAN, t : Pointer, node : Pointer,
          next : Pointer, curr : 0 .. (TickMod - 1)]

NewFrame(pc, ifl) ==
    [pc |-> pc, ifl |-> ifl, t |-> Null, node |-> Null, next |-> Null, curr |-> 0]

Init ==
    /\ ListInit
    /\ task_list = FALSE
    /\ current = Null
    /\ tstate = [t \in Nodes |-> "none"]
    /\ self = [t \in Nodes |-> Null]
    /\ stack = [th \in Pointer |->
                  <<NewFrame(IF th = Null THEN "boot" ELSE "body", TRUE)>>]
    /\ timer_ticks = 0
    /\ prev_ticks = 0
    /\ usage = [t \in Nodes |-> 0]
    /\ tss = Null
    /\ cr3 = Null
    /\ outcome = "ok"

-----------------------------------------------------------------------------

(* The innermost frame of the running thread.                              *)
Top == Head(stack[current])

At(pc) == outcome = "ok" /\ Top.pc = pc

Goto(frame) == stack' = [stack EXCEPT ![current][1] = frame]

Call(frame) == stack' = [stack EXCEPT ![current] = <<frame>> \o @]

Return == stack' = [stack EXCEPT ![current] = Tail(@)]

Stop(how) ==
    /\ outcome' = how
    /\ UNCHANGED <<listVars, taskVars, current, stack, timeVars, loadVars>>

(* timer_irq_handler: irq_handler has acknowledged the interrupt.          *)
timer_irq_handler ==
    /\ outcome = "ok"
    /\ Top.ifl
    /\ timer_ticks' = (timer_ticks + 1) % TickMod
    /\ Call(NewFrame("enter", FALSE))
    /\ UNCHANGED <<listVars, taskVars, current, prev_ticks, usage, loadVars, outcome>>

sys_yield ==
    /\ At("body")
    /\ Call(NewFrame("enter", FALSE))
    /\ UNCHANGED <<listVars, taskVars, current, timeVars, loadVars, outcome>>

(* sys_exit and task_exit; should schedule return, sys_exit spins.         *)
sys_exit ==
    /\ At("body")
    /\ current \in Exiters
    /\ tstate' = [tstate EXCEPT ![current] = "zombie"]
    /\ stack' = [stack EXCEPT ![current] =
                   <<NewFrame("enter", FALSE), NewFrame("spin", FALSE)>> \o @]
    /\ UNCHANGED <<listVars, task_list, self, current, timeVars, loadVars, outcome>>

multitasking_init ==
    /\ At("boot")
    /\ task_list' = TRUE
    /\ Goto(NewFrame("alloc", TRUE))
    /\ UNCHANGED <<listVars, tstate, self, current, timeVars, loadVars, outcome>>

(* A task calls task_create, with interrupts disabled as in a system call. *)
call_task_create ==
    /\ At("body")
    /\ current \in Creators
    /\ \E t \in Nodes : tstate[t] = "none"
    /\ Call(NewFrame("alloc", FALSE))
    /\ UNCHANGED <<listVars, taskVars, current, timeVars, loadVars, outcome>>

(* task_create up to the list: the task, its directory and its stack.      *)
task_create ==
    /\ At("alloc")
    /\ \E t \in Nodes :
          /\ tstate[t] = "none"
          /\ current = Null => t = Idle
          /\ tstate' = [tstate EXCEPT ![t] = "ready"]
          /\ live' = live \cup {t}
          /\ Goto([Top EXCEPT !.pc = "link", !.t = t])
    /\ UNCHANGED <<head, tail, size, nxt, prv, task_list, self, current,
                   timeVars, loadVars, outcome>>

(* list_insert_front, in the two halves of List.                           *)
insert_link ==
    /\ At("link")
    /\ link_front(Top.t)
    /\ Goto([Top EXCEPT !.pc = "publish"])
    /\ UNCHANGED <<head, tail, size, live, taskVars, current, timeVars, loadVars,
                   outcome>>

insert_publish ==
    /\ At("publish")
    /\ publish_front(Top.t)
    /\ Goto([Top EXCEPT !.pc = "self"])
    /\ UNCHANGED <<nxt, prv, live, taskVars, current, timeVars, loadVars, outcome>>

(* t->self = ..., then task_create calls schedule.                         *)
set_self ==
    /\ At("self")
    /\ self' = [self EXCEPT ![Top.t] = Top.t]
    /\ Goto([Top EXCEPT !.pc = "enter"])
    /\ UNCHANGED <<listVars, task_list, tstate, current, timeVars, loadVars, outcome>>

-----------------------------------------------------------------------------

(* context_switch(next): the running thread is left in the call, next goes *)
(* on where it was, out of its own call of schedule or with its body.      *)
context_switch(next) ==
    LET left == [stack EXCEPT ![current][1].pc = "switched"]
    IN  /\ stack' = IF Head(left[next]).pc = "switched"
                    THEN [left EXCEPT ![next] = Tail(@)] ELSE left
        /\ current' = next

(* schedule before the label _pick_next.                                   *)
schedule_early ==
    /\ At("enter")
    /\ ~task_list
    /\ Return
    /\ UNCHANGED <<listVars, taskVars, current, timeVars, loadVars, outcome>>

(* There is no current task but there is a task to start.                  *)
schedule_first ==
    /\ At("enter")
    /\ task_list
    /\ current = Null
    /\ list_peek_front # Null
    /\ context_switch(list_peek_front)
    /\ UNCHANGED <<listVars, taskVars, timeVars, loadVars, outcome>>

(* There is neither: context_switch(NULL) saves and restores the stack     *)
(* pointer through address 0 and returns, and the search for the next task *)
(* runs into kpanic("no tasks left...").                                   *)
schedule_none ==
    /\ At("enter")
    /\ task_list
    /\ current = Null
    /\ list_peek_front = Null
    /\ Stop("panic")

\* Mutant: the search always starts at the front of the list.
schedule_enter_front ==
    /\ At("enter")
    /\ task_list
    /\ current # Null
    /\ Goto([Top EXCEPT !.pc = "pick", !.node = Null])
    /\ UNCHANGED <<listVars, taskVars, current, timeVars, loadVars, outcome>>

(* next_node = current_task->self->next.                                   *)
schedule_enter ==
    /\ At("enter")
    /\ task_list
    /\ current # Null
    /\ Goto([Top EXCEPT !.pc = "pick",
                        !.node = IF self[current] = Null THEN Null
                                 ELSE nxt[self[current]]])
    /\ UNCHANGED <<listVars, taskVars, current, timeVars, loadVars, outcome>>

(* The task _pick_next looks at.                                           *)
Candidate == IF Top.node = Null THEN list_peek_front ELSE Top.node

Dead(t) == t # Null /\ tstate[t] = "zombie"

(* A task that is not dead, or NULL from an empty list.                    *)
pick_next ==
    /\ At("pick")
    /\ Candidate \in live \cup {Null}
    /\ ~Dead(Candidate)
    /\ Goto([Top EXCEPT !.pc = "account", !.next = Candidate])
    /\ UNCHANGED <<listVars, taskVars, current, timeVars, loadVars, outcome>>

\* Mutant: the node is taken off the list without being freed.
task_destroy_leak ==
    /\ At("pick")
    /\ Candidate \in live
    /\ Dead(Candidate)
    /\ self[Candidate] # Null
    /\ IF head = Candidate THEN head' = nxt[head] ELSE UNCHANGED head
    /\ UNCHANGED <<tail, size, nxt, prv, live>>
    /\ UNCHANGED <<taskVars, current, stack, timeVars, loadVars, outcome>>

(* A dead task is destroyed and the search goes on with the same next_node.*)
task_destroy ==
    /\ At("pick")
    /\ Candidate \in live
    /\ Dead(Candidate)
    /\ self[Candidate] # Null
    /\ list_remove_node(self[Candidate])
    /\ UNCHANGED <<taskVars, current, stack, timeVars, loadVars, outcome>>

(* next_node, or the node to remove, is not a node (any more).             *)
pick_freed ==
    /\ At("pick")
    /\ \/ Candidate \notin live \cup {Null}
       \/ Dead(Candidate) /\ self[Candidate] = Null
    /\ Stop("freed")

(* curr_ticks = get_ticks() and the time used by current_task.             *)
account ==
    /\ At("account")
    /\ usage' = [usage EXCEPT ![current] = (@ + timer_ticks - prev_ticks) % TickMod]
    /\ Goto([Top EXCEPT !.pc = "prev", !.curr = timer_ticks])
    /\ UNCHANGED <<listVars, taskVars, current, timer_ticks, prev_ticks, loadVars,
                   outcome>>

\* Mutant: prev_ticks is not brought up to date.
account_prev_skip ==
    /\ At("prev")
    /\ Goto([Top EXCEPT !.pc = "tss"])
    /\ UNCHANGED <<listVars, taskVars, current, timeVars, loadVars, outcome>>

account_prev ==
    /\ At("prev")
    /\ prev_ticks' = Top.curr
    /\ Goto([Top EXCEPT !.pc = "tss"])
    /\ UNCHANGED <<listVars, taskVars, current, timer_ticks, usage, loadVars, outcome>>

(* tss_set_stack(0x10, next->kstack).                                      *)
tss_set_stack ==
    /\ At("tss")
    /\ tss' = Top.next
    /\ Goto([Top EXCEPT !.pc = "cr3"])
    /\ UNCHANGED <<listVars, taskVars, current, timeVars, cr3, outcome>>

\* Mutant: the directory is only switched on the way to another task.
switch_page_directory_lazy ==
    /\ At("cr3")
    /\ cr3' = IF cr3 = Null THEN Top.next ELSE cr3
    /\ Goto([Top EXCEPT !.pc = "switch"])
    /\ UNCHANGED <<listVars, taskVars, current, timeVars, tss, outcome>>

switch_page_directory ==
    /\ At("cr3")
    /\ cr3' = Top.next
    /\ Goto([Top EXCEPT !.pc = "switch"])
    /\ UNCHANGED <<listVars, taskVars, current, timeVars, tss, outcome>>

switch_to_next ==
    /\ At("switch")
    /\ context_switch(Top.next)
    /\ UNCHANGED <<listVars, taskVars, timeVars, loadVars, outcome>>

Halted == outcome # "ok" /\ UNCHANGED vars

(* What the processor does next by itself.                                 *)
Step ==
    \/ multitasking_init
    \/ task_create
    \/ insert_link
    \/ insert_publish
    \/ set_self
    \/ schedule_early
    \/ schedule_first
    \/ schedule_none
    \/ schedule_enter
    \/ pick_next
    \/ task_destroy
    \/ pick_freed
    \/ account
    \/ account_prev
    \/ tss_set_stack
    \/ switch_page_directory
    \/ switch_to_next

Next ==
    \/ Step
    \/ timer_irq_handler
    \/ sys_yield
    \/ sys_exit
    \/ call_task_create
    \/ Halted

(* The processor executes, and the timer ticks.                            *)
Spec == Init /\ [][Next]_vars /\ WF_vars(Step) /\ WF_vars(timer_irq_handler)

-----------------------------------------------------------------------------

(* The running task is never freed under its own feet: neither its task_t, *)
(* nor its stack, nor the page directory in CR3 has been handed to kfree.  *)
RunsOnLiveMemory ==
    outcome = "ok" => {current, cr3, tss} \subseteq live \cup {Null}

(* The tasks task_list leads to.                                           *)
Reachable(n) ==
    \E k \in 0 .. (Cardinality(Nodes) - 1) : foreach_at(k, n)

(* No task is forgotten: a task whose creation has got past the list, and  *)
(* that has not been destroyed, is on task_list, where schedule finds it.  *)
NoTaskLost ==
    \A t \in live :
        \/ Reachable(t)
        \/ \E th \in Pointer : \E k \in DOMAIN stack[th] :
              stack[th][k].t = t /\ stack[th][k].pc \in {"link", "publish"}

Pending == \E th \in Pointer : \E k \in DOMAIN stack[th] : stack[th][k].pc = "prev"

(* Every tick up to prev_ticks is charged to exactly one task, across the  *)
(* wrap-around of the counters and the switch to the first task.           *)
UsageAddsUp ==
    ~Pending => MapThenSumSet(LAMBDA t : usage[t], Nodes) % TickMod = prev_ticks

(* Outside schedule a task runs with its own stack in the TSS and its own  *)
(* directory in CR3; the first task runs with the kernel's until it has    *)
(* been through schedule once.                                             *)
OwnContext ==
    outcome = "ok" /\ At("body") =>
        /\ tss = cr3
        /\ cr3 = current \/ (cr3 = Null /\ current = Idle)

(* Round robin: whatever the others do, every task that is on the list     *)
(* gets the processor again, unless the system has stopped.                *)
EveryTaskRuns ==
    \A t \in Nodes :
        (t \in live /\ tstate[t] = "ready" /\ Reachable(t))
            ~> (current = t \/ outcome # "ok")

(* An exited task does not stay: its memory is eventually given back,      *)
(* unless the system has stopped.                                          *)
ZombiesAreReaped ==
    \A t \in Nodes : (tstate[t] = "zombie") ~> (t \notin live \/ outcome # "ok")

-----------------------------------------------------------------------------

(* task.c:91 "if we picked a dead task, destroy it and try again": the     *)
(* second try does not use what the first has destroyed.                   *)
DestroyThenTryAgain == outcome # "freed"

=============================================================================
