------------------------------ MODULE Registry ------------------------------
(***************************************************************************)
(* The directories of file system nodes: the root directory of             *)
(* src/kernel/fs/rootfs.c and the device directory of                      *)
(* src/kernel/fs/devfs.c, each a list of nodes behind a spin lock          *)
(* (src/kernel/sys/spinlock.c), used by tasks the timer preempts.          *)
(*                                                                         *)
(* A list of nodes is the sequence of their names, in the order foreach    *)
(* visits them (ListRefinement).  A node never leaves its list and its     *)
(* next pointer never changes, so the list a task has read stays what it   *)
(* was.  One test of the lock, one round of foreach, linking a node and    *)
(* publishing it are a step each.                                          *)
(***************************************************************************)
EXTENDS Integers, Sequences, FiniteSets

CONSTANTS
    Callers,        \* the tasks that use the directories
    Names,        \* names of nodes
    MaxNodes,     \* bound on the nodes of one directory
    ReadsRoot,    \* the tasks that call rootfs_readdir
    WritesRoot,   \* the tasks that call fs_register
    NotFound      \* NULL

Root == "root"
Dev == "dev"
Dirs == {Root, Dev}

ASSUME RegistryAssumption ==
    /\ MaxNodes \in Nat
    /\ ReadsRoot \subseteq Callers /\ WritesRoot \subseteq Callers
    /\ NotFound \notin Names

VARIABLES
    lock,        \* rootfs_lock and devfs_lock
    nodes,       \* root_nodes and devlist
    root_files,
    op           \* what a task is doing

dirVars == <<lock, nodes, root_files, op>>

Lines == {"idle", "lock", "begin", "scan", "insert", "publish", "count", "unlock",
          "entry"}

Kinds == {"register", "finddir", "readdir"}

(* A call: the line it is at, the directory, its argument (a name or an    *)
(* index), the nodes foreach has seen, the list from the node it is at (or *)
(* from t->next, when inserting t), and what it will return.               *)
Call == [pc : Lines, kind : Kinds, dir : Dirs, name : Names \cup {NotFound},
         index : Nat, seen : Nat, rest : Seq(Names), ret : Names \cup {NotFound}]

Idle == [pc |-> "idle", kind |-> "finddir", dir |-> Root, name |-> NotFound,
         index |-> 0, seen |-> 0, rest |-> <<>>, ret |-> NotFound]

TypeOK ==
    /\ lock \in [Dirs -> BOOLEAN]
    /\ nodes \in [Dirs -> Seq(Names)]
    /\ root_files \in Nat
    /\ op \in [Callers -> Call]

DirsInit ==
    /\ lock = [d \in Dirs |-> FALSE]
    /\ nodes = [d \in Dirs |-> <<>>]
    /\ root_files = 0
    /\ op = [t \in Callers |-> Idle]

-----------------------------------------------------------------------------

Goto(t, pc) == op' = [op EXCEPT ![t].pc = pc]

(* fs_register and devfs_register, rootfs_finddir and devfs_finddir,       *)
(* devfs_readdir: all begin with spin_lock.                                *)
call_register(t, d, name) ==
    /\ op[t].pc = "idle"
    /\ d = Root => t \in WritesRoot
    /\ Len(nodes[d]) < MaxNodes
    /\ op' = [op EXCEPT ![t] = [Idle EXCEPT !.pc = "lock", !.kind = "register",
                                            !.dir = d, !.name = name]]
    /\ UNCHANGED <<lock, nodes, root_files>>

call_finddir(t, d, name) ==
    /\ op[t].pc = "idle"
    /\ op' = [op EXCEPT ![t] = [Idle EXCEPT !.pc = "lock", !.dir = d, !.name = name]]
    /\ UNCHANGED <<lock, nodes, root_files>>

call_devfs_readdir(t, index) ==
    /\ op[t].pc = "idle"
    /\ op' = [op EXCEPT ![t] = [Idle EXCEPT !.pc = "lock", !.kind = "readdir",
                                            !.dir = Dev, !.index = index]]
    /\ UNCHANGED <<lock, nodes, root_files>>

(* rootfs_readdir does not take the lock; it returns at once for an index  *)
(* that is out of range.                                                   *)
rootfs_readdir(t, index) ==
    /\ op[t].pc = "idle"
    /\ t \in ReadsRoot
    /\ index < root_files
    /\ op' = [op EXCEPT ![t] = [Idle EXCEPT !.pc = "entry", !.kind = "readdir",
                                            !.index = index]]
    /\ UNCHANGED <<lock, nodes, root_files>>

(* list_get_node_by_index and the copy of the entry.  Without a node, what *)
(* is read through NULL is no node either (Boot: NullPageIsolated).        *)
rootfs_entry(t) ==
    /\ op[t].pc = "entry"
    /\ op' = [op EXCEPT ![t].pc = "unlock",
                        ![t].ret = IF op[t].index < Len(nodes[Root])
                                   THEN nodes[Root][op[t].index + 1] ELSE NotFound]
    /\ UNCHANGED <<lock, nodes, root_files>>

(* The test-and-set that succeeds; one that fails changes nothing.         *)
spin_lock(t) ==
    /\ op[t].pc = "lock"
    /\ ~lock[op[t].dir]
    /\ lock' = [lock EXCEPT ![op[t].dir] = TRUE]
    /\ Goto(t, "begin")
    /\ UNCHANGED <<nodes, root_files>>

(* foreach reads the head of the list.                                     *)
foreach_begin(t) ==
    /\ op[t].pc = "begin"
    /\ op' = [op EXCEPT ![t].pc = "scan", ![t].rest = nodes[op[t].dir]]
    /\ UNCHANGED <<lock, nodes, root_files>>

(* The node foreach is at, and whether the call is looking for it.         *)
Here(t) == Head(op[t].rest)

Matches(t) ==
    IF op[t].kind = "readdir" THEN op[t].index = op[t].seen
    ELSE op[t].name = Here(t)

\* Mutant: foreach does not move on.
foreach_next_stays(t) ==
    /\ op[t].pc = "scan"
    /\ op[t].rest # <<>>
    /\ ~Matches(t)
    /\ UNCHANGED dirVars

(* A round of foreach that goes on to the next node.                       *)
foreach_next(t) ==
    /\ op[t].pc = "scan"
    /\ op[t].rest # <<>>
    /\ ~Matches(t)
    /\ op' = [op EXCEPT ![t].seen = @ + 1, ![t].rest = Tail(@)]
    /\ UNCHANGED <<lock, nodes, root_files>>

\* Mutant: registering a name that exists goes on.
foreach_found_ignored(t) ==
    /\ op[t].pc = "scan"
    /\ op[t].rest # <<>>
    /\ Matches(t)
    /\ op' = [op EXCEPT ![t].pc = IF op[t].kind = "register" THEN "insert" ELSE "unlock",
                        ![t].ret = IF op[t].kind = "readdir" THEN NotFound ELSE Here(t)]
    /\ UNCHANGED <<lock, nodes, root_files>>

(* A round of foreach that ends the search.  Registering fails; finddir    *)
(* has its result; devfs_readdir answers devfs_dirent, which is never      *)
(* allocated and therefore NULL.                                           *)
foreach_found(t) ==
    /\ op[t].pc = "scan"
    /\ op[t].rest # <<>>
    /\ Matches(t)
    /\ op' = [op EXCEPT ![t].pc = "unlock",
                        ![t].ret = IF op[t].kind = "readdir" THEN NotFound ELSE Here(t)]
    /\ UNCHANGED <<lock, nodes, root_files>>

\* Mutant: the last node is not looked at.
foreach_end_early(t) ==
    /\ op[t].pc = "scan"
    /\ Len(op[t].rest) =< 1
    /\ Goto(t, IF op[t].kind = "register" THEN "insert" ELSE "unlock")
    /\ UNCHANGED <<lock, nodes, root_files>>

foreach_end(t) ==
    /\ op[t].pc = "scan"
    /\ op[t].rest = <<>>
    /\ Goto(t, IF op[t].kind = "register" THEN "insert" ELSE "unlock")
    /\ UNCHANGED <<lock, nodes, root_files>>

(* list_insert_front, up to t->next = list->head.                          *)
link_front(t) ==
    /\ op[t].pc = "insert"
    /\ op' = [op EXCEPT ![t].pc = "publish", ![t].rest = nodes[op[t].dir]]
    /\ UNCHANGED <<lock, nodes, root_files>>

(* The rest of it: list->head = t.                                         *)
publish_front(t) ==
    /\ op[t].pc = "publish"
    /\ nodes' = [nodes EXCEPT ![op[t].dir] = <<op[t].name>> \o op[t].rest]
    /\ Goto(t, IF op[t].dir = Root THEN "count" ELSE "unlock")
    /\ UNCHANGED <<lock, root_files>>

(* root_files++: one instruction with -Os.                                 *)
count_file(t) ==
    /\ op[t].pc = "count"
    /\ root_files' = root_files + 1
    /\ Goto(t, "unlock")
    /\ UNCHANGED <<lock, nodes>>

(* spin_unlock and the return.                                             *)
spin_unlock(t) ==
    /\ op[t].pc = "unlock"
    /\ lock' = [lock EXCEPT ![op[t].dir] = FALSE]
    /\ op' = [op EXCEPT ![t] = Idle]
    /\ UNCHANGED <<nodes, root_files>>

Step(t) ==
    \/ rootfs_entry(t)
    \/ spin_lock(t)
    \/ foreach_begin(t)
    \/ foreach_next(t)
    \/ foreach_found(t)
    \/ foreach_end(t)
    \/ link_front(t)
    \/ publish_front(t)
    \/ count_file(t)
    \/ spin_unlock(t)

DirsNext ==
    \E t \in Callers :
        \/ \E d \in Dirs, name \in Names : call_register(t, d, name)
        \/ \E d \in Dirs, name \in Names : call_finddir(t, d, name)
        \/ \E index \in 0 .. MaxNodes : call_devfs_readdir(t, index)
        \/ \E index \in 0 .. MaxNodes : rootfs_readdir(t, index)
        \/ Step(t)

(* The scheduler runs every task again and again (EveryTaskRuns).          *)
DirsSpec == DirsInit /\ [][DirsNext]_dirVars /\ \A t \in Callers : WF_dirVars(Step(t))

-----------------------------------------------------------------------------

Holds(t, d) ==
    /\ op[t].dir = d
    /\ op[t].pc \in {"begin", "scan", "insert", "publish", "count", "unlock"}

(* rootfs_readdir gives back a lock it has not taken; a directory nobody   *)
(* reads with it is guarded by its lock.                                   *)
Guarded == IF ReadsRoot = {} THEN Dirs ELSE {Dev}

(* The spin lock excludes: no two tasks are between lock and unlock of the *)
(* same directory, and the lock is taken exactly while one of them is.     *)
LockExcludes ==
    \A d \in Guarded :
        /\ lock[d] <=> \E t \in Callers : Holds(t, d)
        /\ \A t, u \in Callers : Holds(t, d) /\ Holds(u, d) => t = u

(* A name is registered at most once per directory, although it is looked  *)
(* up and inserted in separate steps.                                      *)
UniqueNames ==
    \A d \in Guarded :
        \A j, k \in DOMAIN nodes[d] : nodes[d][j] = nodes[d][k] => j = k

Registered(d, name) == \E k \in DOMAIN nodes[d] : nodes[d][k] = name

(* finddir answers for the directory as it is when it returns: it fails    *)
(* only if the name is not there, whoever registered it meanwhile.         *)
LookupsAreRight ==
    \A t \in Callers :
        op[t].pc = "unlock" /\ op[t].kind = "finddir" /\ op[t].dir \in Guarded =>
            op[t].ret = IF Registered(op[t].dir, op[t].name) THEN op[t].name ELSE NotFound

(* A lock that is taken is given back, on every path of every caller.      *)
LocksAreReleased == \A d \in Dirs : lock[d] ~> ~lock[d]

=============================================================================
