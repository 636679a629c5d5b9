------------------------------ MODULE Process ------------------------------
(***************************************************************************)
(* Process life cycle: kernel/core/process/process.c and thread.c, with the *)
(* process system calls of kernel/core/syscall/syscall.c.                   *)
(*                                                                          *)
(* A process has one user task, named like the process; kernel tasks call   *)
(* the same functions directly.  A system call enters through an interrupt  *)
(* gate, so it runs with interrupts off until it returns or blocks, and is  *)
(* one action up to there.  The context switch does not save the interrupt  *)
(* flag, so a call that slept may resume with interrupts on; it and the     *)
(* calls of kernel tasks are split between critical sections.               *)
(*                                                                          *)
(* Dispatch order is left open; Scheduler models it.  A process_destroy     *)
(* that finds retained handles also finds the task that retains them        *)
(* blocked in its system call, which makes it fail in any case.             *)
(***************************************************************************)
EXTENDS Integers, Sequences, SequencesExt

CONSTANTS
    Procs,      \* process objects
    InitProc,   \* the process with id 7, which adopts orphans
    Kernel,     \* kernel tasks
    Signals,    \* signal numbers
    Targets,    \* bound: the processes that are signalled
    Crews,      \* the sets of kernel tasks that may have been created
    MaxTasks,   \* bound: kernel tasks, and processes besides init, at a time
    None        \* the null pointer; as an address space, the kernel's

ASSUME ProcessAssumption ==
    /\ InitProc \in Procs
    /\ Kernel \cap Procs = {}
    /\ None \notin Procs \cup Kernel
    /\ Signals \subseteq Nat
    /\ Targets \subseteq Procs
    /\ Crews \subseteq SUBSET Kernel
    /\ MaxTasks \in Nat

Tasks == Procs \cup Kernel

VARIABLES
    proc,       \* proc[p]: the fields of a process and of its thread
    sigq,       \* sigq[p]: signal_waiters
    exitq,      \* exitq[p]: exit_waiters
    ktask,      \* ktask[k]: the state of kernel task k
    current,    \* current_task
    curProc,    \* current_process
    active,     \* the process whose page tables are loaded
    pc,         \* pc[t]: where task t is
    held,       \* held[t]: a process pointer t has retained
    local,      \* local[k]: process_destroy's local parent
    theld,      \* theld[k]: the process whose thread k has retained
    leaked      \* leaked[p]: process->lock was left locked

queueVars == <<sigq, exitq>>
ptrVars == <<held, local, theld>>
vars == <<proc, queueVars, ktask, current, curProc, active, pc, ptrVars, leaked>>

\* A process object that kfree has taken back.
Free == [state |-> "FREE", refs |-> 0, table |-> FALSE, parent |-> None,
         space |-> FALSE, task |-> "none", trefs |-> 0,
         pending |-> {}, blocked |-> {}]

-----------------------------------------------------------------------------
(* Functions on the process table.  P is the value of proc they apply to.  *)

Retain(P, p) == [P EXCEPT ![p].refs = @ + 1]

\* process_release: the last reference frees the object.
process_release(P, p) ==
    IF p = None THEN P
    ELSE IF P[p].refs = 0 THEN P
    ELSE IF P[p].refs = 1 THEN [P EXCEPT ![p] = Free]
    ELSE [P EXCEPT ![p].refs = @ - 1]

Children(P, p) == {c \in Procs \ {p} : P[c].table /\ P[c].parent = p}

\* process_reparent_children: init adopts the orphans while it is alive; each
\* orphan gives up its reference to the parent and takes one to init.
process_reparent_children(P, p) ==
    LET orphans == Children(P, p)
        adopted == p # InitProc /\ P[InitProc].table /\ P[InitProc].state # "EXITED"
        newParent == IF adopted THEN InitProc ELSE None
        n == Cardinality(orphans)
    IN
    [q \in Procs |->
        [P[q] EXCEPT
            !.parent = IF q \in orphans THEN newParent ELSE @,
            !.refs = @ + (IF adopted /\ q = InitProc THEN n ELSE 0)
                       - (IF q = p THEN n ELSE 0)]]

\* process_create: a new object, in the table.
process_create(P, c) ==
    [P EXCEPT ![c] = [Free EXCEPT !.state = "NEW", !.refs = 1, !.table = TRUE, !.space = TRUE]]

\* Mutant: the child does not count as a reference to its parent.
Uncounted(P, c, p) == [P EXCEPT ![c].parent = p]

\* process_set_parent: the child holds a reference to its parent.
process_set_parent(P, c, p) == [Retain(P, p) EXCEPT ![c].parent = p]

\* process_load_image, the user stack, process_thread_create_user and
\* process_thread_start: the child's task is queued.
Started(P, c) == [P EXCEPT ![c].state = "READY", ![c].task = "ready"]

\* process_activate's conditions; a process that has a space has a stack.
CanActivate(P, p) == P[p].state \in {"READY", "RUNNING"} /\ P[p].space

process_activate(P, p) == IF CanActivate(P, p) THEN [P EXCEPT ![p].state = "RUNNING"] ELSE P

\* Mutant: a task asleep on a wait queue is destroyed with its node linked.
EvenAsleep(P, p) == P[p].task # "running"

\* process_thread_destroy_all_locked: a task off the CPU goes, unless it
\* sleeps on a wait queue.
ThreadsGo(P, p) == P[p].task \notin {"running", "blocked"}

\* The tests of process_destroy before it changes anything.
Destroyable(P, p) ==
    /\ P[p].trefs = 0
    /\ curProc # p
    /\ P[p].state # "RUNNING"
    /\ sigq[p] = <<>> /\ exitq[p] = <<>>
    /\ ThreadsGo(P, p)

\* Mutant: the page tables in use are freed.
AnySpace(P, p) == P[p].space

\* address_space_destroy refuses the root that is loaded, and an empty one.
SpaceGoes(P, p) == P[p].space /\ active # p

\* process_destroy under process->lock.  Threads and children are gone even if
\* the address space cannot be.
Torn(P, p) == process_reparent_children([P EXCEPT ![p].task = "none"], p)

Emptied(P, p) ==
    [Torn(P, p) EXCEPT ![p].space = FALSE, ![p].state = "EXITED", ![p].parent = None]

\* All of process_destroy, for a caller with interrupts off.
Destroyed(P, p) ==
    IF ~Destroyable(P, p) THEN P
    ELSE IF ~SpaceGoes(P, p) THEN Torn(P, p)
    ELSE process_release(process_release([Emptied(P, p) EXCEPT ![p].table = FALSE],
                                         P[p].parent), p)

-----------------------------------------------------------------------------
(* Tasks                                                                   *)

TaskState(t) == IF t \in Procs THEN proc[t].task ELSE ktask[t]

Running(t, label) == current = t /\ pc[t] = label

Goto(t, label) == pc' = [pc EXCEPT ![t] = label]

\* P with the tasks in ts set to a state; the kernel tasks among them.
UserTasks(P, ts, s) ==
    [p \in Procs |-> IF p \in ts THEN [P[p] EXCEPT !.task = s] ELSE P[p]]
KernelTasks(ts, s) == [k \in Kernel |-> IF k \in ts THEN s ELSE ktask[k]]

\* Everybody on process->lock spins once it is leaked, with interrupts off.
Lockable(p) == ~leaked[p]

\* reparent_children takes the lock of every process in the table.
AllLockable == \A p \in Procs : proc[p].table => Lockable(p)

\* process_activate publishes current_process and loads the page tables.
Activates(p) ==
    /\ curProc' = IF CanActivate(proc, p) THEN p ELSE curProc
    /\ active' = IF CanActivate(proc, p) THEN p ELSE active

SomeoneReady(t) == \E u \in Tasks \ {t} : TaskState(u) = "ready"

Init ==
    /\ proc = [p \in Procs |-> IF p = InitProc
                 THEN [Free EXCEPT !.state = "READY", !.refs = 1, !.table = TRUE,
                                   !.space = TRUE, !.task = "ready"]
                 ELSE Free]
    /\ sigq = [p \in Procs |-> <<>>]
    /\ exitq = [p \in Procs |-> <<>>]
    /\ \E crew \in Crews : ktask = [k \in Kernel |-> IF k \in crew THEN "ready" ELSE "none"]
    /\ current = None
    /\ curProc = None
    /\ active = None
    /\ pc = [t \in Tasks |-> "run"]
    /\ held = [t \in Tasks |-> None]
    /\ local = [k \in Kernel |-> None]
    /\ theld = [k \in Kernel |-> None]
    /\ leaked = [p \in Procs |-> FALSE]

\* scheduler_set_current and the switch: a user task's process is activated.
Dispatch(t) ==
    /\ current = None
    /\ TaskState(t) = "ready"
    /\ t \in Procs => Lockable(t)
    /\ current' = t
    /\ IF t \in Procs
         THEN /\ proc' = process_activate(UserTasks(proc, {t}, "running"), t)
              /\ Activates(t)
              /\ UNCHANGED ktask
         ELSE /\ ktask' = KernelTasks({t}, "running")
              /\ UNCHANGED <<proc, curProc, active>>
    /\ UNCHANGED <<queueVars, pc, ptrVars, leaked>>

\* scheduler_yield, or the timer interrupt.
Preempt(t) ==
    /\ current = t
    /\ SomeoneReady(t)
    /\ current' = None
    /\ proc' = UserTasks(proc, {t}, "ready")
    /\ ktask' = KernelTasks({t}, "ready")
    /\ UNCHANGED <<queueVars, curProc, active, pc, ptrVars, leaked>>

(***************************************************************************)
(* System calls of a user task p                                           *)
(***************************************************************************)

\* The bound on what exists at a time besides init.
Room ==
    Cardinality({q \in Procs \ {InitProc} : proc[q].state # "FREE"})
        + Cardinality({k \in Kernel : ktask[k] # "none"}) < MaxTasks

\* OS_SYSCALL_SPAWN
Spawn(p, c) ==
    /\ Running(p, "run")
    /\ proc[c].state = "FREE" /\ Room
    /\ Lockable(p)
    /\ proc' = Started(process_set_parent(process_create(proc, c), c, p), c)
    /\ leaked' = [leaked EXCEPT ![c] = FALSE]
    /\ UNCHANGED <<queueVars, ktask, current, curProc, active, pc, ptrVars>>

\* A step of OS_SYSCALL_SPAWN after process_set_parent fails (namespace,
\* handles, image, stack, thread): the child is destroyed again.
SpawnFails(p, c) ==
    /\ Running(p, "run")
    /\ proc[c].state = "FREE" /\ Room
    /\ AllLockable
    /\ proc' = Destroyed(process_set_parent(process_create(proc, c), c, p), c)
    /\ UNCHANGED <<queueVars, ktask, current, curProc, active, pc, ptrVars, leaked>>

\* OS_SYSCALL_EXIT: process_exit_current.
process_exit_current(p) ==
    LET woken == ToSet(sigq[p]) \cup ToSet(exitq[p])
        dead == [proc EXCEPT ![p].state = "EXITED", ![p].task = "terminated"]
    IN
    /\ Running(p, "run")
    /\ AllLockable
    /\ proc' = UserTasks(process_reparent_children(dead, p), woken, "ready")
    /\ ktask' = KernelTasks(woken, "ready")
    /\ sigq' = [sigq EXCEPT ![p] = <<>>]
    /\ exitq' = [exitq EXCEPT ![p] = <<>>]
    /\ curProc' = IF curProc = p THEN proc[p].parent ELSE curProc
    /\ current' = None
    /\ UNCHANGED <<active, pc, ptrVars, leaked>>

\* OS_SYSCALL_PROCESS_WAIT goes on after process_wait has returned: the
\* caller's process is activated again and the target released.
WaitReturns(P, p, c) ==
    /\ Lockable(p)
    /\ Activates(p)
    /\ proc' = process_release(process_activate(P, p), c)
    /\ held' = [held EXCEPT ![p] = None]
    /\ Goto(p, "run")
    /\ UNCHANGED <<queueVars, ktask, current, local, theld, leaked>>

\* process_wait finds c alive: sleep, or fail when there is nobody to run.
WaitSleeps(P, p, c) ==
    /\ P[c].state # "EXITED"
    /\ \/ /\ SomeoneReady(p)
          /\ exitq' = [exitq EXCEPT ![c] = Append(@, p)]
          /\ proc' = [P EXCEPT ![p].task = "blocked"]
          /\ held' = [held EXCEPT ![p] = c]
          /\ current' = None
          /\ Goto(p, "wait")
       \/ /\ ~SomeoneReady(p)
          /\ proc' = process_release(P, c)
          /\ held' = [held EXCEPT ![p] = None]
          /\ Goto(p, "run")
          /\ UNCHANGED <<exitq, current>>
    /\ UNCHANGED <<sigq, ktask, curProc, active, local, theld, leaked>>

process_wait_child(p, c) ==
    /\ Running(p, "run")
    /\ proc[c].table /\ c # p
    /\ Lockable(c)
    /\ proc[c].parent = p
    /\ \/ proc[c].state = "EXITED" /\ WaitReturns(Retain(proc, c), p, c)
       \/ WaitSleeps(Retain(proc, c), p, c)

\* The waiter is back in process_wait's loop.
WaitAgain(p) ==
    /\ Running(p, "wait")
    /\ Lockable(held[p])
    /\ \/ /\ proc[held[p]].state = "EXITED"
          /\ Goto(p, "collect")
          /\ UNCHANGED <<proc, queueVars, ktask, current, curProc, active, ptrVars, leaked>>
       \/ WaitSleeps(proc, p, held[p])

WaitCollects(p) ==
    /\ Running(p, "collect")
    /\ WaitReturns(proc, p, held[p])

\* OS_SYSCALL_PROCESS_REAP, with the caller's lookup around the destruction.
Reap(p, c) ==
    /\ Running(p, "run")
    /\ proc[c].table /\ c # p
    /\ AllLockable
    /\ proc[c].parent = p /\ proc[c].state = "EXITED"
    /\ proc' = process_release(Destroyed(Retain(proc, c), c), c)
    /\ UNCHANGED <<queueVars, ktask, current, curProc, active, pc, ptrVars, leaked>>

(***************************************************************************)
(* Signals: from a system call, or from a kernel task.                     *)
(***************************************************************************)

\* scheduler_wake_one on signal_waiters.
WakeSignalWaiter(P, p) ==
    /\ sigq' = [sigq EXCEPT ![p] = IF @ = <<>> THEN @ ELSE Tail(@)]
    /\ LET woken == IF sigq[p] = <<>> THEN {} ELSE {Head(sigq[p])} IN
         /\ proc' = UserTasks(P, woken, "ready")
         /\ ktask' = KernelTasks(woken, "ready")

\* OS_SYSCALL_SIGNAL_SEND and SIGNAL_SEND_TO
process_send_signal(t, p, s) ==
    /\ t \in Procs /\ Running(t, "run")
    /\ p \in Targets
    /\ proc[p].table /\ Lockable(p)
    /\ proc[p].state # "EXITED"
    /\ WakeSignalWaiter([proc EXCEPT ![p].pending = @ \cup {s}], p)
    /\ UNCHANGED <<exitq, current, curProc, active, pc, ptrVars, leaked>>

\* OS_SYSCALL_SIGNAL_MASK
process_set_signal_mask(t, mask) ==
    /\ t \in Targets /\ Running(t, "run")
    /\ Lockable(t)
    /\ proc[t].state # "EXITED"
    /\ proc[t].blocked # mask
    /\ WakeSignalWaiter([proc EXCEPT ![t].blocked = mask], t)
    /\ UNCHANGED <<exitq, current, curProc, active, pc, ptrVars, leaked>>

Available(p) == proc[p].pending \ proc[p].blocked

\* The lowest pending signal that is not blocked leaves pending_signals.
Taken(p) == [proc EXCEPT ![p].pending = @ \ {Min(Available(p))}]

\* OS_SYSCALL_SIGNAL_NEXT
process_take_signal(t) ==
    /\ t \in Procs /\ Running(t, "run")
    /\ Lockable(t)
    /\ Available(t) # {}
    /\ proc' = Taken(t)
    /\ UNCHANGED <<queueVars, ktask, current, curProc, active, pc, ptrVars, leaked>>

(***************************************************************************)
(* Calls of a kernel task k on a process it has retained                   *)
(***************************************************************************)

process_lookup_retain(k, p) ==
    /\ Running(k, "run")
    /\ held[k] = None
    /\ proc[p].table
    /\ proc' = Retain(proc, p)
    /\ held' = [held EXCEPT ![k] = p]
    /\ UNCHANGED <<queueVars, ktask, current, curProc, active, pc, local, theld, leaked>>

KernelRelease(k) ==
    /\ Running(k, "run")
    /\ held[k] # None
    /\ proc' = process_release(proc, held[k])
    /\ held' = [held EXCEPT ![k] = None]
    /\ UNCHANGED <<queueVars, ktask, current, curProc, active, pc, local, theld, leaked>>

\* k goes to sleep on a queue of process p.
KernelBlocks(k, label) ==
    /\ SomeoneReady(k)
    /\ ktask' = [ktask EXCEPT ![k] = "blocked"]
    /\ current' = None
    /\ Goto(k, label)

\* process_wait, called by k: one turn of the loop.
process_wait(k) ==
    LET p == held[k] IN
    /\ Running(k, "run") \/ Running(k, "wait")
    /\ p # None
    /\ Lockable(p)
    /\ \/ /\ proc[p].state # "EXITED"
          /\ KernelBlocks(k, "wait")
          /\ exitq' = [exitq EXCEPT ![p] = Append(@, k)]
       \/ /\ proc[p].state = "EXITED" \/ ~SomeoneReady(k)
          /\ pc[k] = "wait"
          /\ Goto(k, "run")
          /\ UNCHANGED <<exitq, ktask, current>>
    /\ UNCHANGED <<proc, sigq, curProc, active, ptrVars, leaked>>

\* process_wait_signal, one turn of the loop.  Its exited branch returns
\* without unlocking.
process_wait_signal(k) ==
    LET p == held[k] IN
    /\ Running(k, "run") \/ Running(k, "sigwait")
    /\ p # None
    /\ Lockable(p)
    /\ \/ /\ Available(p) # {}
          /\ proc' = Taken(p)
          /\ Goto(k, "run")
          /\ UNCHANGED <<sigq, ktask, current, leaked>>
       \/ /\ Available(p) = {} /\ proc[p].state = "EXITED"
          /\ leaked' = [leaked EXCEPT ![p] = TRUE]
          /\ Goto(k, "run")
          /\ UNCHANGED <<proc, sigq, ktask, current>>
       \/ /\ Available(p) = {} /\ proc[p].state # "EXITED"
          /\ KernelBlocks(k, "sigwait")
          /\ sigq' = [sigq EXCEPT ![p] = Append(@, k)]
          /\ UNCHANGED <<proc, leaked>>
       \/ /\ Available(p) = {} /\ proc[p].state # "EXITED" /\ ~SomeoneReady(k)
          /\ Goto(k, "run")
          /\ UNCHANGED <<proc, sigq, ktask, current, leaked>>
    /\ UNCHANGED <<exitq, curProc, active, ptrVars>>

\* process_send_signal from k: the wakeup follows the unlock.
KernelSend(k, s) ==
    LET p == held[k] IN
    /\ Running(k, "run")
    /\ p \in Targets
    /\ Lockable(p)
    /\ proc[p].state # "EXITED"
    /\ proc' = [proc EXCEPT ![p].pending = @ \cup {s}]
    /\ Goto(k, "sent")
    /\ UNCHANGED <<queueVars, ktask, current, curProc, active, ptrVars, leaked>>

KernelSent(k) ==
    /\ Running(k, "sent")
    /\ WakeSignalWaiter(proc, held[k])
    /\ Goto(k, "run")
    /\ UNCHANGED <<exitq, current, curProc, active, ptrVars, leaked>>

\* process_terminate: the locked part, then every waiter is woken.
process_terminate(k) ==
    LET p == held[k] IN
    /\ Running(k, "run")
    /\ p # None
    /\ Lockable(p)
    /\ proc[p].state # "EXITED" /\ p # curProc
    /\ ThreadsGo(proc, p)
    /\ proc' = [proc EXCEPT ![p].task = "none", ![p].state = "EXITED"]
    /\ Goto(k, "term_signal")
    /\ UNCHANGED <<queueVars, ktask, current, curProc, active, ptrVars, leaked>>

TerminateWakesSignal(k) ==
    /\ Running(k, "term_signal")
    /\ WakeSignalWaiter(proc, held[k])
    /\ IF sigq[held[k]] = <<>> THEN Goto(k, "term_exit") ELSE UNCHANGED pc
    /\ UNCHANGED <<exitq, current, curProc, active, ptrVars, leaked>>

\* Mutant: termination wakes one waiter.
OneWaiter(q) == TRUE

\* The loop over exit_waiters ends when a wakeup finds nobody.
NoWaiterLeft(q) == q = <<>>

TerminateWakesExit(k) ==
    LET q == exitq[held[k]]
        woken == IF q = <<>> THEN {} ELSE {Head(q)}
    IN
    /\ Running(k, "term_exit")
    /\ exitq' = [exitq EXCEPT ![held[k]] = IF q = <<>> THEN q ELSE Tail(q)]
    /\ proc' = UserTasks(proc, woken, "ready")
    /\ ktask' = KernelTasks(woken, "ready")
    /\ IF NoWaiterLeft(q) THEN Goto(k, "run") ELSE UNCHANGED pc
    /\ UNCHANGED <<sigq, current, curProc, active, ptrVars, leaked>>

\* process_destroy: under the lock, then the table, the parent, the object.
process_destroy(k) ==
    LET p == held[k] IN
    /\ Running(k, "run")
    /\ p # None
    /\ AllLockable /\ Lockable(p)
    /\ Destroyable(proc, p)
    /\ IF SpaceGoes(proc, p)
         THEN /\ proc' = Emptied(proc, p)
              /\ local' = [local EXCEPT ![k] = proc[p].parent]
              /\ Goto(k, "destroy_table")
         ELSE /\ proc' = Torn(proc, p)
              /\ UNCHANGED <<local, pc>>
    /\ UNCHANGED <<queueVars, ktask, current, curProc, active, held, theld, leaked>>

DestroyTable(k) ==
    /\ Running(k, "destroy_table")
    /\ proc' = [proc EXCEPT ![held[k]].table = FALSE]
    /\ Goto(k, "destroy_parent")
    /\ UNCHANGED <<queueVars, ktask, current, curProc, active, ptrVars, leaked>>

DestroyParent(k) ==
    /\ Running(k, "destroy_parent")
    /\ proc' = process_release(proc, local[k])
    /\ local' = [local EXCEPT ![k] = None]
    /\ Goto(k, "destroy_self")
    /\ UNCHANGED <<queueVars, ktask, current, curProc, active, held, theld, leaked>>

DestroySelf(k) ==
    /\ Running(k, "destroy_self")
    /\ proc' = process_release(proc, held[k])
    /\ Goto(k, "run")
    /\ UNCHANGED <<queueVars, ktask, current, curProc, active, ptrVars, leaked>>

\* process_thread_lookup and process_thread_release on the main thread.
process_thread_lookup(k) ==
    LET p == held[k] IN
    /\ Running(k, "run")
    /\ p # None /\ theld[k] = None
    /\ Lockable(p)
    /\ proc[p].task # "none"
    /\ proc' = [proc EXCEPT ![p].trefs = @ + 1]
    /\ theld' = [theld EXCEPT ![k] = p]
    /\ UNCHANGED <<queueVars, ktask, current, curProc, active, pc, held, local, leaked>>

process_thread_release(k) ==
    /\ Running(k, "run")
    /\ theld[k] # None
    /\ Lockable(theld[k])
    /\ proc' = [proc EXCEPT ![theld[k]].trefs = @ - 1]
    /\ theld' = [theld EXCEPT ![k] = None]
    /\ UNCHANGED <<queueVars, ktask, current, curProc, active, pc, held, local, leaked>>

-----------------------------------------------------------------------------
Next ==
    \/ \E t \in Tasks : Dispatch(t) \/ Preempt(t)
    \/ \E p \in Procs :
         \/ process_exit_current(p)
         \/ WaitAgain(p) \/ WaitCollects(p)
         \/ process_take_signal(p)
         \/ \E mask \in SUBSET Signals : process_set_signal_mask(p, mask)
         \/ \E c \in Procs :
              \/ Spawn(p, c) \/ SpawnFails(p, c)
              \/ process_wait_child(p, c)
              \/ Reap(p, c)
              \/ \E s \in Signals : process_send_signal(p, c, s)
    \/ \E k \in Kernel :
         \/ KernelRelease(k)
         \/ process_wait(k) \/ process_wait_signal(k)
         \/ KernelSent(k)
         \/ process_terminate(k) \/ TerminateWakesSignal(k) \/ TerminateWakesExit(k)
         \/ process_destroy(k) \/ DestroyTable(k) \/ DestroyParent(k) \/ DestroySelf(k)
         \/ process_thread_lookup(k) \/ process_thread_release(k)
         \/ \E p \in Procs : process_lookup_retain(k, p)
         \/ \E s \in Signals : KernelSend(k, s)

Spec == Init /\ [][Next]_vars

-----------------------------------------------------------------------------
(* Properties                                                              *)

States == {"FREE", "NEW", "READY", "RUNNING", "EXITED"}
TaskStates == {"none", "ready", "running", "blocked", "terminated"}

\* Every field keeps its type, and a task has its place: the one on the CPU is
\* current_task, a blocked one sleeps on one queue.
TypeOK ==
    /\ \A p \in Procs :
         /\ proc[p].state \in States /\ proc[p].refs \in Nat
         /\ proc[p].table \in BOOLEAN /\ proc[p].space \in BOOLEAN
         /\ proc[p].parent \in Procs \cup {None}
         /\ proc[p].task \in TaskStates /\ proc[p].trefs \in Nat
         /\ proc[p].pending \subseteq Signals /\ proc[p].blocked \subseteq Signals
    /\ \A t \in Tasks :
         /\ TaskState(t) = "running" <=> current = t
         /\ TaskState(t) = "blocked" <=>
              \E p \in Procs : t \in ToSet(sigq[p]) \cup ToSet(exitq[p])
    /\ curProc \in Procs \cup {None} /\ active \in Procs \cup {None}
    /\ held \in [Tasks -> Procs \cup {None}]

Holders(p) == {t \in Tasks : held[t] = p}

\* Every reference a process counts has one owner: the table (or the
\* process_destroy that has taken it out of the table and not released it yet),
\* a child, or a lookup in flight.  Adoption, a failed wait, the split
\* destruction and concurrent lookups neither leak a process nor free it early.
ReferencesAccounted ==
    \A p \in Procs :
        proc[p].refs =
            (IF proc[p].table THEN 1 ELSE 0)
            + Cardinality({k \in Kernel : held[k] = p /\ pc[k] \in {"destroy_parent", "destroy_self"}})
            + Cardinality({k \in Kernel : local[k] = p})
            + Cardinality({c \in Procs : proc[c].parent = p})
            + Cardinality(Holders(p))

\* A user task executes in its own page tables, and system calls find its own
\* process (scheduler_set_current's activation, process_wait's caller, exit).
ExecutesInOwnProcess ==
    current \in Procs /\ pc[current] \in {"run", "collect"} => active = current /\ curProc = current

\* The page tables in use are never freed, whoever is destroyed meanwhile.
ActiveSpaceExists == active # None => proc[active].space

\* "destruction refuses to reclaim a process while exit waiters remain", "while
\* any retained thread lookup remains" (docs/ROADMAP.md): a freed process is
\* not current, has no sleepers and no retained thread, and no exited process
\* keeps a sleeper unless its termination is still waking them.
NobodyLeftBehind ==
    \A p \in Procs :
        /\ proc[p].state = "FREE" =>
             curProc # p /\ active # p /\ \A k \in Kernel : theld[k] # p
        /\ proc[p].state \in {"FREE", "EXITED"} =>
             /\ sigq[p] = <<>> \/ \E k \in Kernel : held[k] = p /\ pc[k] = "term_signal"
             /\ exitq[p] = <<>> \/ \E k \in Kernel :
                                     held[k] = p /\ pc[k] \in {"term_signal", "term_exit"}

\* "Process exit and teardown now orphan live children before the parent object
\* is released" (docs/ROADMAP.md): a process that has left through
\* process_exit_current has no children, however long it stays a zombie, and a
\* process no longer in the table is nobody's parent.
OrphansLeave ==
    \A p \in Procs :
        proc[p].task = "terminated" \/ (~proc[p].table /\ proc[p].state = "EXITED") =>
            \A c \in Procs \ {p} : proc[c].parent # p

\* A waiter for a signal does not sleep beside a deliverable one unless a wakeup
\* is due: a woken waiter is on its way, or the sender or the termination is
\* about to wake one.  This is for one signal number: with more, a change of
\* mask makes several deliverable and wakes one waiter.
SignalWakeDue ==
    \A p \in Procs :
        sigq[p] # <<>> /\ Available(p) # {} =>
            \E k \in Kernel : held[k] = p /\ pc[k] \in {"sent", "sigwait", "term_signal"}
                              /\ ktask[k] # "blocked"

\* "Process termination now wakes all blocked signal waiters" (docs/ROADMAP.md),
\* and they return: process_wait_signal leaves no lock behind.
LocksReleased == \A p \in Procs : ~leaked[p]

\* A user task runs in its own process and its own page tables, and these are
\* there: activation, exit and destruction never leave it elsewhere.
OwnSpace == ExecutesInOwnProcess /\ ActiveSpaceExists

\* Termination, exit and destruction strand nobody: no orphan keeps a dead
\* parent, no sleeper stays behind, no signal waiter misses its wakeup.
NobodyStranded == OrphansLeave /\ NobodyLeftBehind /\ SignalWakeDue
=============================================================================
