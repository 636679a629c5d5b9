----------------------------- MODULE Scheduler -----------------------------
(***************************************************************************)
(* The scheduler of kernel/sched/core/scheduler.c with its round-robin      *)
(* policy, the wait queues of kernel/core/task/wait_queue.c and the context *)
(* switch of kernel/arch/x86_64/task/context.asm.                           *)
(*                                                                          *)
(* Only the boot processor schedules (timer.c asks for logical_id 0), so    *)
(* one execution is on the CPU at a time: a task's or the boot code's, Host.*)
(* Critical sections (irqsave) are single actions; between them the timer   *)
(* interrupt may strike whenever the interrupt flag is set.  The handler    *)
(* runs with interrupts off, so it is one action.                           *)
(*                                                                          *)
(* A saved context is a stack pointer and a return address: loading it      *)
(* resumes the execution that stored it, provided that execution has not    *)
(* run since.  ctx[k] is that execution, or Stale once it has run again.    *)
(***************************************************************************)
EXTENDS Integers, Sequences, SequencesExt

CONSTANTS
    Kernel,     \* kernel tasks: run with interrupts on, call the scheduler directly
    User,       \* user tasks: enter the kernel by int 0x80, with interrupts off
    Idle,       \* kernel tasks that may serve as idle_task: they only yield
    Queues,     \* wait queues (ipc channels, signal and exit waiters)
    Preempts,   \* values the boot code passes to scheduler_enable_preemption
    Host,       \* the boot code, whose context is host_context
    None,       \* the null pointer
    Stale       \* a context whose execution has run on since it was saved

Tasks == Kernel \cup User \cup Idle

Execs == Tasks \cup {Host}

ASSUME SchedulerAssumption ==
    /\ Kernel \cap User = {} /\ Idle \cap (Kernel \cup User) = {}
    /\ Host \notin Tasks
    /\ {None, Stale} \cap Execs = {}
    /\ None # Stale
    /\ Preempts \subseteq BOOLEAN

VARIABLES
    live,       \* the tasks that are allocated
    state,      \* state[t]: READY, RUNNING, BLOCKED or TERMINATED
    ready,      \* ready_queue
    waiting,    \* waiting[q]: the tasks on wait queue q
    current,    \* current_task
    idle,       \* idle_task
    hostActive, \* host_active
    hostValid,  \* host_context_valid
    preempt,    \* preemption_enabled
    cpu,        \* the execution on the CPU
    iflag,      \* RFLAGS.IF
    ctx,        \* ctx[k]: what resumes when context k is loaded
    pc,         \* pc[e]: where execution e is, or resumes
    prev,       \* prev[e]: its local previous, blocked or finished
    nxt,        \* nxt[e]: its local next
    blockq,     \* blockq[e]: the queue argument of its blocking call
    inHandler,  \* inHandler[e]: it was switched out inside the timer handler
    corrupt     \* a context was overwritten, or loaded when stale

queueVars == <<ready, waiting, state>>
cpuVars == <<cpu, iflag, ctx, inHandler, corrupt>>
modeVars == <<live, idle, preempt, hostActive, hostValid>>
localVars == <<prev, nxt, blockq>>
vars == <<queueVars, current, modeVars, cpuVars, pc, localVars>>

-----------------------------------------------------------------------------
(* Wait queues                                                             *)

On(q, t) == \E i \in DOMAIN q : q[i] = t

task_wait_node_queued(t) == On(ready, t) \/ \E q \in Queues : On(waiting[q], t)

\* task_wait_queue_remove: the node leaves the queue it is on, or nothing happens.
Without(q, t) == SelectSeq(q, LAMBDA x : x # t)

-----------------------------------------------------------------------------
(* Context switch                                                          *)

\* The flag an execution resumes with: the timer's iretq and the bootstrap of a
\* kernel task set it; task_context_switch itself leaves RFLAGS alone.
FlagOnResume(e, flag) == IF inHandler[e] \/ (pc[e] = "new" /\ e \notin User) THEN TRUE ELSE flag

Saved(from) == [ctx EXCEPT ![from] = cpu]

\* task_context_switch(from, to), executed with interrupt flag "flag".  Saving
\* the running execution over another one's context, or loading a stale one,
\* loses an execution: nothing is defined after that.
task_context_switch(from, to, flag, fromHandler) ==
    LET saved  == Saved(from)
        target == saved[to]
    IN
    IF from # cpu \/ target = Stale
    THEN /\ corrupt' = TRUE
         /\ UNCHANGED <<cpu, iflag, ctx, inHandler>>
    ELSE /\ cpu' = target
         /\ iflag' = FlagOnResume(target, flag)
         /\ ctx' = [k \in Execs |-> IF saved[k] = target THEN Stale ELSE saved[k]]
         /\ inHandler' = [inHandler EXCEPT ![cpu] = fromHandler, ![target] = FALSE]
         /\ UNCHANGED corrupt

\* Execution e is on the CPU at a label; nothing is said of a corrupt machine.
At(e, label) == cpu = e /\ pc[e] = label /\ ~corrupt

\* An execution in its own code, about to call into the scheduler.
Calling(e) == At(e, "run")

\* int 0x80 is an interrupt gate; the boot code and kernel tasks just call.
EnterKernel(e) == iflag' = IF e \in User THEN FALSE ELSE iflag

Goto(e, label) == pc' = [pc EXCEPT ![e] = label]

\* The locals of a call die when it returns.
DropLocals(e) ==
    /\ prev' = [prev EXCEPT ![e] = None]
    /\ nxt' = [nxt EXCEPT ![e] = None]
    /\ blockq' = [blockq EXCEPT ![e] = None]

-----------------------------------------------------------------------------
Init ==
    /\ live = {}
    /\ state = [t \in Tasks |-> "READY"]
    /\ ready = <<>>
    /\ waiting = [q \in Queues |-> <<>>]
    /\ current = None
    /\ idle = None
    /\ hostActive = FALSE
    /\ hostValid = FALSE
    /\ preempt = FALSE
    /\ cpu = Host
    /\ iflag = TRUE
    /\ ctx = [e \in Execs |-> Stale]
    /\ pc = [e \in Execs |-> IF e = Host THEN "run" ELSE "new"]
    /\ prev = [e \in Execs |-> None]
    /\ nxt = [e \in Execs |-> None]
    /\ blockq = [e \in Execs |-> None]
    /\ inHandler = [e \in Execs |-> FALSE]
    /\ corrupt = FALSE

(***************************************************************************)
(* Calls that are one critical section.                                    *)
(***************************************************************************)

\* task_create_kernel and task_create_user: a context that starts at the
\* bootstrap, a state of TASK_READY, and no queue.
task_create(e, t) ==
    /\ Calling(e)
    /\ t \notin live
    /\ live' = live \cup {t}
    /\ state' = [state EXCEPT ![t] = "READY"]
    /\ ctx' = [ctx EXCEPT ![t] = t]
    /\ UNCHANGED <<ready, waiting, current, idle, preempt, hostActive, hostValid, cpu,
                   iflag, inHandler, corrupt, pc, localVars>>

StartAllowed(t) == state[t] = "READY" /\ ~task_wait_node_queued(t)

\* process_thread_start, and the boot code's scheduler_enqueue of a new task.
scheduler_start_task(e, t) ==
    /\ Calling(e)
    /\ t \in live \ Idle
    /\ StartAllowed(t)
    /\ ready' = Append(ready, t)
    /\ UNCHANGED <<waiting, state, current, modeVars, cpuVars, pc, localVars>>

\* Mutant: a destruction that forgets the wait queues.
NotRunning(t) == state[t] # "RUNNING"

\* scheduler_remove takes a task off the ready queue only, never the current
\* one; task_destroy_kernel refuses what is still queued or running.
Destroyable(t) ==
    /\ task_wait_node_queued(t) => t # current /\ On(ready, t)
    /\ state[t] # "RUNNING"

\* process_thread_destroy of another task: off the ready queue, then freed; its
\* memory holds nothing until task_create fills it again.
task_destroy_kernel(e, t) ==
    /\ Calling(e)
    /\ t \in live \ Idle
    /\ t # e
    /\ Destroyable(t)
    /\ ready' = Without(ready, t)
    /\ live' = live \ {t}
    /\ ctx' = [ctx EXCEPT ![t] = Stale]
    /\ state' = [state EXCEPT ![t] = "READY"]
    /\ inHandler' = [inHandler EXCEPT ![t] = FALSE]
    /\ Goto(t, "new")
    /\ DropLocals(t)
    /\ UNCHANGED <<waiting, current, idle, preempt, hostActive, hostValid, cpu,
                   iflag, corrupt>>

\* scheduler_block of a task that has not run: the boot code's use of it.
scheduler_block(t, q) ==
    /\ Calling(Host)
    /\ t \in live \ Idle
    /\ pc[t] = "new"
    /\ state[t] # "TERMINATED" /\ ~task_wait_node_queued(t)
    /\ waiting' = [waiting EXCEPT ![q] = Append(@, t)]
    /\ state' = [state EXCEPT ![t] = "BLOCKED"]
    /\ current' = IF current = t THEN None ELSE current
    /\ UNCHANGED <<ready, modeVars, cpuVars, pc, localVars>>

scheduler_wake_one(e, q) ==
    /\ Calling(e)
    /\ waiting[q] # <<>>
    /\ LET t == Head(waiting[q]) IN
         /\ waiting' = [waiting EXCEPT ![q] = Tail(@)]
         /\ IF state[t] = "BLOCKED"
              THEN /\ state' = [state EXCEPT ![t] = "READY"]
                   /\ ready' = Append(ready, t)
              ELSE UNCHANGED <<state, ready>>
    /\ UNCHANGED <<current, modeVars, cpuVars, pc, localVars>>

scheduler_set_idle(t) ==
    /\ Calling(Host)
    /\ t = None \/ t \in live
    /\ idle' = t
    /\ state' = IF t = None THEN state ELSE [state EXCEPT ![t] = "READY"]
    /\ UNCHANGED <<ready, waiting, current, live, preempt, hostActive, hostValid,
                   cpuVars, pc, localVars>>

scheduler_enable_preemption(enabled) ==
    /\ Calling(Host)
    /\ preempt # enabled
    /\ preempt' = enabled
    /\ UNCHANGED <<queueVars, current, live, idle, hostActive, hostValid, cpuVars,
                   pc, localVars>>

(***************************************************************************)
(* Steps shared by yield, block, exit and start.                           *)
(***************************************************************************)

\* Mutant: the boot code's context stands in for the idle task.
HostIsIdle == IF ready = <<>> THEN Host ELSE Head(ready)

\* scheduler_policy_next: the head of the ready queue, or idle_task.
PolicyNext == IF ready = <<>> THEN idle ELSE Head(ready)

scheduler_next(e, label) ==
    /\ nxt' = [nxt EXCEPT ![e] = PolicyNext]
    /\ ready' = IF ready = <<>> THEN ready ELSE Tail(ready)
    /\ state' = IF PolicyNext = None THEN state ELSE [state EXCEPT ![PolicyNext] = "RUNNING"]
    /\ Goto(e, label)
    /\ UNCHANGED <<waiting, current, modeVars, cpuVars, prev, blockq>>

scheduler_set_current(e, t, label) ==
    /\ current' = t
    /\ state' = [state EXCEPT ![t] = "RUNNING"]
    /\ Goto(e, label)
    /\ UNCHANGED <<ready, waiting, modeVars, cpuVars, localVars>>

(***************************************************************************)
(* scheduler_yield                                                         *)
(***************************************************************************)

\* previous = scheduler_current()
scheduler_yield(e) ==
    /\ Calling(e)
    /\ e # Host
    /\ prev' = [prev EXCEPT ![e] = current]
    /\ EnterKernel(e)
    /\ Goto(e, "y_enqueue")
    /\ UNCHANGED <<queueVars, current, modeVars, cpu, ctx, inHandler, corrupt, nxt, blockq>>

\* Mutants: a yield that dispatches without queueing itself, or that queues
\* itself first.
Unqueued(q, t) == q
AtFront(q, t) == <<t>> \o q

\* scheduler_enqueue: its test, and its effect on the ready queue.
EnqueueAllowed(t) == state[t] # "TERMINATED" /\ ~task_wait_node_queued(t)
Enqueued(q, t) == Append(q, t)

YieldEnqueue(e) ==
    /\ At(e, "y_enqueue")
    /\ IF prev[e] = None
         THEN Goto(e, "y_next") /\ UNCHANGED <<ready, state>>
         ELSE IF EnqueueAllowed(prev[e])
                THEN /\ ready' = Enqueued(ready, prev[e])
                     /\ state' = [state EXCEPT ![prev[e]] = "READY"]
                     /\ Goto(e, "y_next")
                ELSE Goto(e, "ret") /\ UNCHANGED <<ready, state>>
    /\ UNCHANGED <<waiting, current, modeVars, cpuVars, localVars>>

\* The code makes previous current again when there is no next.  That branch is
\* dead: previous was queued a step ago, and a tick in between returns because
\* it cannot queue it again.
YieldNext(e) ==
    /\ At(e, "y_next")
    /\ scheduler_next(e, IF PolicyNext # None THEN "y_set" ELSE "ret")

YieldSet(e) ==
    /\ At(e, "y_set")
    /\ scheduler_set_current(e, nxt[e],
          IF prev[e] # None /\ nxt[e] # prev[e] THEN "y_switch" ELSE "ret")

YieldSwitch(e) ==
    /\ At(e, "y_switch")
    /\ task_context_switch(prev[e], nxt[e], iflag, FALSE)
    /\ Goto(e, "ret")
    /\ UNCHANGED <<queueVars, current, modeVars, localVars>>

\* Back to the caller: iretq into user code sets the flag, a kernel task keeps
\* the flag of whoever switched to it.
Return(e) ==
    /\ At(e, "ret")
    /\ iflag' = IF e \in User THEN TRUE ELSE iflag
    /\ DropLocals(e)
    /\ Goto(e, "run")
    /\ UNCHANGED <<queueVars, current, modeVars, cpu, ctx, inHandler, corrupt>>

\* arch_task_bootstrap and arch_user_task_bootstrap reach the task's entry.
Bootstrap(e) ==
    /\ At(e, "new")
    /\ iflag' = TRUE
    /\ Goto(e, "run")
    /\ UNCHANGED <<queueVars, current, modeVars, cpu, ctx, inHandler, corrupt, localVars>>

(***************************************************************************)
(* scheduler_block_current_with_lock                                       *)
(***************************************************************************)

\* The caller holds its object's lock, so interrupts are off until both locks
\* are dropped: queueing, TASK_BLOCKED and clearing current_task are one step.
scheduler_block_current_with_lock(e, q) ==
    /\ Calling(e)
    /\ e \in Tasks \ Idle
    /\ current # None
    /\ state[current] # "TERMINATED"
    /\ ~task_wait_node_queued(current)
    /\ waiting' = [waiting EXCEPT ![q] = Append(@, current)]
    /\ state' = [state EXCEPT ![current] = "BLOCKED"]
    /\ prev' = [prev EXCEPT ![e] = current]
    /\ blockq' = [blockq EXCEPT ![e] = q]
    /\ current' = None
    /\ EnterKernel(e)
    /\ Goto(e, "b_next")
    /\ UNCHANGED <<ready, modeVars, cpu, ctx, inHandler, corrupt, nxt>>

BlockNext(e) ==
    /\ At(e, "b_next")
    /\ scheduler_next(e, IF PolicyNext = None THEN "b_unlink" ELSE "b_set")

\* Nobody else can run: the block is rolled back and reports failure.
BlockUnlink(e) ==
    /\ At(e, "b_unlink")
    /\ waiting' = [waiting EXCEPT ![blockq[e]] = Without(@, prev[e])]
    /\ Goto(e, "b_restore")
    /\ UNCHANGED <<ready, state, current, modeVars, cpuVars, localVars>>

\* Mutant: the rollback forgets current_task.
RollbackKeepsNone(t) == None

RollbackCurrent(t) == t

BlockRestore(e) ==
    /\ At(e, "b_restore")
    /\ state' = [state EXCEPT ![prev[e]] = "RUNNING"]
    /\ current' = RollbackCurrent(prev[e])
    /\ Goto(e, "ret")
    /\ UNCHANGED <<ready, waiting, modeVars, cpuVars, localVars>>

BlockSet(e) ==
    /\ At(e, "b_set")
    /\ scheduler_set_current(e, nxt[e], "b_switch")

BlockSwitch(e) ==
    /\ At(e, "b_switch")
    /\ task_context_switch(prev[e], nxt[e], iflag, FALSE)
    /\ Goto(e, "ret")
    /\ UNCHANGED <<queueVars, current, modeVars, localVars>>

(***************************************************************************)
(* scheduler_task_exit                                                     *)
(***************************************************************************)

scheduler_task_exit(e) ==
    /\ Calling(e)
    /\ e \in Tasks \ Idle
    /\ prev' = [prev EXCEPT ![e] = current]
    /\ EnterKernel(e)
    /\ Goto(e, IF current = None THEN "halt" ELSE "x_term")
    /\ UNCHANGED <<queueVars, current, modeVars, cpu, ctx, inHandler, corrupt, nxt, blockq>>

ExitTerminate(e) ==
    /\ At(e, "x_term")
    /\ state' = [state EXCEPT ![prev[e]] = "TERMINATED"]
    /\ current' = None
    /\ Goto(e, "x_next")
    /\ UNCHANGED <<ready, waiting, modeVars, cpuVars, localVars>>

ExitNext(e) ==
    /\ At(e, "x_next")
    /\ scheduler_next(e, IF PolicyNext = None THEN "x_host" ELSE "x_set")

ExitSet(e) ==
    /\ At(e, "x_set")
    /\ scheduler_set_current(e, nxt[e], "x_switch")

\* A terminated execution that is ever resumed falls through to the host.
ExitSwitch(e) ==
    /\ At(e, "x_switch")
    /\ task_context_switch(prev[e], nxt[e], iflag, FALSE)
    /\ Goto(e, "x_host")
    /\ UNCHANGED <<queueVars, current, modeVars, localVars>>

ExitToHost(e) ==
    /\ At(e, "x_host")
    /\ hostValid
    /\ task_context_switch(prev[e], Host, iflag, FALSE)
    /\ Goto(e, "halt")
    /\ UNCHANGED <<queueVars, current, modeVars, localVars>>

(***************************************************************************)
(* scheduler_start, called by the boot code only.                          *)
(***************************************************************************)

scheduler_start ==
    /\ Calling(Host)
    /\ ~hostActive /\ current = None
    /\ Goto(Host, "s_next")
    /\ UNCHANGED <<queueVars, current, modeVars, cpuVars, localVars>>

StartNext ==
    /\ At(Host, "s_next")
    /\ scheduler_next(Host, IF PolicyNext \in {None, idle} THEN "ret" ELSE "s_mark")

StartMark ==
    /\ At(Host, "s_mark")
    /\ hostActive' = TRUE
    /\ hostValid' = TRUE
    /\ Goto(Host, "s_set")
    /\ UNCHANGED <<queueVars, current, live, idle, preempt, cpuVars, localVars>>

StartSet ==
    /\ At(Host, "s_set")
    /\ scheduler_set_current(Host, nxt[Host], "s_switch")

StartSwitch ==
    /\ At(Host, "s_switch")
    /\ task_context_switch(Host, nxt[Host], iflag, FALSE)
    /\ Goto(Host, "s_done")
    /\ UNCHANGED <<queueVars, current, modeVars, localVars>>

StartDone ==
    /\ At(Host, "s_done")
    /\ hostActive' = FALSE
    /\ hostValid' = FALSE
    /\ DropLocals(Host)
    /\ Goto(Host, "run")
    /\ UNCHANGED <<queueVars, current, live, idle, preempt, cpuVars>>

(***************************************************************************)
(* scheduler_timer_interrupt.  With preemption off, no current task, a      *)
(* current task that is already queued, or nobody else ready, the handler   *)
(* leaves everything as it was.                                             *)
(***************************************************************************)
scheduler_timer_interrupt ==
    /\ iflag /\ ~corrupt
    /\ preempt /\ current # None
    /\ EnqueueAllowed(current)
    /\ ready # <<>>
    /\ LET next == Head(ready) IN
         /\ ready' = Append(Tail(ready), current)
         /\ state' = [state EXCEPT ![current] = "READY", ![next] = "RUNNING"]
         /\ current' = next
         /\ task_context_switch(current, next, FALSE, TRUE)
    /\ UNCHANGED <<waiting, modeVars, pc, localVars>>

-----------------------------------------------------------------------------
Steps(e) ==
    \/ YieldEnqueue(e) \/ YieldNext(e) \/ YieldSet(e) \/ YieldSwitch(e)
    \/ BlockNext(e) \/ BlockUnlink(e) \/ BlockRestore(e) \/ BlockSet(e) \/ BlockSwitch(e)
    \/ ExitTerminate(e) \/ ExitNext(e) \/ ExitSet(e) \/ ExitSwitch(e) \/ ExitToHost(e)
    \/ Return(e) \/ Bootstrap(e)

HostSteps == StartNext \/ StartMark \/ StartSet \/ StartSwitch \/ StartDone

Next ==
    \/ \E e \in Execs :
         \/ Steps(e)
         \/ scheduler_yield(e)
         \/ scheduler_task_exit(e)
         \/ \E q \in Queues :
              scheduler_block_current_with_lock(e, q) \/ scheduler_wake_one(e, q)
         \/ \E t \in Tasks :
              task_create(e, t) \/ scheduler_start_task(e, t) \/ task_destroy_kernel(e, t)
    \/ scheduler_start
    \/ HostSteps
    \/ \E t \in Tasks, q \in Queues : scheduler_block(t, q)
    \/ \E t \in Idle \cup {None} : scheduler_set_idle(t)
    \/ \E b \in Preempts : scheduler_enable_preemption(b)
    \/ scheduler_timer_interrupt

Spec == Init /\ [][Next]_vars

\* The scheduler's own code makes progress; kernel service tasks loop on
\* scheduler_yield (network_runtime_task, input_runtime_task), and the boot code
\* calls scheduler_start once tasks are queued.
FairSpec ==
    /\ Spec
    /\ \A e \in Execs : WF_vars(Steps(e))
    /\ \A e \in Kernel \cup Idle : WF_vars(scheduler_yield(e))
    /\ WF_vars(scheduler_start /\ ready # <<>>)
    /\ WF_vars(HostSteps)

-----------------------------------------------------------------------------
(* Properties                                                              *)

States == {"READY", "RUNNING", "BLOCKED", "TERMINATED"}

Labels == {"new", "run", "ret", "halt", "y_enqueue", "y_next", "y_set",
           "y_switch", "b_next", "b_unlink", "b_restore", "b_set", "b_switch",
           "x_term", "x_next", "x_set", "x_switch", "x_host",
           "s_next", "s_mark", "s_set", "s_switch", "s_done"}

\* Every field keeps its type.
TypeOK ==
    /\ live \subseteq Tasks
    /\ state \in [Tasks -> States]
    /\ ToSet(ready) \subseteq Tasks
    /\ \A q \in Queues : ToSet(waiting[q]) \subseteq Tasks
    /\ current \in Tasks \cup {None}
    /\ idle \in Idle \cup {None}
    /\ {hostActive, hostValid, preempt, iflag, corrupt} \subseteq BOOLEAN
    /\ cpu \in Execs
    /\ ctx \in [Execs -> Execs \cup {Stale}]
    /\ pc \in [Execs -> Labels]
    /\ prev \in [Execs -> Tasks \cup {None}]
    /\ nxt \in [Execs -> Tasks \cup {None}]
    /\ blockq \in [Execs -> Queues \cup {None}]
    /\ inHandler \in [Execs -> BOOLEAN]

\* A task's one wait node is on one queue at most, once, and its state says
\* which kind: READY on the ready queue, BLOCKED on a wait queue (enqueue's
\* duplicate rejection, scheduler_wake_one and the block rollback together).
OneQueuePerTask ==
    /\ IsInjective(ready)
    /\ \A t \in ToSet(ready) :
         state[t] = "READY" /\ \A q \in Queues : ~On(waiting[q], t)
    /\ \A q \in Queues :
         /\ IsInjective(waiting[q])
         /\ \A t \in ToSet(waiting[q]) :
              state[t] = "BLOCKED" /\ \A r \in Queues \ {q} : ~On(waiting[r], t)

\* No task is lost: one that has run and is READY is queued, one that is
\* BLOCKED waits somewhere, unless it is the execution undoing its own block.
NoLostTask ==
    \A t \in live \ Idle :
        /\ state[t] = "READY" /\ pc[t] # "new" => On(ready, t)
        /\ state[t] = "BLOCKED" =>
             (\E q \in Queues : On(waiting[q], t)) \/ At(t, "b_restore")

\* While a task executes its own code, the scheduler knows it as current_task
\* and no other task counts as running (scheduler_set_current is always
\* followed by the switch to that task, and a failed block is undone).
CurrentExecutes ==
    cpu \in Tasks /\ pc[cpu] = "run" =>
        /\ current = cpu
        /\ \A t \in Tasks \ Idle : state[t] = "RUNNING" /\ t \in live => t = cpu

\* Whatever is allocated, not terminated and off the CPU can be resumed where
\* it stopped: its saved context belongs to it and is up to date, and so does
\* the boot code's while tasks run.  "Timer-driven scheduler preemption now
\* saves and rotates live kernel-task contexts from the timer interrupt"
\* (docs/ROADMAP.md).
ContextsIntact ==
    /\ ~corrupt
    /\ \A t \in live \ {cpu} : state[t] # "TERMINATED" => ctx[t] = t
    /\ cpu # Host => hostValid /\ ctx[Host] = Host

\* The same for cooperative scheduling, up to the first time the boot code
\* enables preemption: yield, block and exit save and load the right contexts.
CooperativeContexts == ~preempt => ContextsIntact

\* A destroyed task is never reached again: no queue, current_task or the CPU
\* refers to it (task_destroy_kernel against exit and dispatch).
DestroyedUnreachable ==
    /\ cpu = Host \/ cpu \in live
    /\ current = None \/ current \in live
    /\ ToSet(ready) \subseteq live
    /\ \A q \in Queues : ToSet(waiting[q]) \subseteq live

\* Round robin: a queued task is dispatched, or destroyed, eventually, as long
\* as no user task keeps the CPU for ever (kernel tasks keep yielding) and no
\* context was overwritten.
QueuedIsDispatched ==
    []<>(cpu \notin User) =>
        \A t \in Tasks : On(ready, t) ~> (cpu = t \/ t \notin live \/ corrupt)

\* Every runnable task is on exactly one queue, and none is lost between two
\* critical sections of yield, block, wake and exit.
TasksQueuedOnce == OneQueuePerTask /\ NoLostTask

\* The task that executes is the one current_task names whenever it may be
\* asked, and cooperative switches resume the execution they saved.
ContextsSound == CurrentExecutes /\ CooperativeContexts
=============================================================================
