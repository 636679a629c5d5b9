-------------------------------- MODULE Nvme --------------------------------
(***************************************************************************)
(* The NVMe driver of kernel/drivers/nvme/nvme.c and the memory it lends to *)
(* the controller.                                                          *)
(*                                                                          *)
(* Public calls run one at a time: they come from the boot probes and from  *)
(* system calls, which run with interrupts off.  Each call is one action,   *)
(* built from operators that map a state of driver and controller to the    *)
(* set of states it may end in, one for each answer of the hardware.  What  *)
(* the controller does later (stop, finish a command the driver gave up on) *)
(* and what other users of the frame allocator do are actions of their own. *)
(* A frame stands for one allocation: a queue, a data buffer of any number  *)
(* of pages, or a PRP list.  Queue indices and phases are left out: one     *)
(* command is outstanding at a time, and alloc clears the queue it returns. *)
(***************************************************************************)
EXTENDS Integers, FiniteSets, FiniteSetsExt

CONSTANTS
    NvmeFrames,     \* the allocations the frame allocator can serve
    MaxCommands     \* bound: write commands in a behaviour

ASSUME NvmeAssumption == NvmeFrames \subseteq Nat \ {0} /\ MaxCommands \in Nat

VARIABLES
    nvme,       \* driver, controller and frame allocator: see NvmeState
    other       \* frames in use elsewhere in the kernel

nvmeVars == <<nvme, other>>

NvmeState == [
    regs : BOOLEAN,                 \* active_regs is set
    asq : NvmeFrames \cup {0}, acq : NvmeFrames \cup {0},       \* active_asq, active_acq
    iosq : NvmeFrames \cup {0}, iocq : NvmeFrames \cup {0},     \* active_io_sq, active_io_cq
    ready : BOOLEAN,                \* active_io_ready
    disabled : BOOLEAN,             \* nvme_disabled
    recovery : BOOLEAN,             \* nvme_recovery_ready
    prp : NvmeFrames \cup {0}, list : NvmeFrames \cup {0},      \* nvme_quarantined_prp, _prp_list
    namespace : BOOLEAN,            \* active_namespace_sectors # 0
    ctrl : {"off", "starting", "on", "stopping"},   \* CC.EN and CSTS.RDY
    queues : SUBSET NvmeFrames,     \* the queue frames the controller was given
    inflight : SUBSET NvmeFrames,   \* the buffers of commands it has not finished
    free : SUBSET NvmeFrames,
    stray : BOOLEAN,                \* history: a frame was freed that was not the driver's
    cached : SUBSET (1 .. MaxCommands),     \* writes in the volatile cache
    acked : SUBSET (1 .. MaxCommands),      \* writes reported successful
    issued : 0 .. MaxCommands,
    ok : BOOLEAN ]                  \* the result of the call

-----------------------------------------------------------------------------
(* The frame allocator, as the driver uses it.                             *)

\* physical_alloc_frame hands out the lowest free frame, or 0.
Lowest(F) == IF F = {} THEN 0 ELSE Min(F)

First(S) == Lowest(S.free)
Second(S) == Lowest(S.free \ {First(S)})

Taken(S, F) == [S EXCEPT !.free = @ \ F]

FreeFrames(S, F) ==
    [S EXCEPT !.free = @ \cup (F \ ({0} \cup other)),
              !.stray = @ \/ (F \ {0}) \cap (S.free \cup other) # {}]

Result(S, r) == [S EXCEPT !.ok = r]

-----------------------------------------------------------------------------
(* The controller.                                                         *)

\* CC.EN cleared and CSTS.RDY polled: the controller stops in time, and
\* forgets its commands, or it does not.
Stopped(S) == [S EXCEPT !.ctrl = "off", !.inflight = {}, !.queues = {}]

StopOutcomes(S) ==
    IF S.ctrl \in {"off", "starting"} THEN {Result(Stopped(S), TRUE)}
    ELSE {Result(Stopped(S), TRUE), Result([S EXCEPT !.ctrl = "stopping"], FALSE)}

\* CC.EN set with new admin queues, and CSTS.RDY polled.
EnableOutcomes(S, q) ==
    {Result([S EXCEPT !.ctrl = "on", !.queues = q], TRUE),
     Result([S EXCEPT !.ctrl = "starting", !.queues = q], FALSE)}

\* A command with the given buffers, polled: "done", "error", or "late" when
\* no completion came in time; the buffers then stay with the controller.
Answers(S) == IF S.ctrl = "on" THEN {"done", "error", "late"} ELSE {"late"}

Issue(S, a, buffers) ==
    IF a = "late" /\ S.ctrl = "on" THEN [S EXCEPT !.inflight = @ \cup (buffers \ {0})] ELSE S

nvme_stop_controller(S) == StopOutcomes(S)

\* Queue frames go back only once the controller is known to have stopped.
nvme_abort_controller(S) ==
    {IF T.ok
     THEN FreeFrames([T EXCEPT !.ready = FALSE, !.disabled = TRUE, !.recovery = TRUE,
                                        !.asq = 0, !.acq = 0, !.iosq = 0, !.iocq = 0],
                              {T.asq, T.acq, T.iosq, T.iocq})
     ELSE [T EXCEPT !.ready = FALSE, !.disabled = TRUE, !.recovery = FALSE]
        : T \in StopOutcomes(S)}

\* nvme_submit_admin_words: the result of the command is in ok.
nvme_submit_admin_words(S, prp1) ==
    IF S.disabled \/ ~S.regs \/ S.asq = 0 \/ S.acq = 0 THEN {Result(S, FALSE)}
    ELSE UNION {CASE a = "done" -> {Result(S, TRUE)}
                  [] a = "error" -> {Result(S, FALSE)}
                  [] a = "late" ->
                     {IF T.ok THEN Result(T, FALSE)
                      ELSE [T EXCEPT !.prp = prp1]
                        : T \in nvme_abort_controller(Issue(S, a, {prp1}))}
                : a \in Answers(S)}

\* nvme_initialize_io, from label fail.
InitializeIoFailed(S, sq, cq) ==
    {IF T.ok
     THEN Result(FreeFrames([T EXCEPT !.ready = FALSE, !.iosq = 0, !.iocq = 0],
                                     {sq, cq}), FALSE)
     ELSE [T EXCEPT !.iosq = sq, !.iocq = cq, !.disabled = TRUE]
        : T \in nvme_stop_controller(S)}

CreateQueues(S, sq, cq) ==
    UNION {IF ~T.ok THEN InitializeIoFailed(T, sq, cq)
           ELSE UNION {IF U.ok
                       THEN {[U EXCEPT !.iosq = sq, !.iocq = cq, !.ready = TRUE,
                                       !.queues = @ \cup {sq}]}
                       ELSE InitializeIoFailed(U, sq, cq)
                        : U \in nvme_submit_admin_words([T EXCEPT !.queues = @ \cup {cq}], sq)}
            : T \in nvme_submit_admin_words(S, cq)}

nvme_initialize_io(S) ==
    IF ~S.regs THEN {Result(S, FALSE)}
    ELSE IF Second(S) = 0 THEN {Result(S, FALSE)}
    ELSE CreateQueues(Taken(S, {First(S), Second(S)}), First(S), Second(S))

\* nvme_recover, from the allocation of new admin queues.
Restart(S) ==
    IF Second(S) = 0 THEN {Result(S, FALSE)}
    ELSE UNION {IF T.ok
                THEN nvme_initialize_io([T EXCEPT !.asq = First(S), !.acq = Second(S),
                                                  !.disabled = FALSE, !.recovery = FALSE])
                ELSE {Result(FreeFrames([T EXCEPT !.ctrl = "stopping"],
                                                 {First(S), Second(S)}), FALSE)}
                : T \in EnableOutcomes(Taken(S, {First(S), Second(S)}),
                                       {First(S), Second(S)})}

nvme_recover(S) ==
    IF ~S.disabled \/ ~S.recovery \/ ~S.regs \/ S.asq # 0 \/ S.acq # 0
    THEN {Result(S, ~S.disabled)}
    ELSE Restart(FreeFrames([S EXCEPT !.prp = 0, !.list = 0], {S.prp, S.list}))

-----------------------------------------------------------------------------
(* Reads, writes and flushes.                                              *)

\* Mutant: the buffers go back although the controller may still use them.
FreeAlways(S, data, list) == FreeFrames(S, {data, list})

\* The tail of nvme_io: buffers that are quarantined are kept.
ReleaseBuffers(S, data, list) ==
    FreeFrames(S, (IF data # S.prp THEN {data} ELSE {})
                           \cup (IF list # S.list THEN {list} ELSE {}))

\* One command of nvme_io; w is the number of the write, 0 for a read.
Transfer(S, data, list, w) ==
    UNION {CASE a = "done" ->
                {Result(ReleaseBuffers([S EXCEPT !.cached = @ \cup ({w} \ {0})], data, list), TRUE)}
             [] a = "error" -> {Result(ReleaseBuffers(S, data, list), FALSE)}
             [] a = "late" ->
                {Result(ReleaseBuffers(IF T.ok THEN T
                                       ELSE [T EXCEPT !.prp = data, !.list = list],
                                       data, list), FALSE)
                    : T \in nvme_abort_controller(Issue(S, a, {data, list}))}
           : a \in Answers(S)}

\* nvme_io: long is a transfer of more than two pages, which needs a PRP list.
nvme_io(S, long, w) ==
    UNION {IF T.disabled \/ ~T.ready \/ ~T.namespace THEN {Result(T, FALSE)}
           ELSE IF First(T) = 0 \/ (long /\ Second(T) = 0) THEN {Result(T, FALSE)}
           ELSE IF long
           THEN Transfer(Taken(T, {First(T), Second(T)}), First(T), Second(T), w)
           ELSE Transfer(Taken(T, {First(T)}), First(T), 0, w)
            : T \in (IF S.disabled THEN nvme_recover(S) ELSE {S})}

\* nvme_flush: line 531 sees the fatal bit before anything is submitted.
nvme_flush(S) ==
    IF S.disabled \/ ~S.ready \/ ~S.regs THEN {Result(S, FALSE)}
    ELSE UNION {CASE a = "done" -> {Result([S EXCEPT !.cached = {}], TRUE)}
                  [] a = "error" -> {Result(S, FALSE)}
                  [] a = "late" -> {Result(T, FALSE) : T \in nvme_abort_controller(S)}
                : a \in Answers(S)}

\* nvme_io_range in two chunks; nothing is submitted after a chunk that failed.
nvme_io_range(S, w) ==
    UNION {IF T.ok THEN nvme_io(T, FALSE, w) ELSE {T} : T \in nvme_io(S, TRUE, w)}

Reported(S, w) == IF S.ok THEN [S EXCEPT !.acked = @ \cup {w}] ELSE S

-----------------------------------------------------------------------------
NvmeInit ==
    /\ nvme = [regs |-> FALSE, asq |-> 0, acq |-> 0, iosq |-> 0, iocq |-> 0,
               ready |-> FALSE, disabled |-> FALSE, recovery |-> FALSE,
               prp |-> 0, list |-> 0, namespace |-> FALSE, ctrl |-> "on",
               queues |-> {}, inflight |-> {}, free |-> NvmeFrames, stray |-> FALSE,
               cached |-> {}, acked |-> {}, issued |-> 0, ok |-> FALSE]
    /\ other = {}

NvmeBecomes(outcomes) == /\ nvme' \in outcomes
                     /\ UNCHANGED other

\* nvme_probe, label fail: S.regs tells whether active_regs was set by then.
ProbeFailed(S, asq, acq) ==
    IF S.regs /\ S.disabled THEN {Result(S, FALSE)}
    ELSE {IF ~T.ok THEN [T EXCEPT !.disabled = TRUE]
          ELSE Result(FreeFrames(
                        [T EXCEPT !.regs = FALSE, !.asq = 0, !.acq = 0, !.iosq = 0, !.iocq = 0,
                                  !.ready = FALSE, !.disabled = FALSE, !.recovery = FALSE,
                                  !.prp = 0, !.list = 0],
                        {asq, acq}), FALSE)
            : T \in (IF S.regs THEN nvme_stop_controller(S) ELSE {Result(S, TRUE)})}

\* nvme_probe: the controller is stopped, given admin queues and enabled, and
\* the I/O queues are created.
ProbeOutcomes(S) ==
    UNION {IF ~T.ok THEN ProbeFailed(T, 0, 0)
           ELSE IF Second(T) = 0 THEN ProbeFailed(Taken(T, {First(T)} \ {0}), First(T), 0)
           ELSE UNION {IF ~U.ok THEN ProbeFailed(U, First(T), Second(T))
                       ELSE UNION {IF V.ok THEN {V} ELSE ProbeFailed(V, First(T), Second(T))
                                    : V \in nvme_initialize_io(
                                        [U EXCEPT !.regs = TRUE, !.asq = First(T), !.acq = Second(T),
                                                  !.iosq = 0, !.iocq = 0, !.ready = FALSE])}
                        : U \in EnableOutcomes(Taken(T, {First(T), Second(T)}),
                                               {First(T), Second(T)})}
            : T \in nvme_stop_controller(S)}

nvme_probe ==
    /\ ~nvme.regs
    /\ NvmeBecomes(ProbeOutcomes(nvme))

\* nvme_identify_controller and nvme_identify_namespace: the buffer is freed
\* unless it is the quarantined one.
nvme_identify ==
    /\ First(nvme) # 0
    /\ NvmeBecomes({LET Known == IF T.ok THEN [T EXCEPT !.namespace = TRUE] ELSE T
                IN IF First(nvme) # T.prp THEN FreeFrames(Known, {First(nvme)}) ELSE Known
                : T \in nvme_submit_admin_words(Taken(nvme, {First(nvme)}), First(nvme))})

nvme_read_sector == \E long \in BOOLEAN : NvmeBecomes(nvme_io(nvme, long, 0))

\* nvme_write_sector
nvme_write_sector ==
    /\ nvme.issued < MaxCommands
    /\ LET w == nvme.issued + 1
       IN NvmeBecomes({Reported(U, w) : U \in
                     UNION {IF T.ok THEN nvme_flush(T) ELSE {T}
                            : T \in nvme_io([nvme EXCEPT !.issued = w], FALSE, w)}})

\* nvme_write_sectors
nvme_write_sectors ==
    /\ nvme.issued < MaxCommands
    /\ LET w == nvme.issued + 1
       IN NvmeBecomes({Reported(U, w) : U \in
                     UNION {IF T.ok THEN nvme_flush(T) ELSE {T}
                            : T \in nvme_io_range([nvme EXCEPT !.issued = w], w)}})

nvme_flush_device == NvmeBecomes(nvme_flush(nvme))

\* The controller stops, or becomes ready, after the driver stopped polling.
LateStop ==
    /\ nvme.ctrl = "stopping"
    /\ NvmeBecomes({Stopped(nvme)})

LateReady ==
    /\ nvme.ctrl = "starting"
    /\ NvmeBecomes({[nvme EXCEPT !.ctrl = "on"]})

\* The controller finishes a command the driver gave up on: it writes its
\* buffer and its completion queue.
LateCompletion ==
    /\ nvme.inflight # {}
    /\ NvmeBecomes({[nvme EXCEPT !.inflight = {}]})

\* The volatile cache reaches the medium on its own.
Destage ==
    /\ nvme.cached # {}
    /\ NvmeBecomes({[nvme EXCEPT !.cached = {}]})

\* Another part of the kernel allocates or frees a frame.
OtherTakes ==
    /\ First(nvme) # 0
    /\ other' = other \cup {First(nvme)}
    /\ nvme' = Taken(nvme, {First(nvme)})

OtherGives ==
    \E f \in other :
        /\ other' = other \ {f}
        /\ nvme' = [nvme EXCEPT !.free = @ \cup {f}]

NvmeNext ==
    \/ nvme_probe \/ nvme_identify \/ nvme_read_sector \/ nvme_write_sector
    \/ nvme_write_sectors \/ nvme_flush_device
    \/ LateStop \/ LateReady \/ LateCompletion \/ Destage \/ OtherTakes \/ OtherGives

-----------------------------------------------------------------------------
\* Type correctness of driver, controller and allocator.
NvmeTypeOK == nvme \in NvmeState /\ other \subseteq NvmeFrames /\ other \cap nvme.free = {}

\* A buffer that the controller may still read or write, because its command
\* timed out and no stop was confirmed, is neither free nor in use elsewhere;
\* nor are the queues that the controller will post its completion to.
DmaBuffersHeld ==
    nvme.inflight # {} =>
        (nvme.inflight \cup nvme.queues) \cap (nvme.free \cup other) = {}

\* Every frame the driver frees is one it holds: quarantine, abort, recovery
\* and the error paths of initialisation never give a frame back twice.
NoStrayFree == ~nvme.stray

\* A write call that reported success has left the controller's volatile
\* cache: every write entry point ends with a flush that completed.
WritesDurable == nvme.acked \cap nvme.cached = {}
=============================================================================
