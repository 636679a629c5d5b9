-------------------------------- MODULE Ahci --------------------------------
(***************************************************************************)
(* The AHCI driver of kernel/drivers/ahci/ahci.c: port bring-up, the one    *)
(* command slot the driver uses, and the memory it lends to the host bus    *)
(* adapter (HBA).                                                           *)
(*                                                                          *)
(* Every public call holds ahci_lock with interrupts off from its first     *)
(* test to its last store, so it is one action; it maps a state to the set  *)
(* of states it may end in, one for each answer of the HBA.  The HBA acts   *)
(* on its own between calls.  A frame stands for one allocation.  The two   *)
(* LBA modes and the PRDT layout are left out: no property depends on them. *)
(***************************************************************************)
EXTENDS Integers, FiniteSets, FiniteSetsExt

CONSTANTS
    Ports,          \* implemented ports with a SATA disk behind them
    AhciFrames,     \* the allocations the frame allocator can serve
    StorageSlots,   \* free places in the storage registry
    MaxDiskWrites   \* bound: write calls in a behaviour

ASSUME AhciAssumption ==
    /\ Ports \subseteq 0 .. 31
    /\ AhciFrames \subseteq Nat \ {0}
    /\ StorageSlots \in Nat
    /\ MaxDiskWrites \in Nat

Frame0 == AhciFrames \cup {0}

VARIABLE ahci
ahciVars == <<ahci>>

AhciState == [
    phase : {"start", "probed", "up", "failed"},    \* how far ahci_initialize got
    clb : [Ports -> Frame0], fis : [Ports -> Frame0],   \* port_state[p]
    identified : [Ports -> BOOLEAN],
    engine : [Ports -> {"stopped", "running", "stopping"}],     \* PxCMD
    issued : [Ports -> SUBSET AhciFrames],  \* the buffers of the command in PxCI
    linkError : [Ports -> BOOLEAN],         \* an error cause in PxIS or PxSERR
    pending : [Ports -> BOOLEAN],           \* an error in ahci_pending_port_status
    ready : SUBSET Ports,                   \* ready_port_mask
    port : Ports \cup {-1}, list : Frame0,  \* active_port, active_command_list
    sectors : BOOLEAN,                      \* active_sector_count # 0
    table : Frame0, data : Frame0,          \* active_command_table, active_data
    disabled : BOOLEAN,                     \* ahci_io_disabled
    published : SUBSET Ports,               \* ports in the storage registry
    registered : BOOLEAN,                   \* ahci_storage_registered
    free : SUBSET AhciFrames,
    stray : BOOLEAN,                        \* history: a free frame was freed
    cached : SUBSET (1 .. MaxDiskWrites),   \* writes in the disk's volatile cache
    acked : SUBSET (1 .. MaxDiskWrites),    \* writes reported successful
    writes : 0 .. MaxDiskWrites,
    ok : BOOLEAN ]

-----------------------------------------------------------------------------
LowestOf(F) == IF F = {} THEN 0 ELSE Min(F)
FirstFree(S) == LowestOf(S.free)
SecondFree(S) == LowestOf(S.free \ {FirstFree(S)})

Take(S, F) == [S EXCEPT !.free = @ \ F]

GiveBack(S, F) ==
    [S EXCEPT !.free = @ \cup (F \ {0}), !.stray = @ \/ (F \ {0}) \cap S.free # {}]

Return(S, r) == [S EXCEPT !.ok = r]

\* PxCMD.ST and FRE cleared and CR and FR polled.  A port that stops drops its
\* command.
StopPort(S, p) ==
    {Return([S EXCEPT !.engine[p] = "stopped", !.issued[p] = {}], TRUE)}
    \cup (IF S.engine[p] = "stopped" THEN {}
          ELSE {Return([S EXCEPT !.engine[p] = "stopping"], FALSE)})

\* The error causes are cleared, and the engine runs again.
ahci_stop_engine(S) ==
    {IF T.ok THEN [T EXCEPT !.linkError[S.port] = FALSE, !.engine[S.port] = "running"] ELSE T
        : T \in StopPort(S, S.port)}

ahci_release_command_buffers(S) ==
    GiveBack([S EXCEPT !.table = 0, !.data = 0], {S.table, S.data})

ahci_quiesce_port_locked(S, p) ==
    {IF T.ok THEN [T EXCEPT !.linkError[p] = FALSE] ELSE T : T \in StopPort(S, p)}

ahci_release_port_resources_locked(S, p) ==
    IF S.clb[p] = 0 THEN {Return(S, TRUE)}
    ELSE {IF T.ok
          THEN GiveBack([T EXCEPT !.clb[p] = 0, !.fis[p] = 0, !.identified[p] = FALSE],
                        {S.clb[p], S.fis[p]})
          ELSE T
            : T \in ahci_quiesce_port_locked(S, p)}

\* ahci_finish_command: a port that cannot be stopped keeps its buffers, and
\* the driver does no more I/O.
ahci_finish_command(S, completed) ==
    IF completed THEN {Return(ahci_release_command_buffers(S), TRUE)}
    ELSE {IF T.ok THEN Return(ahci_release_command_buffers(T), FALSE)
          ELSE [T EXCEPT !.disabled = TRUE]
            : T \in ahci_stop_engine(S)}

-----------------------------------------------------------------------------
(* One command in slot 0.                                                  *)

\* PxIS is cleared and PxCI set.  CI clears with or without an error, or not
\* in time.  A port that does not run never answers.
CommandAnswers(S) == IF S.engine[S.port] = "running" THEN {"done", "error", "late"} ELSE {"late"}

\* ahci_command_ok: an error the interrupt handler saved counts, once.
ahci_command_ok(S, a) ==
    [S EXCEPT !.pending[S.port] = FALSE, !.linkError[S.port] = FALSE,
              !.ok = a = "done" /\ ~S.pending[S.port]]

\* The state after the command with the buffers in S.table and S.data was
\* issued and polled; completed is in ok.
IssueCommand(S, a) ==
    IF a = "late" THEN Return([S EXCEPT !.issued[S.port] = {S.table, S.data} \ {0},
                                        !.linkError[S.port] = FALSE], FALSE)
    ELSE ahci_command_ok([S EXCEPT !.linkError[S.port] = FALSE], a)

Execute(S) ==
    UNION {ahci_finish_command(T, T.ok) : T \in {IssueCommand(S, a) : a \in CommandAnswers(S)}}

\* ahci_io_sectors, ahci_read_sector_locked, ahci_write_sector_locked: one
\* command with a data buffer; w is the number of the write, 0 for a read.
ahci_io_sectors(S, w) ==
    IF S.disabled \/ ~S.sectors \/ S.port = -1 \/ S.list = 0 \/ S.data # 0
       \/ SecondFree(S) = 0
    THEN {Return(S, FALSE)}
    ELSE {IF T.ok THEN [T EXCEPT !.cached = @ \cup ({w} \ {0})] ELSE T
            : T \in Execute([Take(S, {FirstFree(S), SecondFree(S)})
                                EXCEPT !.table = FirstFree(S), !.data = SecondFree(S)])}

\* Mutant: a write ends with its last data command.
NoFlush(S) == {Return(S, TRUE)}

ahci_flush_locked(S) ==
    IF S.disabled \/ S.port = -1 \/ S.list = 0 \/ S.data # 0 \/ ~S.sectors
       \/ FirstFree(S) = 0
    THEN {Return(S, FALSE)}
    ELSE {IF T.ok THEN [T EXCEPT !.cached = {}] ELSE T
            : T \in Execute([Take(S, {FirstFree(S)}) EXCEPT !.table = FirstFree(S)])}

\* The disk may also report no sectors, which counts as a failed command.
ahci_identify_locked(S) ==
    IF S.disabled \/ S.port = -1 \/ S.list = 0 \/ S.data # 0 THEN {Return(S, FALSE)}
    ELSE IF SecondFree(S) = 0 THEN {Return(S, FALSE)}
    ELSE {[T EXCEPT !.sectors = T.ok]
            : T \in Execute([Take(S, {FirstFree(S), SecondFree(S)})
                                EXCEPT !.table = FirstFree(S), !.data = SecondFree(S)])}

ahci_select_port_locked(S, p) ==
    [S EXCEPT !.port = p, !.list = S.clb[p], !.sectors = S.identified[p]]

\* ahci_io_range_locked in two chunks: nothing follows a chunk that failed.
ahci_io_range_locked(S, w) ==
    UNION {IF T.ok THEN ahci_io_sectors(T, w) ELSE {T} : T \in ahci_io_sectors(S, w)}

-----------------------------------------------------------------------------
AhciInit ==
    ahci = [phase |-> "start",
            clb |-> [p \in Ports |-> 0], fis |-> [p \in Ports |-> 0],
            identified |-> [p \in Ports |-> FALSE], engine |-> [p \in Ports |-> "running"],
            issued |-> [p \in Ports |-> {}], linkError |-> [p \in Ports |-> FALSE],
            pending |-> [p \in Ports |-> FALSE], ready |-> {}, port |-> -1, list |-> 0,
            sectors |-> FALSE, table |-> 0, data |-> 0, disabled |-> FALSE,
            published |-> {}, registered |-> FALSE, free |-> AhciFrames, stray |-> FALSE,
            cached |-> {}, acked |-> {}, writes |-> 0, ok |-> FALSE]

\* The body of the port loop of ahci_probe (lines 233-280): a port that does
\* not stop, or finds no memory, is passed over.
ProbePort(S, p) ==
    {IF ~T.ok \/ SecondFree(T) = 0 THEN T
     ELSE [Take(T, {FirstFree(T), SecondFree(T)})
            EXCEPT !.clb[p] = FirstFree(T), !.fis[p] = SecondFree(T),
                   !.linkError[p] = FALSE, !.engine[p] = "running", !.ready = @ \cup {p},
                   !.port = IF @ = -1 THEN p ELSE @,
                   !.list = IF S.port = -1 THEN FirstFree(T) ELSE @]
        : T \in StopPort(S, p)}

\* The loops over the ports, in increasing order.
OverPorts(Body(_, _), S, P) ==
    LET step[Q \in SUBSET P] ==
            IF Q = {} THEN {S}
            ELSE UNION {Body(T, Max(Q)) : T \in step[Q \ {Max(Q)}]}
    IN step[P]

ahci_probe ==
    /\ ahci.phase = "start"
    /\ ahci' \in {[T EXCEPT !.phase = IF T.ready = {} THEN "failed" ELSE "probed"]
                    : T \in OverPorts(ProbePort, ahci, Ports)}

\* The body of the loop of ahci_identify_ready_ports_locked: a port whose disk
\* does not answer is quiesced and gives its memory back.
IdentifyPort(S, p) ==
    UNION {IF T.ok THEN {[T EXCEPT !.identified[p] = TRUE]}
           ELSE {IF U.ok THEN U ELSE [U EXCEPT !.disabled = TRUE]
                    : U \in ahci_release_port_resources_locked(T, p)}
            : T \in ahci_identify_locked(ahci_select_port_locked(S, p))}

IdentifiedPorts(S) == {p \in S.ready : S.identified[p]}

ahci_identify_ready_ports_locked ==
    /\ ahci.phase = "probed"
    /\ ahci' \in {IF IdentifiedPorts(T) = {}
                  THEN [T EXCEPT !.ready = {}, !.phase = "failed"]
                  ELSE ahci_select_port_locked(
                        [T EXCEPT !.ready = IdentifiedPorts(T), !.phase = "up"],
                        Min(IdentifiedPorts(T)))
                    : T \in OverPorts(IdentifyPort, ahci, ahci.ready)}

\* ahci_register_storage_devices: a batch the registry cuts short is frozen.
ahci_register_storage_devices ==
    /\ ahci.phase = "up"
    /\ ~ahci.registered
    /\ LET wanted == {p \in Ports : ahci.identified[p]}
           taken == {p \in wanted : Cardinality({q \in wanted : q < p}) < StorageSlots}
       IN ahci' = [ahci EXCEPT !.published = taken, !.registered = taken # {},
                               !.ok = taken = wanted]

\* ahci_storage_read_context, and the calls that read the selected port.
ahci_read_sectors(p) ==
    /\ ahci.phase = "up"
    /\ ahci.identified[p]
    /\ ahci' \in ahci_io_range_locked(ahci_select_port_locked(ahci, p), 0)

\* ahci_storage_write_context, ahci_write_sectors, ahci_write_sector: the data
\* commands and then a flush.
ahci_write_sectors(p) ==
    /\ ahci.phase = "up"
    /\ ahci.identified[p]
    /\ ahci.writes < MaxDiskWrites
    /\ LET w == ahci.writes + 1
       IN ahci' \in {IF U.ok THEN [U EXCEPT !.acked = @ \cup {w}] ELSE U
                       : U \in UNION {IF T.ok THEN ahci_flush_locked(T) ELSE {T}
                                       : T \in ahci_io_range_locked(
                                            ahci_select_port_locked([ahci EXCEPT !.writes = w], p),
                                            w)}}

ahci_storage_flush_context(p) ==
    /\ ahci.phase = "up"
    /\ ahci.identified[p]
    /\ ahci' \in ahci_flush_locked(ahci_select_port_locked(ahci, p))

\* ahci_identify, which the boot probe repeats on the selected port.
ahci_identify ==
    /\ ahci.phase = "up"
    /\ ahci' \in ahci_identify_locked(ahci)

\* ahci_interrupt_handler: the causes of each ready port are saved and cleared.
ahci_interrupt_handler ==
    /\ \E p \in ahci.ready : ahci.linkError[p]
    /\ ahci' = [ahci EXCEPT
                    !.pending = [p \in Ports |-> @[p] \/ (p \in ahci.ready /\ ahci.linkError[p])],
                    !.linkError = [p \in Ports |-> @[p] /\ p \notin ahci.ready]]

\* The HBA: a link error, a command the driver gave up on that ends after all,
\* a port that stops late, a disk that empties its cache.
LinkError(p) ==
    /\ ahci.engine[p] = "running"
    /\ ~ahci.linkError[p]
    /\ ahci' = [ahci EXCEPT !.linkError[p] = TRUE]

CommandEndsLate(p) ==
    /\ ahci.issued[p] # {}
    /\ ahci' = [ahci EXCEPT !.issued[p] = {}]

PortStopsLate(p) ==
    /\ ahci.engine[p] = "stopping"
    /\ ahci' = [ahci EXCEPT !.engine[p] = "stopped", !.issued[p] = {}]

DiskDestages ==
    /\ ahci.cached # {}
    /\ ahci' = [ahci EXCEPT !.cached = {}]

AhciNext ==
    \/ ahci_probe \/ ahci_identify_ready_ports_locked \/ ahci_register_storage_devices
    \/ ahci_identify \/ ahci_interrupt_handler \/ DiskDestages
    \/ \E p \in Ports :
          \/ ahci_read_sectors(p) \/ ahci_write_sectors(p) \/ ahci_storage_flush_context(p)
          \/ LinkError(p) \/ CommandEndsLate(p) \/ PortStopsLate(p)

-----------------------------------------------------------------------------
\* Type correctness; the driver's own frames are not free.
AhciTypeOK == ahci \in AhciState /\ {ahci.table, ahci.data} \cap ahci.free = {}

\* "A wedged HBA may still fetch these buffers; retain them safely": no frame
\* that a port may still reach is free.  A port reaches its command list and
\* FIS area until it has stopped, and the buffers of the command in its slot.
HbaMemoryHeld ==
    \A p \in Ports :
        LET reach == ahci.issued[p]
                     \cup (IF ahci.engine[p] = "stopped" THEN {} ELSE {ahci.clb[p], ahci.fis[p]})
        IN reach \cap ahci.free = {}

\* No frame is freed twice along the error paths of probe, IDENTIFY and I/O,
\* and the command list the next command is written to is still allocated.
NoDoubleFree ==
    /\ ~ahci.stray
    /\ ahci.phase = "up" => ahci.list # 0 /\ ahci.list \notin ahci.free

\* A write call that reported success has left the disk's volatile cache.
DiskWritesDurable == ahci.acked \cap ahci.cached = {}
=============================================================================
