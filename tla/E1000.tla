------------------------------- MODULE E1000 --------------------------------
(***************************************************************************)
(* The e1000 network driver (kernel/drivers/network/e1000.c), the receive   *)
(* queue (packet_queue.c) and the loop that joins them (network_e1000_poll  *)
(* and network_service in network.c).                                       *)
(*                                                                          *)
(* The controller runs beside the CPU: it fills receive descriptors one by  *)
(* one between RDH and RDT, sends transmit descriptors between TDH and TDT, *)
(* and raises interrupt causes.  A frame is a number; a received frame      *)
(* takes one or two descriptors and may carry an error.  The driver's calls *)
(* hold e1000_lock with interrupts off, so each is one step; between two    *)
(* calls of the service loop the controller and the handler may run.        *)
(***************************************************************************)
EXTENDS Integers, Sequences, FiniteSets

CONSTANTS
    RingCount,      \* E1000_RING_COUNT (64)
    QueueCapacity,  \* NETWORK_PACKET_QUEUE_CAPACITY
    ServiceBudget,  \* budget of one network_service call
    MaxReceived,    \* bound: frames the controller receives
    MaxSent,        \* bound: frames the driver accepts for transmission
    MaxNicFaults    \* bound: erroneous frames and link changes

ASSUME E1000Assumption ==
    /\ {RingCount, QueueCapacity, ServiceBudget} \subseteq Nat \ {0}
    /\ {MaxReceived, MaxSent, MaxNicFaults} \subseteq Nat

Ring == 0 .. RingCount - 1
Next1(i) == (i + 1) % RingCount
Rings == {"tx_ring", "rx_ring"} \X {0}
NicFrames == Rings \cup ({"tx", "rx"} \X Ring)    \* frames, by what they are for
Before(i) == (i + RingCount - 1) % RingCount

VARIABLES
    nic,        \* the controller: registers and descriptor rings
    drv,        \* the driver's statics
    packets,    \* the packet queue
    service,    \* the service loop: phase and frames so far
    seen        \* history
nicVars == <<nic, drv, packets, service, seen>>

RxDescriptor == [done : BOOLEAN, eop : BOOLEAN, error : BOOLEAN, frame : 0 .. MaxReceived]
TxDescriptor == [done : BOOLEAN, frame : 0 .. MaxSent]

\* Type correctness of the controller, the driver and the queue.
NicTypeOK ==
    /\ nic \in [rx : [Ring -> RxDescriptor], tx : [Ring -> TxDescriptor],
                rdh : Ring, rdt : Ring, tdh : Ring, tdt : Ring,
                icr : SUBSET {"RXT0", "RXO", "LSC"},
                more : 0 .. MaxReceived, received : 0 .. MaxReceived, faults : 0 .. MaxNicFaults]
    /\ drv \in [attached : BOOLEAN, held : SUBSET NicFrames,
                frames : SUBSET NicFrames,
                tx_index : Ring, reclaim : Ring, pending : 0 .. RingCount, rx_index : Ring,
                causes : SUBSET {"RXT0", "RXO", "LSC"}]
    /\ packets \in UNION {[1 .. n -> 1 .. MaxReceived] : n \in 0 .. QueueCapacity}
    /\ service \in [phase : {"idle", "poll", "serve"}, count : 0 .. ServiceBudget]
    /\ seen \in [bad : SUBSET (1 .. MaxReceived), served : 0 .. MaxReceived, late : BOOLEAN,
                 dropped : SUBSET (1 .. MaxReceived), taken : SUBSET (1 .. MaxReceived),
                 link : BOOLEAN, accepted : 0 .. MaxSent, sent : 0 .. MaxSent]

EmptyRx == [done |-> FALSE, eop |-> FALSE, error |-> FALSE, frame |-> 0]

\* After e1000_initialize, before the probe.
NicInit ==
    /\ nic = [rx |-> [i \in Ring |-> EmptyRx], tx |-> [i \in Ring |-> [done |-> TRUE, frame |-> 0]],
              rdh |-> 0, rdt |-> 0, tdh |-> 0, tdt |-> 0, icr |-> {}, more |-> 0,
              received |-> 0, faults |-> 0]
    /\ drv = [attached |-> FALSE, held |-> {}, frames |-> {}, tx_index |-> 0, reclaim |-> 0,
              pending |-> 0, rx_index |-> 0, causes |-> {}]
    /\ packets = <<>>
    /\ service = [phase |-> "idle", count |-> 0]
    /\ seen = [bad |-> {}, served |-> 0, late |-> FALSE, dropped |-> {}, taken |-> {},
               link |-> FALSE, accepted |-> 0, sent |-> 0]

-----------------------------------------------------------------------------
(* The probe.  Frames are named for what they are allocated to; a probe may *)
(* fail before, between and after any two allocations.                      *)

\* What the probe has allocated when it has reached buffer pair i, or the
\* transmit half of it.
Allocated(i, half) ==
    Rings \cup ({"tx", "rx"} \X (0 .. i - 1)) \cup (IF half THEN {<<"tx", i>>} ELSE {})

\* The fail label: what is left allocated of frames.
ProbeFailed(frames) == frames \ NicFrames

e1000_probe ==
    /\ ~drv.attached
    /\ \/ \E frames \in {{}, {<<"tx_ring", 0>>}, Allocated(0, FALSE)}
                        \cup {Allocated(i, half) : i \in Ring, half \in BOOLEAN} :
             /\ drv' = [drv EXCEPT !.frames = ProbeFailed(frames), !.held = {}]
             /\ UNCHANGED nic
       \/ /\ drv' = [drv EXCEPT !.attached = TRUE, !.frames = Allocated(RingCount, FALSE),
                                !.held = Allocated(RingCount, FALSE)]
          /\ nic' = [nic EXCEPT !.rdt = RingCount - 1]
    /\ UNCHANGED <<packets, service, seen>>

-----------------------------------------------------------------------------
(* The controller.                                                          *)

\* One receive descriptor is filled: with a whole frame, with the first part of
\* a frame or with the rest of one.
ReceiveDescriptor(last, error) ==
    LET first == nic.more = 0
        frame == IF first THEN nic.received + 1 ELSE nic.more
    IN /\ drv.attached /\ nic.rdh # nic.rdt
       /\ first => nic.received < MaxReceived
       /\ ~first => last
       /\ error => nic.faults < MaxNicFaults
       /\ nic' = [nic EXCEPT
                    !.rx[nic.rdh] = [done |-> TRUE, eop |-> last, error |-> error, frame |-> frame],
                    !.rdh = Next1(@), !.more = IF last THEN 0 ELSE frame,
                    !.received = frame, !.icr = IF last THEN @ \cup {"RXT0"} ELSE @,
                    !.faults = IF error THEN @ + 1 ELSE @]
       /\ seen' = [seen EXCEPT !.bad = IF error THEN @ \cup {frame} ELSE @]
       /\ UNCHANGED <<drv, packets, service>>

\* A frame finds no descriptor and is lost by the controller.
Overrun ==
    /\ drv.attached /\ nic.rdh = nic.rdt /\ "RXO" \notin nic.icr
    /\ nic' = [nic EXCEPT !.icr = @ \cup {"RXO"}]
    /\ UNCHANGED <<drv, packets, service, seen>>

SendDescriptor ==
    /\ drv.attached /\ nic.tdh # nic.tdt
    /\ nic' = [nic EXCEPT !.tx[nic.tdh].done = TRUE, !.tdh = Next1(@)]
    /\ seen' = [seen EXCEPT !.sent = nic.tx[nic.tdh].frame]
    /\ UNCHANGED <<drv, packets, service>>

LinkChange ==
    /\ drv.attached /\ nic.faults < MaxNicFaults
    /\ nic' = [nic EXCEPT !.icr = @ \cup {"LSC"}, !.faults = @ + 1]
    /\ seen' = [seen EXCEPT !.link = TRUE]
    /\ UNCHANGED <<drv, packets, service>>

-----------------------------------------------------------------------------
(* The driver.                                                              *)

PendingCauses(old, new) == old \cup new

\* Reading ICR clears it.
e1000_interrupt_handler ==
    /\ drv.attached /\ nic.icr # {}
    /\ drv' = [drv EXCEPT !.causes = PendingCauses(@, nic.icr)]
    /\ nic' = [nic EXCEPT !.icr = {}]
    /\ UNCHANGED <<packets, service, seen>>

\* Mutant: a descriptor is reused as soon as the ring has wrapped.
AnyDescriptor(d, ring) == TRUE

\* The ring has room and its next descriptor is done.
TransmitReady(d, ring) == d.pending # RingCount /\ ring[d.tx_index].done

\* e1000_transmit with the link up; the frame is the next number.
e1000_transmit(d, n, frame) ==
    IF ~TransmitReady(d, n.tx) THEN <<d, n, 0>>
    ELSE <<[d EXCEPT !.tx_index = Next1(@), !.pending = IF @ < RingCount THEN @ + 1 ELSE @],
           [n EXCEPT !.tx[d.tx_index] = [done |-> FALSE, frame |-> frame],
                     !.tdt = Next1(d.tx_index)], 1>>

\* How many descriptors from reclaim on are done.
Reclaimable ==
    CHOOSE k \in 0 .. drv.pending :
        /\ \A j \in 0 .. k - 1 : nic.tx[(drv.reclaim + j) % RingCount].done
        /\ k < drv.pending => ~nic.tx[(drv.reclaim + k) % RingCount].done

\* e1000_service: link changes are counted, done descriptors reclaimed.
e1000_service ==
    /\ drv' = [drv EXCEPT !.causes = {}, !.pending = @ - Reclaimable,
                          !.reclaim = (@ + Reclaimable) % RingCount]
    /\ nic' = [nic EXCEPT !.icr = {}]
    /\ seen' = [seen EXCEPT !.link = @ /\ "LSC" \notin drv.causes \cup nic.icr]

\* The descriptors of the next frame, if it is complete.
FrameEnds ==
    {k \in 1 .. RingCount :
        /\ \A j \in 0 .. k - 1 : nic.rx[(drv.rx_index + j) % RingCount].done
        /\ \A j \in 0 .. k - 2 : ~nic.rx[(drv.rx_index + j) % RingCount].eop
        /\ nic.rx[(drv.rx_index + k - 1) % RingCount].eop \/ k = RingCount}

Recycled(ring, used) == [i \in Ring |-> IF i \in used THEN EmptyRx ELSE ring[i]]

\* Mutant: the error bits of the descriptors are not looked at.
ErrorsIgnored(k) ==
    LET used == {(drv.rx_index + j) % RingCount : j \in 0 .. k - 1}
        last == (drv.rx_index + k - 1) % RingCount
    IN [valid |-> TRUE, frame |-> nic.rx[drv.rx_index].frame,
        drv |-> [drv EXCEPT !.rx_index = Next1(last)],
        nic |-> [nic EXCEPT !.rx = Recycled(@, used), !.rdt = Before(Next1(last))]]

\* e1000_receive of a complete frame of k descriptors.
e1000_receive(k) ==
    LET used == {(drv.rx_index + j) % RingCount : j \in 0 .. k - 1}
        last == (drv.rx_index + k - 1) % RingCount
    IN [valid |-> nic.rx[last].eop /\ \A i \in used : ~nic.rx[i].error,
        frame |-> nic.rx[drv.rx_index].frame,
        drv |-> [drv EXCEPT !.rx_index = Next1(last)],
        nic |-> [nic EXCEPT !.rx = Recycled(@, used), !.rdt = Before(Next1(last))]]

-----------------------------------------------------------------------------
(* The service loop.                                                        *)

\* network_service calls network_e1000_poll, which services the controller.
network_service_begin ==
    /\ drv.attached /\ service.phase = "idle"
    /\ e1000_service
    /\ service' = [phase |-> "poll", count |-> 0]
    /\ UNCHANGED packets

\* A queue without room drops the frame.
network_packet_queue_push(frame) ==
    IF Len(packets) < QueueCapacity THEN Append(packets, frame) ELSE packets

network_packet_queue_pop == packets' = Tail(packets)

\* One turn of network_e1000_poll: a frame the queue has no room for is dropped
\* and does not count; an invalid frame ends the loop.
network_e1000_poll ==
    /\ service.phase = "poll"
    /\ IF service.count = ServiceBudget \/ FrameEnds = {}
       THEN /\ service' = [phase |-> "serve", count |-> 0]
            /\ UNCHANGED <<nic, drv, packets, seen>>
       ELSE \E k \in FrameEnds :
            LET r == e1000_receive(k)
                room == Len(packets) < QueueCapacity
            IN /\ nic' = r.nic /\ drv' = r.drv
               /\ service' = IF ~r.valid THEN [phase |-> "serve", count |-> 0]
                             ELSE [service EXCEPT !.count = IF room THEN @ + 1 ELSE @]
               /\ packets' = IF r.valid THEN network_packet_queue_push(r.frame) ELSE packets
               /\ seen' = [seen EXCEPT !.dropped = IF r.valid /\ ~room THEN @ \cup {r.frame} ELSE @,
                                       !.taken = @ \cup {r.frame}]

\* One turn of network_service: the next frame of the queue is handled and may
\* be answered.
network_service_frame ==
    /\ service.phase = "serve"
    /\ IF service.count = ServiceBudget \/ packets = <<>>
       THEN service' = [phase |-> "idle", count |-> 0] /\ UNCHANGED <<nic, drv, packets, seen>>
       ELSE \E reply \in BOOLEAN :
            LET t == e1000_transmit(drv, nic, seen.accepted + 1)
            IN /\ reply => seen.accepted < MaxSent
               /\ service' = [service EXCEPT !.count = @ + 1]
               /\ network_packet_queue_pop
               /\ seen' = [seen EXCEPT !.late = @ \/ Head(packets) <= seen.served
                                                 \/ Head(packets) \in seen.bad,
                                       !.served = Head(packets),
                                       !.accepted = IF reply THEN @ + t[3] ELSE @]
               /\ drv' = IF reply THEN t[1] ELSE drv
               /\ nic' = IF reply THEN t[2] ELSE nic

\* Another caller of network_e1000_transmit.
network_e1000_transmit ==
    LET t == e1000_transmit(drv, nic, seen.accepted + 1)
    IN /\ drv.attached /\ seen.accepted < MaxSent
       /\ drv' = t[1] /\ nic' = t[2]
       /\ seen' = [seen EXCEPT !.accepted = @ + t[3]]
       /\ UNCHANGED <<packets, service>>

NicNext ==
    \/ e1000_probe
    \/ \E last, error \in BOOLEAN : ReceiveDescriptor(last, error)
    \/ Overrun
    \/ SendDescriptor
    \/ LinkChange
    \/ e1000_interrupt_handler
    \/ network_service_begin
    \/ network_e1000_poll
    \/ network_service_frame
    \/ network_e1000_transmit

-----------------------------------------------------------------------------
\* The probe leaks no frame: one that fails frees all it had allocated, and an
\* attached driver holds its rings and buffers.
NicMemoryHeld == drv.frames = drv.held

\* Frames reach the protocol code in the order the controller received them,
\* none twice, and none that was received with an error.
ServedInOrder == ~seen.late

\* A frame that the driver took from the ring is an erroneous one, waits in the
\* queue, was counted as dropped or was served.
FramesAccounted ==
    \A f \in seen.taken : f \in seen.bad \cup seen.dropped \/ f <= seen.served
                          \/ \E i \in 1 .. Len(packets) : packets[i] = f

\* The controller sends what e1000_transmit accepted in that order, every frame
\* at most once: no descriptor is rewritten before it was sent.
SentInOrder == [][seen'.sent \in {seen.sent, seen.sent + 1}]_nicVars

\* The controller considers the transmit ring empty while frames wait in it
\* only when the driver has filled all of it.
StallNeedsFullRing ==
    (nic.tdh = nic.tdt /\ seen.sent < seen.accepted) => drv.pending = RingCount

\* A link change is counted by the next e1000_service, however many interrupts
\* come before it.
LinkChangesSeen == seen.link => "LSC" \in nic.icr \cup drv.causes

\* The driver beside a running controller: probe gives back what it took, frames
\* are served in order and none is unaccounted for, transmission stalls only
\* behind a full ring, and no link change is lost between two interrupts.
NicSound ==
    /\ NicTypeOK
    /\ NicMemoryHeld /\ ServedInOrder /\ FramesAccounted
    /\ StallNeedsFullRing /\ LinkChangesSeen
=============================================================================
