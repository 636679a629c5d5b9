-------------------------------- MODULE Udp ---------------------------------
(***************************************************************************)
(* The UDP endpoint table (kernel/drivers/network/udp_endpoint.c): sockets  *)
(* for one address or for all of them, each with a bounded queue of         *)
(* datagrams.  A datagram is its destination.                               *)
(***************************************************************************)
EXTENDS Integers, Sequences

CONSTANTS
    LocalAddresses, \* addresses of the host, without the wildcard
    UdpPorts,       \* ports
    UdpSlots,       \* UDP_ENDPOINT_CAPACITY
    UdpQueue        \* UDP_ENDPOINT_QUEUE_CAPACITY

Wildcard == "0.0.0.0"
UdpAddresses == LocalAddresses \cup {Wildcard}

ASSUME UdpAssumption ==
    /\ {UdpSlots, UdpQueue} \subseteq Nat \ {0}
    /\ Wildcard \notin LocalAddresses /\ 0 \notin UdpPorts

UdpSlot == 1 .. UdpSlots

VARIABLE udp    \* the endpoint table

\* A queued datagram is its destination, and whether it came before the bind.
UdpMessage == [address : LocalAddresses, port : UdpPorts, old : BOOLEAN]
UdpEndpoint == [valid : BOOLEAN, address : UdpAddresses, port : UdpPorts \cup {0},
                queue : UNION {[1 .. n -> UdpMessage] : n \in 0 .. UdpQueue}]

\* Type correctness of the endpoint table.
UdpTypeOK == udp \in [UdpSlot -> UdpEndpoint]

UdpInit == udp = [i \in UdpSlot |-> [valid |-> FALSE, address |-> Wildcard, port |-> 0, queue |-> <<>>]]

Bound(i, port) == udp[i].valid /\ udp[i].port = port

AddressConflict(a, b) == Wildcard \in {a, b} \/ a = b

\* Mutant: the queue of the slot is left as it is.
QueueKept(e) == e.queue

NewQueue(e) == <<>>

LowestOf(S) == CHOOSE i \in S : \A j \in S : i <= j
HighestOf(S) == CHOOSE i \in S : \A j \in S : j <= i

udp_endpoint_bind(address, port) ==
    LET free == {i \in UdpSlot : ~udp[i].valid}
    IN /\ \A i \in UdpSlot : Bound(i, port) => ~AddressConflict(udp[i].address, address)
       /\ free # {}
       /\ udp' = [udp EXCEPT ![LowestOf(free)] =
                    [valid |-> TRUE, address |-> address, port |-> port,
                     queue |-> [k \in DOMAIN NewQueue(@) |-> [NewQueue(@)[k] EXCEPT !.old = TRUE]]]]

\* The queue stays in the slot.
udp_endpoint_unbind(i) ==
    /\ udp[i].valid
    /\ udp' = [udp EXCEPT ![i].valid = FALSE]

\* The endpoint for a destination: the address's own before the one for all.
Receivers(address, port) ==
    LET exact == {i \in UdpSlot : Bound(i, port) /\ udp[i].address = address}
        wild == {i \in UdpSlot : Bound(i, port) /\ udp[i].address = Wildcard}
    IN IF exact # {} THEN {LowestOf(exact)} ELSE IF wild # {} THEN {HighestOf(wild)} ELSE {}

\* udp_endpoint_deliver; a full queue drops the datagram.
udp_endpoint_deliver(address, port) ==
    \E i \in Receivers(address, port) :
        /\ Len(udp[i].queue) < UdpQueue
        /\ udp' = [udp EXCEPT ![i].queue = Append(@, [address |-> address, port |-> port, old |-> FALSE])]

udp_endpoint_receive(i) ==
    /\ udp[i].valid /\ udp[i].queue # <<>>
    /\ udp' = [udp EXCEPT ![i].queue = Tail(@)]

UdpNext ==
    \/ \E a \in UdpAddresses, p \in UdpPorts : udp_endpoint_bind(a, p)
    \/ \E a \in LocalAddresses, p \in UdpPorts : udp_endpoint_deliver(a, p)
    \/ \E i \in UdpSlot : udp_endpoint_unbind(i) \/ udp_endpoint_receive(i)

UdpSpec == UdpInit /\ [][UdpNext]_udp

-----------------------------------------------------------------------------
\* What a socket finds in its queue was sent to its port and to an address of
\* its own, after it was bound: not to another socket, and not to the socket
\* that had its slot before.
DatagramsBelong ==
    \A i \in UdpSlot : udp[i].valid =>
        \A k \in DOMAIN udp[i].queue :
            LET m == udp[i].queue[k]
            IN ~m.old /\ m.port = udp[i].port /\ udp[i].address \in {m.address, Wildcard}

\* At most one endpoint can receive a given datagram.
OneReceiver ==
    \A i, j \in UdpSlot : \A p \in UdpPorts :
        (/\ Bound(i, p) /\ Bound(j, p)
         /\ \E a \in LocalAddresses : {udp[i].address, udp[j].address} \subseteq {a, Wildcard}) => i = j

\* Sockets keep apart while they are bound, filled, emptied and rebound: a
\* datagram has one receiver and a queue holds only its socket's datagrams.
SocketsSeparate == UdpTypeOK /\ DatagramsBelong /\ OneReceiver
=============================================================================
