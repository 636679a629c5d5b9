---------------------------- MODULE NetworkProofs ----------------------------
(***************************************************************************)
(* The tables of the network stack, for every size of table, queue and      *)
(* address space: UDP sockets keep apart, the ARP cache and the routes       *)
(* answer as they should, and reassembly hands on only whole datagrams.      *)
(***************************************************************************)
EXTENDS Udp, NetTables, Reassembly, DataLemmas

-----------------------------------------------------------------------------
(* The UDP endpoints.                                                       *)

\* A bound endpoint has a port.
PortsBound == \A i \in UdpSlot : udp[i].valid => udp[i].port # 0

UdpInv == SocketsSeparate /\ PortsBound

\* The two searches of the endpoint table end at a member of what they look for.
LEMMA UdpSearch ==
    ASSUME NEW S \in SUBSET UdpSlot, S # {}
    PROVE  LowestOf(S) \in S /\ HighestOf(S) \in S
<1>1. S \in SUBSET Nat /\ UdpSlots \in Nat /\ S \subseteq 0 .. UdpSlots
  BY UdpAssumption DEF UdpSlot
<1>2. \E i \in S : \A j \in S : i <= j
  BY <1>1, LeastExists
<1>3. \E i \in S : \A j \in S : j <= i
  BY <1>1, GreatestExists
<1> QED
  BY <1>2, <1>3 DEF LowestOf, HighestOf

\* A queue is a sequence that is not too long.
UdpQueues == UNION {[1 .. n -> UdpMessage] : n \in 0 .. UdpQueue}

LEMMA QueueIsSequence ==
    ASSUME NEW q
    PROVE  q \in UdpQueues <=> q \in Seq(UdpMessage) /\ Len(q) <= UdpQueue
<1>1. UdpQueue \in Nat
  BY UdpAssumption
<1>2. ASSUME q \in UdpQueues PROVE q \in Seq(UdpMessage) /\ Len(q) <= UdpQueue
  <2>1. PICK n \in 0 .. UdpQueue : q \in [1 .. n -> UdpMessage]
    BY <1>2 DEF UdpQueues
  <2> QED
    BY <1>1, <2>1
<1>3. ASSUME q \in Seq(UdpMessage), Len(q) <= UdpQueue PROVE q \in UdpQueues
  <2>1. Len(q) \in 0 .. UdpQueue /\ q \in [1 .. Len(q) -> UdpMessage]
    BY <1>1, <1>3
  <2> QED
    BY <2>1 DEF UdpQueues
<1> QED
  BY <1>2, <1>3

\* An endpoint's fields.
LEMMA EndpointFields ==
    ASSUME NEW e
    PROVE  e \in UdpEndpoint
             <=> /\ e = [valid |-> e.valid, address |-> e.address, port |-> e.port, queue |-> e.queue]
                 /\ e.valid \in BOOLEAN /\ e.address \in UdpAddresses
                 /\ e.port \in UdpPorts \cup {0} /\ e.queue \in UdpQueues
BY Zenon DEF UdpEndpoint, UdpQueues

LEMMA EmptyQueue == <<>> \in UdpQueues
<1>1. <<>> \in Seq(UdpMessage) /\ Len(<<>>) = 0 /\ 0 <= UdpQueue
  BY UdpAssumption
<1> QED
  BY <1>1, QueueIsSequence

LEMMA UdpStart == UdpInit => UdpInv
<1> SUFFICES ASSUME UdpInit PROVE UdpInv
  OBVIOUS
<1>1. <<>> \in UdpQueues
  BY EmptyQueue
<1>2. UdpTypeOK
  BY <1>1, EndpointFields DEF UdpInit, UdpTypeOK, UdpAddresses, UdpEndpoint, UdpQueues
<1>3. \A i \in UdpSlot : ~udp[i].valid
  BY DEF UdpInit
<1> QED
  BY <1>2, <1>3 DEF UdpInv, SocketsSeparate, DatagramsBelong, OneReceiver, Bound, PortsBound

\* A datagram is for the endpoint e.
For(m, e) == ~m.old /\ m.port = e.port /\ e.address \in {m.address, Wildcard}

\* A step that writes endpoint i keeps the sockets apart if what the endpoint
\* then queues is for it and nobody else is bound to what it is bound to.
LEMMA EndpointWritten ==
    ASSUME UdpInv, NEW i \in UdpSlot, NEW e \in UdpEndpoint,
           udp' = [udp EXCEPT ![i] = e],
           e.valid => e.port # 0 /\ \A k \in DOMAIN e.queue : For(e.queue[k], e),
           \A j \in UdpSlot \ {i}, a \in LocalAddresses :
              e.valid /\ Bound(j, e.port) => ~({udp[j].address, e.address} \subseteq {a, Wildcard})
    PROVE  UdpInv'
<1>1. UdpTypeOK'
  BY DEF UdpInv, SocketsSeparate, UdpTypeOK
<1>2. \A j \in UdpSlot : udp'[j] = IF j = i THEN e ELSE udp[j]
  BY DEF UdpInv, SocketsSeparate, UdpTypeOK
<1>3. DatagramsBelong'
  BY <1>2 DEF UdpInv, SocketsSeparate, DatagramsBelong, For
<1>4. OneReceiver'
  <2> SUFFICES ASSUME NEW j \in UdpSlot, NEW k \in UdpSlot, NEW p \in UdpPorts, j # k,
                      NEW a \in LocalAddresses,
                      udp'[j].valid, udp'[j].port = p, udp'[k].valid, udp'[k].port = p,
                      {udp'[j].address, udp'[k].address} \subseteq {a, Wildcard}
               PROVE  FALSE
    BY DEF OneReceiver, Bound
  <2>1. CASE j = i
    BY <1>2, <2>1 DEF Bound
  <2>2. CASE k = i
    BY <1>2, <2>2 DEF Bound
  <2>3. CASE j # i /\ k # i
    BY <1>2, <2>3 DEF UdpInv, SocketsSeparate, OneReceiver, Bound
  <2> QED
    BY <2>1, <2>2, <2>3
<1> QED
  BY <1>1, <1>2, <1>3, <1>4 DEF UdpInv, SocketsSeparate, PortsBound

\* udp_endpoint_bind: the queue is emptied, and no other endpoint is bound to
\* an address that conflicts.
LEMMA BindSeparate ==
    ASSUME UdpInv, NEW a \in UdpAddresses, NEW p \in UdpPorts, udp_endpoint_bind(a, p)
    PROVE  UdpInv'
<1> DEFINE free == {j \in UdpSlot : ~udp[j].valid}
           e == [valid |-> TRUE, address |-> a, port |-> p, queue |-> <<>>]
<1>1. PICK i \in UdpSlot : i = LowestOf(free)
  BY UdpSearch DEF udp_endpoint_bind
<1>2. udp' = [udp EXCEPT ![i] = e]
  BY <1>1 DEF udp_endpoint_bind, NewQueue
<1>3. e \in UdpEndpoint
  BY EmptyQueue, EndpointFields
<1>4. \A j \in UdpSlot, b \in LocalAddresses :
          e.valid /\ Bound(j, e.port) => ~({udp[j].address, e.address} \subseteq {b, Wildcard})
  BY DEF udp_endpoint_bind, AddressConflict
<1>5. e.port # 0 /\ \A k \in DOMAIN e.queue : For(e.queue[k], e)
  BY UdpAssumption
<1> HIDE DEF e
<1> QED
  BY <1>2, <1>3, <1>4, <1>5, EndpointWritten

\* Only the queue, or only the valid bit, of an endpoint is written.
LEMMA FieldWritten ==
    ASSUME NEW e \in UdpEndpoint, NEW q, NEW v
    PROVE  /\ [e EXCEPT !.queue = q]
                = [valid |-> e.valid, address |-> e.address, port |-> e.port, queue |-> q]
           /\ [e EXCEPT !.valid = v]
                = [valid |-> v, address |-> e.address, port |-> e.port, queue |-> e.queue]
BY DEF UdpEndpoint

\* What an endpoint is bound to nobody else is, also after its queue changed.
LEMMA QueueSeparate ==
    ASSUME UdpInv, NEW i \in UdpSlot, NEW q \in UdpQueues, NEW v \in BOOLEAN,
           v => udp[i].valid,
           udp' = [udp EXCEPT ![i] = [valid |-> v, address |-> udp[i].address,
                                      port |-> udp[i].port, queue |-> q]],
           v => \A k \in DOMAIN q : For(q[k], udp[i])
    PROVE  UdpInv'
<1> DEFINE e == [valid |-> v, address |-> udp[i].address, port |-> udp[i].port, queue |-> q]
<1>1. udp[i] \in UdpEndpoint
  BY DEF UdpInv, SocketsSeparate, UdpTypeOK
<1>2. e \in UdpEndpoint
  BY <1>1, EndpointFields
<1>3. v => udp[i].port \in UdpPorts
  BY <1>1, EndpointFields DEF UdpInv, PortsBound
<1>4. \A j \in UdpSlot \ {i}, b \in LocalAddresses :
         e.valid /\ Bound(j, e.port) => ~({udp[j].address, e.address} \subseteq {b, Wildcard})
  BY <1>3 DEF UdpInv, SocketsSeparate, OneReceiver, Bound
<1>5. e.valid => e.port # 0 /\ \A k \in DOMAIN e.queue : For(e.queue[k], e)
  BY <1>3, UdpAssumption DEF For
<1>6. udp' = [udp EXCEPT ![i] = e]
  OBVIOUS
<1> HIDE DEF e
<1> QED
  BY <1>2, <1>4, <1>5, <1>6, EndpointWritten

\* udp_endpoint_unbind leaves the queue, which the next bind empties.
LEMMA UnbindSeparate ==
    ASSUME UdpInv, NEW i \in UdpSlot, udp_endpoint_unbind(i)
    PROVE  UdpInv'
<1>1. udp[i] \in UdpEndpoint
  BY DEF UdpInv, SocketsSeparate, UdpTypeOK
<1>2. udp' = [udp EXCEPT ![i] = [valid |-> FALSE, address |-> udp[i].address,
                                  port |-> udp[i].port, queue |-> udp[i].queue]]
  BY <1>1, FieldWritten DEF udp_endpoint_unbind
<1>3. udp[i].queue \in UdpQueues
  BY <1>1, EndpointFields
<1> QED
  BY <1>2, <1>3, QueueSeparate

\* udp_endpoint_receive takes the oldest datagram.
LEMMA ReceiveSeparate ==
    ASSUME UdpInv, NEW i \in UdpSlot, udp_endpoint_receive(i)
    PROVE  UdpInv'
<1> DEFINE q == udp[i].queue
<1>1. udp[i] \in UdpEndpoint
  BY DEF UdpInv, SocketsSeparate, UdpTypeOK
<1>2. udp' = [udp EXCEPT ![i] = [valid |-> udp[i].valid, address |-> udp[i].address,
                                  port |-> udp[i].port, queue |-> Tail(q)]]
  BY <1>1, FieldWritten DEF udp_endpoint_receive
<1>3. q \in Seq(UdpMessage) /\ Len(q) <= UdpQueue /\ q # <<>>
  BY <1>1, EndpointFields, QueueIsSequence DEF udp_endpoint_receive
<1>4. /\ Tail(q) \in Seq(UdpMessage) /\ Len(Tail(q)) <= UdpQueue
      /\ \A k \in DOMAIN Tail(q) : k + 1 \in DOMAIN q /\ Tail(q)[k] = q[k + 1]
  BY <1>3, UdpAssumption
<1>5. Tail(q) \in UdpQueues
  BY <1>4, QueueIsSequence
<1>6. \A k \in DOMAIN Tail(q) : For(Tail(q)[k], udp[i])
  BY <1>4 DEF UdpInv, SocketsSeparate, DatagramsBelong, For, udp_endpoint_receive
<1>7. udp[i].valid \in BOOLEAN
  BY <1>1, EndpointFields
<1> HIDE DEF q
<1> QED
  BY <1>2, <1>5, <1>6, <1>7, QueueSeparate

\* udp_endpoint_deliver gives the datagram to an endpoint it is for.
LEMMA DeliverSeparate ==
    ASSUME UdpInv, NEW a \in LocalAddresses, NEW p \in UdpPorts, udp_endpoint_deliver(a, p)
    PROVE  UdpInv'
<1> DEFINE exact == {i \in UdpSlot : Bound(i, p) /\ udp[i].address = a}
           wild == {i \in UdpSlot : Bound(i, p) /\ udp[i].address = Wildcard}
           m == [address |-> a, port |-> p, old |-> FALSE]
<1>1. PICK i \in Receivers(a, p) :
          /\ Len(udp[i].queue) < UdpQueue
          /\ udp' = [udp EXCEPT ![i].queue = Append(@, m)]
  BY DEF udp_endpoint_deliver
<1>2. i \in exact \/ i \in wild
  BY <1>1, UdpSearch DEF Receivers
<1>3. i \in UdpSlot /\ udp[i].valid /\ udp[i].port = p /\ udp[i].address \in {a, Wildcard}
  BY <1>2 DEF Bound
<1> DEFINE q == udp[i].queue
<1>4. udp[i] \in UdpEndpoint
  BY <1>3 DEF UdpInv, SocketsSeparate, UdpTypeOK
<1>5. udp' = [udp EXCEPT ![i] = [valid |-> udp[i].valid, address |-> udp[i].address,
                                  port |-> udp[i].port, queue |-> Append(q, m)]]
  BY <1>1, <1>3, <1>4, FieldWritten
<1>6. q \in Seq(UdpMessage) /\ m \in UdpMessage /\ Len(q) < UdpQueue
  BY <1>1, <1>4, EndpointFields, QueueIsSequence DEF UdpMessage
<1>7. /\ Append(q, m) \in Seq(UdpMessage) /\ Len(Append(q, m)) <= UdpQueue
      /\ \A k \in DOMAIN Append(q, m) :
            \/ k \in DOMAIN q /\ Append(q, m)[k] = q[k]
            \/ Append(q, m)[k] = m
  BY <1>6, UdpAssumption
<1>8. Append(q, m) \in UdpQueues
  BY <1>7, QueueIsSequence
<1>9. For(m, udp[i]) /\ \A k \in DOMAIN q : For(q[k], udp[i])
  BY <1>3 DEF UdpInv, SocketsSeparate, DatagramsBelong, For
<1>10. \A k \in DOMAIN Append(q, m) : For(Append(q, m)[k], udp[i])
  BY <1>7, <1>9
<1>11. udp[i].valid \in BOOLEAN
  BY <1>4, EndpointFields
<1> HIDE DEF q, m
<1> QED
  BY <1>3, <1>5, <1>8, <1>10, <1>11, QueueSeparate

\* Sockets keep apart: whatever is bound, unbound, delivered and received, a
\* datagram has one receiver and a queue holds only its own socket's datagrams.
THEOREM SocketSafety == UdpSpec => []SocketsSeparate
<1>1. UdpInv /\ [UdpNext]_udp => UdpInv'
  <2> SUFFICES ASSUME UdpInv, [UdpNext]_udp PROVE UdpInv'
    OBVIOUS
  <2>1. CASE UNCHANGED udp
    BY <2>1 DEF UdpInv, SocketsSeparate, UdpTypeOK, DatagramsBelong, OneReceiver, Bound, PortsBound
  <2>2. CASE UdpNext
    BY <2>2, BindSeparate, DeliverSeparate, UnbindSeparate, ReceiveSeparate DEF UdpNext
  <2> QED
    BY <2>1, <2>2
<1>2. UdpInv => SocketsSeparate
  BY DEF UdpInv
<1> QED
  BY UdpStart, <1>1, <1>2, PTL DEF UdpSpec

-----------------------------------------------------------------------------
(* The ARP cache.                                                           *)

\* An address has one entry, with the hardware address last learnt for it.
ArpCurrent ==
    /\ \A i, j \in ArpSlot : (arp[i].valid /\ arp[j].valid /\ arp[i].protocol = arp[j].protocol) => i = j
    /\ \A i \in ArpSlot : arp[i].valid =>
          arp[i].protocol \in ArpAddresses /\ arp[i].hardware = learnt[arp[i].protocol]

TablesInv == NetTablesTypeOK /\ ArpCurrent /\ RoutesDistinct

\* The searches end at a member of what they look for.
LEMMA TableSearch ==
    ASSUME NEW n \in Nat, NEW S, S \subseteq 0 .. n - 1, S # {}
    PROVE  First(S) \in S /\ Latest(S) \in S
<1>1. S \in SUBSET Nat /\ S \subseteq 0 .. n
  OBVIOUS
<1>2. \E i \in S : \A j \in S : i <= j
  BY <1>1, LeastExists
<1>3. \E i \in S : \A j \in S : j <= i
  BY <1>1, GreatestExists
<1> QED
  BY <1>2, <1>3 DEF First, Latest

\* arp_cache_update always finds an entry, and it is the address's own if the
\* address has one.
LEMMA ArpSelection ==
    ASSUME TablesInv, NEW a
    PROVE  /\ ArpSelected(a) \in ArpSlot
           /\ ArpOf(a) # {} => ArpSelected(a) \in ArpOf(a)
<1>0. ArpSlots \in Nat \ {0} /\ ArpSlot = 0 .. ArpSlots - 1
  BY NetTablesAssumption DEF ArpSlot
<1>1. ArpOf(a) # {} => First(ArpOf(a)) \in ArpOf(a)
  BY <1>0, TableSearch DEF ArpOf
<1>2. ArpFree # {} => Latest(ArpFree) \in ArpFree
  BY <1>0, TableSearch DEF ArpFree
<1>3. ArpOldest # {}
  <2> DEFINE ages == {arp[i].last_seen : i \in ArpSlot}
  <2>1. \A i \in ArpSlot : arp[i].last_seen \in Nat
    BY NetTablesAssumption DEF TablesInv, NetTablesTypeOK, ArpEntry
  <2>2. 0 \in ArpSlot
    BY <1>0
  <2>3. ages \in SUBSET Nat /\ ages # {}
    BY <2>1, <2>2
  <2>4. PICK age \in ages : \A b \in ages : age <= b
    BY <2>3, LeastExists
  <2>5. PICK i \in ArpSlot : age = arp[i].last_seen
    BY <2>4
  <2>6. \A j \in ArpSlot : arp[i].last_seen <= arp[j].last_seen
    BY <2>4, <2>5
  <2> QED
    BY <2>6 DEF ArpOldest
<1>4. First(ArpOldest) \in ArpOldest
  BY <1>0, <1>3, TableSearch DEF ArpOldest
<1> QED
  BY <1>1, <1>2, <1>4 DEF ArpSelected, ArpOf, ArpFree, ArpOldest

\* Learning an address overwrites what was known of it.
LEMMA ArpUpdateStep ==
    ASSUME TablesInv, NEW a \in ArpAddresses, NEW h \in Hardware, arp_cache_update(a, h)
    PROVE  TablesInv'
<1> DEFINE s == ArpSelected(a)
           e == [valid |-> TRUE, protocol |-> a, hardware |-> h, last_seen |-> clock]
<1>1. s \in ArpSlot /\ (ArpOf(a) # {} => s \in ArpOf(a))
  BY ArpSelection
<1>2. /\ arp' = [arp EXCEPT ![s] = e]
      /\ learnt' = [learnt EXCEPT ![a] = h]
      /\ UNCHANGED <<clock, routes>>
  BY DEF arp_cache_update
<1> HIDE DEF s
<1>3. NetTablesTypeOK'
  <2>1. e \in ArpEntry
    BY DEF TablesInv, NetTablesTypeOK, ArpEntry
  <2> QED
    BY <1>1, <1>2, <2>1 DEF TablesInv, NetTablesTypeOK
<1>4. \A i \in ArpSlot : arp'[i] = IF i = s THEN e ELSE arp[i]
  BY <1>2 DEF TablesInv, NetTablesTypeOK
<1>5. \A i \in ArpSlot : i # s /\ arp[i].valid => arp[i].protocol # a
  BY <1>1 DEF ArpOf, TablesInv, ArpCurrent
<1>6. learnt'[a] = h /\ \A b \in ArpAddresses \ {a} : learnt'[b] = learnt[b]
  BY <1>2 DEF TablesInv, NetTablesTypeOK
<1>7. ArpCurrent'
  BY <1>1, <1>4, <1>5, <1>6 DEF TablesInv, ArpCurrent
<1>8. RoutesDistinct'
  BY <1>2 DEF TablesInv, RoutesDistinct, SameRoute, Masked
<1> QED
  BY <1>3, <1>7, <1>8 DEF TablesInv

\* Expiry only drops entries.
LEMMA ArpExpireStep ==
    ASSUME TablesInv, arp_cache_expire
    PROVE  TablesInv'
<1>1. \A i \in ArpSlot : arp'[i] = arp[i] \/ arp'[i] = [arp[i] EXCEPT !.valid = FALSE]
  BY DEF arp_cache_expire
<1>2. UNCHANGED <<learnt, routes>> /\ clock' \in 0 .. ArpTime
  BY NetTablesAssumption DEF arp_cache_expire, TablesInv, NetTablesTypeOK
<1>3. \A i \in ArpSlot : arp[i] \in ArpEntry
  BY DEF TablesInv, NetTablesTypeOK
<1>4. \A i \in ArpSlot :
          /\ arp'[i] \in ArpEntry
          /\ arp'[i].protocol = arp[i].protocol /\ arp'[i].hardware = arp[i].hardware
          /\ arp'[i].valid => arp[i].valid
  BY <1>1, <1>3 DEF ArpEntry
<1>5. arp' \in [ArpSlot -> ArpEntry]
  <2>1. \A i \in ArpSlot : (IF clock' - arp[i].last_seen < ArpMaxAge THEN arp[i]
                             ELSE [arp[i] EXCEPT !.valid = FALSE]) \in ArpEntry
    BY <1>3 DEF ArpEntry
  <2> QED
    BY <2>1, Zenon DEF arp_cache_expire
<1>6. NetTablesTypeOK'
  BY <1>2, <1>5 DEF TablesInv, NetTablesTypeOK
<1>7. ArpCurrent'
  <2>1. ASSUME NEW i \in ArpSlot, arp'[i].valid
        PROVE  /\ arp'[i].protocol \in ArpAddresses
               /\ arp'[i].hardware = learnt'[arp'[i].protocol]
    <3>1. /\ arp'[i].protocol = arp[i].protocol /\ arp'[i].hardware = arp[i].hardware
          /\ arp[i].valid /\ learnt' = learnt
      BY <1>2, <1>4, <2>1
    <3> QED
      BY <3>1 DEF TablesInv, ArpCurrent
  <2>2. ASSUME NEW i \in ArpSlot, NEW j \in ArpSlot, arp'[i].valid, arp'[j].valid,
               arp'[i].protocol = arp'[j].protocol
        PROVE  i = j
    <3>1. arp[i].valid /\ arp[j].valid /\ arp[i].protocol = arp[j].protocol
      BY <1>4, <2>2
    <3> QED
      BY <3>1 DEF TablesInv, ArpCurrent
  <2> QED
    BY <2>1, <2>2 DEF ArpCurrent
<1>8. RoutesDistinct'
  BY <1>2 DEF TablesInv, RoutesDistinct, SameRoute, Masked
<1> QED
  BY <1>6, <1>7, <1>8 DEF TablesInv

\* The answer of the cache is the entry's hardware address.
LEMMA ArpAnswer == ArpCurrent => ArpAnswersLast
<1> SUFFICES ASSUME ArpCurrent, NEW a \in ArpAddresses, ArpOf(a) # {}
             PROVE  arp[First(ArpOf(a))].hardware = learnt[a]
  BY DEF ArpAnswersLast, arp_cache_lookup
<1>1. First(ArpOf(a)) \in ArpOf(a)
  BY TableSearch, NetTablesAssumption DEF ArpOf, ArpSlot
<1> QED
  BY <1>1 DEF ArpCurrent, ArpOf

-----------------------------------------------------------------------------
(* The routes.                                                              *)

\* A power of two counts subsets, so it is a positive number.
LEMMA PowerPositive ==
    ASSUME NEW n \in Nat
    PROVE  2 ^ n \in Nat \ {0}
<1> DEFINE S == 1 .. n
<1>1. IsFiniteSet(S) /\ Cardinality(S) = n
  BY FS_Interval
<1>2. IsFiniteSet(SUBSET S) /\ Cardinality(SUBSET S) = 2 ^ n
  BY <1>1, FS_SUBSET
<1>3. Cardinality(SUBSET S) \in Nat
  BY <1>2, FS_CardinalityType
<1>4. Cardinality(SUBSET S) # 0
  <2>1. {} \in SUBSET S
    OBVIOUS
  <2> QED
    BY <1>2, <2>1, FS_EmptySet
<1> QED
  BY <1>2, <1>3, <1>4

\* Masking an address twice masks it once, and gives an address.
LEMMA MaskedTwice ==
    ASSUME NEW address \in Words, NEW prefix \in 0 .. AddressBits
    PROVE  /\ Masked(address, prefix) \in Words
           /\ Masked(Masked(address, prefix), prefix) = Masked(address, prefix)
<1>1. AddressBits \in Nat /\ AddressBits - prefix \in Nat
  BY NetTablesAssumption
<1>2. PICK m \in Nat \ {0} : m = 2 ^ (AddressBits - prefix)
  BY <1>1, PowerPositive
<1>3. PICK w \in Nat \ {0} : w = 2 ^ AddressBits
  BY <1>1, PowerPositive
<1>4. address \in 0 .. w - 1 /\ address \in Nat
  BY <1>3 DEF Words
<1>5. address - (address % m) \in 0 .. address /\ (address - (address % m)) % m = 0
  BY <1>4
<1>6. Masked(address, prefix) = address - (address % m)
  BY <1>2 DEF Masked
<1>7. Masked(address, prefix) \in Words
  BY <1>3, <1>4, <1>5, <1>6 DEF Words
<1>8. Masked(Masked(address, prefix), prefix) = Masked(address, prefix) - (Masked(address, prefix) % m)
  BY <1>2 DEF Masked
<1> QED
  BY <1>5, <1>6, <1>7, <1>8

\* A route is written or cleared: the slots that are then valid stay distinct.
LEMMA RouteWritten ==
    ASSUME TablesInv, NEW s \in RouteSlot, NEW r \in Route,
           routes' = [routes EXCEPT ![s] = r], UNCHANGED <<arp, learnt, clock>>,
           r.valid => /\ Masked(r.network, r.prefix) = r.network
                      /\ \A i \in RouteSlot \ {s} :
                            ~SameRoute(routes[i], r.network, r.prefix, r.interface)
    PROVE  TablesInv'
<1>1. NetTablesTypeOK'
  BY DEF TablesInv, NetTablesTypeOK
<1>2. ArpCurrent'
  BY DEF TablesInv, ArpCurrent
<1>3. \A i \in RouteSlot : routes'[i] = IF i = s THEN r ELSE routes[i]
  BY DEF TablesInv, NetTablesTypeOK
<1>4. ASSUME NEW i \in RouteSlot, routes'[i].valid
      PROVE  Masked(routes'[i].network, routes'[i].prefix) = routes'[i].network
  BY <1>3, <1>4 DEF TablesInv, RoutesDistinct
<1>5. ASSUME NEW i \in RouteSlot, NEW j \in RouteSlot, routes'[j].valid,
             SameRoute(routes'[i], routes'[j].network, routes'[j].prefix, routes'[j].interface)
      PROVE  i = j
  <2>1. CASE i = s /\ j # s
    BY <1>3, <1>5, <2>1 DEF SameRoute
  <2>2. CASE i # s /\ j = s
    BY <1>3, <1>5, <2>2 DEF SameRoute
  <2>3. CASE i # s /\ j # s
    BY <1>3, <1>5, <2>3 DEF TablesInv, RoutesDistinct
  <2> QED
    BY <2>1, <2>2, <2>3
<1>6. RoutesDistinct'
  BY <1>4, <1>5 DEF RoutesDistinct, SameRoute, Masked
<1> QED
  BY <1>1, <1>2, <1>6 DEF TablesInv

\* ipv4_route_add.
LEMMA RouteAddStep ==
    ASSUME TablesInv, NEW address \in Words, NEW prefix \in 0 .. AddressBits,
           NEW interface \in Interfaces, NEW metric \in Metrics,
           ipv4_route_add(address, prefix, interface, metric)
    PROVE  TablesInv'
<1> DEFINE network == Masked(address, prefix)
           same == {i \in RouteSlot : SameRoute(routes[i], network, prefix, interface)}
           free == {i \in RouteSlot : ~routes[i].valid}
           r == [valid |-> TRUE, network |-> network, prefix |-> prefix,
                 interface |-> interface, metric |-> metric]
<1>1. PICK s : s = IF same # {} THEN First(same) ELSE First(free)
  OBVIOUS
<1>2. /\ same \cup free # {}
      /\ routes' = [routes EXCEPT ![s] = r] /\ UNCHANGED <<arp, learnt, clock>>
  BY <1>1 DEF ipv4_route_add
<1>3. s \in RouteSlot /\ (same # {} => s \in same)
  <2>1. same # {} => First(same) \in same
    BY TableSearch, NetTablesAssumption DEF RouteSlot
  <2>2. free # {} => First(free) \in free
    BY TableSearch, NetTablesAssumption DEF RouteSlot
  <2> QED
    BY <1>1, <1>2, <2>1, <2>2
<1>4. network \in Words /\ Masked(network, prefix) = network
  BY MaskedTwice
<1>5. r \in Route
  BY <1>4 DEF Route
<1>6. \A i \in RouteSlot \ {s} : ~SameRoute(routes[i], network, prefix, interface)
  BY <1>3 DEF TablesInv, RoutesDistinct, SameRoute
<1>7. /\ Masked(r.network, r.prefix) = r.network
      /\ \A i \in RouteSlot \ {s} : ~SameRoute(routes[i], r.network, r.prefix, r.interface)
  BY <1>4, <1>6
<1> HIDE DEF r, network
<1> QED
  BY <1>2, <1>3, <1>5, <1>7, RouteWritten

\* ipv4_route_remove.
LEMMA RouteRemoveStep ==
    ASSUME TablesInv, NEW address \in Words, NEW prefix \in 0 .. AddressBits,
           NEW interface \in Interfaces, ipv4_route_remove(address, prefix, interface)
    PROVE  TablesInv'
<1> DEFINE same == {i \in RouteSlot : SameRoute(routes[i], Masked(address, prefix), prefix, interface)}
<1>1. PICK s \in RouteSlot : s = First(same)
  BY TableSearch, NetTablesAssumption DEF RouteSlot, ipv4_route_remove
<1> DEFINE r == [routes[s] EXCEPT !.valid = FALSE]
<1>2. routes' = [routes EXCEPT ![s] = r] /\ UNCHANGED <<arp, learnt, clock>>
  BY <1>1 DEF ipv4_route_remove
<1>3. routes[s] \in Route
  BY DEF TablesInv, NetTablesTypeOK
<1>4. r \in Route /\ ~r.valid
  BY <1>3 DEF Route
<1> HIDE DEF r
<1> QED
  BY <1>2, <1>4, RouteWritten

LEMMA TablesStart == NetTablesInit => TablesInv
<1> SUFFICES ASSUME NetTablesInit PROVE TablesInv
  OBVIOUS
<1>1. 0 \in Words
  BY PowerPositive, NetTablesAssumption DEF Words
<1>2. NetTablesTypeOK
  BY <1>1, NetTablesAssumption DEF NetTablesInit, NetTablesTypeOK, ArpEntry, Route
<1>3. (\A i \in ArpSlot : ~arp[i].valid) /\ \A i \in RouteSlot : ~routes[i].valid
  BY DEF NetTablesInit
<1> QED
  BY <1>2, <1>3 DEF TablesInv, ArpCurrent, RoutesDistinct, SameRoute

THEOREM TablesInvariant == NetTablesSpec => []TablesInv
<1>1. TablesInv /\ [ArpNext \/ RouteNext]_netTableVars => TablesInv'
  <2> SUFFICES ASSUME TablesInv, [ArpNext \/ RouteNext]_netTableVars PROVE TablesInv'
    OBVIOUS
  <2>1. CASE UNCHANGED netTableVars
    BY <2>1 DEF netTableVars, TablesInv, NetTablesTypeOK, ArpCurrent, RoutesDistinct, SameRoute, Masked
  <2>2. CASE ArpNext
    BY <2>2, ArpUpdateStep, ArpExpireStep DEF ArpNext
  <2>3. CASE RouteNext
    BY <2>3, RouteAddStep, RouteRemoveStep DEF RouteNext
  <2> QED
    BY <2>1, <2>2, <2>3
<1> QED
  BY TablesStart, <1>1, PTL DEF NetTablesSpec

\* The ARP cache answers with the hardware address last learnt or not at all,
\* and no route is in the table twice.
THEOREM TablesSafety == NetTablesSpec => []TablesSound
<1>1. TablesInv => TablesSound
  BY ArpAnswer DEF TablesInv, TablesSound
<1> QED
  BY <1>1, TablesInvariant, PTL

-----------------------------------------------------------------------------
(* The lookup.                                                              *)

\* What round i of the loop makes of the route selected so far.
Round(address, i, best) ==
    IF ~route_matches(routes[i - 1], address) THEN best
    ELSE IF best = RouteSlots \/ Displaces(routes[i - 1], routes[best]) THEN i - 1
    ELSE best

\* The loop of ipv4_route_lookup: it starts with no route, and each round
\* looks at one slot.
LEMMA LookupLoop ==
    ASSUME NEW address
    PROVE  \E f \in [0 .. RouteSlots -> 0 .. RouteSlots] :
              /\ f[0] = RouteSlots
              /\ \A i \in 1 .. RouteSlots : f[i] = Round(address, i, f[i - 1])
              /\ ipv4_route_lookup(address) = f[RouteSlots]
<1> DEFINE N == RouteSlots
           V == 0 .. N
           G == [p \in (1 .. N) \X V |-> Round(address, p[1], p[2])]
           Equation(f) == f = [i \in 0 .. N |-> IF i = 0 THEN N ELSE Round(address, i, f[i - 1])]
<1>0. N \in Nat /\ N \in V
  BY NetTablesAssumption
<1>1. \A i \in 1 .. N, v \in V : Round(address, i, v) \in V
  BY <1>0 DEF Round
<1>2. G \in [(1 .. N) \X V -> V]
  BY <1>1
<1>3. \A i \in 1 .. N, v \in V : G[<<i, v>>] = Round(address, i, v)
  OBVIOUS
<1> HIDE DEF G, V
<1>4. PICK f : IsLoop(f, N, V, N, G)
  BY <1>0, <1>2, LoopExists
<1>5. ASSUME NEW i \in 1 .. N PROVE f[i] = Round(address, i, f[i - 1])
  <2>1. i - 1 \in 0 .. N
    BY <1>0
  <2> QED
    BY <1>3, <1>4, <2>1 DEF IsLoop
<1>6. Equation(f)
  BY <1>0, <1>4, <1>5 DEF IsLoop
<1> DEFINE g == CHOOSE h : Equation(h)
<1>7. Equation(g)
  BY <1>6
<1>8. ipv4_route_lookup(address) = g[N]
  BY DEF ipv4_route_lookup, Round
<1> HIDE DEF g
<1>9. g[0] = N /\ \A i \in 1 .. N : g[i] = Round(address, i, g[i - 1])
  BY <1>0, <1>7
<1>10. ASSUME NEW i \in 0 .. N PROVE g[i] \in V
  <2> DEFINE I == {k \in 0 .. N : g[k] \in V}
  <2>1. 0 \in I
    BY <1>0, <1>9
  <2>2. ASSUME NEW k \in 0 .. N - 1, k \in I PROVE k + 1 \in I
    <3>1. k + 1 \in 1 .. N /\ (k + 1) - 1 = k /\ k + 1 \in 0 .. N
      BY <1>0
    <3>2. g[k + 1] = Round(address, k + 1, g[k])
      BY <1>9, <3>1
    <3> QED
      BY <1>1, <2>2, <3>1, <3>2
  <2> HIDE DEF I
  <2>3. i \in I
    BY <1>0, <2>1, <2>2, IntervalInduction
  <2> QED
    BY <2>3 DEF I
<1>11. g \in [0 .. N -> V]
  BY <1>7, <1>10
<1> QED
  BY <1>8, <1>9, <1>11 DEF V

\* The lookup prefers route k to j, or has no preference.
NoWorse(j, k) ==
    /\ routes[j].prefix <= routes[k].prefix
    /\ routes[j].prefix = routes[k].prefix => routes[k].metric <= routes[j].metric

\* The preference is a total preorder, and the one Displaces decides by.
LEMMA Preference ==
    ASSUME NetTablesTypeOK, NEW i \in RouteSlot, NEW j \in RouteSlot, NEW k \in RouteSlot
    PROVE  /\ NoWorse(i, i)
           /\ NoWorse(j, k) /\ NoWorse(k, i) => NoWorse(j, i)
           /\ Displaces(routes[i], routes[k]) => NoWorse(k, i)
           /\ ~Displaces(routes[i], routes[k]) => NoWorse(i, k)
<1>1. AddressBits \in Nat /\ Metrics \cup {0} \subseteq Nat
  BY NetTablesAssumption
<1>2. \A s \in RouteSlot : routes[s].prefix \in Nat /\ routes[s].metric \in Nat
  BY <1>1 DEF NetTablesTypeOK, Route
<1> QED
  BY <1>2 DEF NoWorse, Displaces

\* k is what the loop may have selected after i rounds.
BestOf(address, i, k) ==
    \/ /\ k = RouteSlots
       /\ \A j \in 0 .. i - 1 : ~route_matches(routes[j], address)
    \/ /\ k \in 0 .. i - 1 /\ route_matches(routes[k], address)
       /\ \A j \in 0 .. i - 1 : route_matches(routes[j], address) => NoWorse(j, k)

\* A round keeps the best of the slots seen so far.
LEMMA LookupRound ==
    ASSUME NetTablesTypeOK, NEW address, NEW i \in RouteSlot, NEW k, BestOf(address, i, k)
    PROVE  BestOf(address, i + 1, Round(address, i + 1, k))
<1> DEFINE Match(j) == route_matches(routes[j], address)
<1>0. RouteSlots \in Nat /\ RouteSlot = 0 .. RouteSlots - 1 /\ RouteSlots \notin RouteSlot
  BY NetTablesAssumption DEF RouteSlot
<1>1. /\ (i + 1) - 1 = i /\ i \in 0 .. i
      /\ \A j : j \in 0 .. i - 1 => j \in 0 .. i /\ j \in RouteSlot
      /\ \A j : j \in 0 .. i => j = i \/ j \in 0 .. i - 1
  BY <1>0
<1>2. CASE ~Match(i)
  <2>1. Round(address, i + 1, k) = k
    BY <1>1, <1>2 DEF Round
  <2> QED
    BY <1>1, <1>2, <2>1 DEF BestOf
<1>3. CASE Match(i) /\ k = RouteSlots
  <2>1. Round(address, i + 1, k) = i
    BY <1>1, <1>3 DEF Round
  <2>2. \A j \in 0 .. i - 1 : ~Match(j)
    BY <1>0, <1>1, <1>3 DEF BestOf
  <2> QED
    BY <1>1, <1>3, <2>1, <2>2, Preference DEF BestOf
<1>4. CASE Match(i) /\ k # RouteSlots
  <2>1. /\ k \in 0 .. i - 1 /\ k \in RouteSlot /\ Match(k)
        /\ \A j \in 0 .. i - 1 : Match(j) => NoWorse(j, k)
    BY <1>1, <1>4 DEF BestOf
  <2>2. CASE Displaces(routes[i], routes[k])
    <3>1. Round(address, i + 1, k) = i
      BY <1>1, <1>4, <2>2 DEF Round
    <3>2. NoWorse(k, i) /\ NoWorse(i, i)
      BY <2>1, <2>2, Preference
    <3>3. \A j \in 0 .. i - 1 : Match(j) => NoWorse(j, i)
      BY <1>1, <2>1, <3>2, Preference
    <3> QED
      BY <1>1, <1>4, <3>1, <3>2, <3>3 DEF BestOf
  <2>3. CASE ~Displaces(routes[i], routes[k])
    <3>1. Round(address, i + 1, k) = k
      BY <1>1, <1>4, <2>3 DEF Round
    <3>2. NoWorse(i, k)
      BY <2>1, <2>3, Preference
    <3> QED
      BY <1>1, <2>1, <3>1, <3>2 DEF BestOf
  <2> QED
    BY <2>2, <2>3
<1> QED
  BY <1>2, <1>3, <1>4

\* ipv4_route_lookup selects, of the routes that match, one with the longest
\* prefix and among these the lowest metric.
LEMMA LookupBest == NetTablesTypeOK => RouteIsBest
<1> SUFFICES ASSUME NetTablesTypeOK PROVE RouteIsBest
  OBVIOUS
<1>0. RouteSlots \in Nat /\ RouteSlot = 0 .. RouteSlots - 1 /\ RouteSlots \notin RouteSlot
  BY NetTablesAssumption DEF RouteSlot
<1>1. ASSUME NEW address \in Words
      PROVE  BestOf(address, RouteSlots, ipv4_route_lookup(address))
  <2>1. PICK f \in [0 .. RouteSlots -> 0 .. RouteSlots] :
            /\ f[0] = RouteSlots
            /\ \A i \in 1 .. RouteSlots : f[i] = Round(address, i, f[i - 1])
            /\ ipv4_route_lookup(address) = f[RouteSlots]
    BY LookupLoop
  <2> DEFINE I == {i \in 0 .. RouteSlots : BestOf(address, i, f[i])}
  <2>2. 0 \in I
    BY <1>0, <2>1 DEF BestOf
  <2>3. ASSUME NEW i \in 0 .. RouteSlots - 1, i \in I PROVE i + 1 \in I
    <3>1. i + 1 \in 0 .. RouteSlots /\ i + 1 \in 1 .. RouteSlots /\ (i + 1) - 1 = i /\ i \in RouteSlot
      BY <1>0
    <3>2. f[i + 1] = Round(address, i + 1, f[i])
      BY <2>1, <3>1
    <3> QED
      BY <2>3, <3>1, <3>2, LookupRound
  <2>4. RouteSlots \in 0 .. RouteSlots
    BY <1>0
  <2> HIDE DEF I
  <2>5. RouteSlots \in I
    BY <1>0, <2>2, <2>3, <2>4, IntervalInduction
  <2> QED
    BY <2>1, <2>5 DEF I
<1> QED
  BY <1>0, <1>1 DEF RouteIsBest, BestOf, NoWorse

\* Whatever routes were added and removed, a packet leaves by the best route.
THEOREM LookupSafety == NetTablesSpec => []RouteIsBest
<1>1. TablesInv => RouteIsBest
  BY LookupBest DEF TablesInv
<1> QED
  BY <1>1, TablesInvariant, PTL

-----------------------------------------------------------------------------
(* Reassembly.                                                              *)

\* An entry counts the units its bitmap names, knows no length or the right
\* one, and holds at the units named what its own datagram has there, unless
\* another datagram joined it.
EntrySound(e) ==
    /\ e \in Entry
    /\ e.valid => e.key \in Datagrams
    /\ e.received = Cardinality(e.bitmap)
    /\ e.total \in {0, Extent}
    /\ ~e.joined => \A p \in e.bitmap : e.payload[p] = <<e.key, p>>

TableSound(table) ==
    /\ table \in [ReassemblySlot -> Entry]
    /\ \A i \in ReassemblySlot : EntrySound(table[i])
    /\ \A i, j \in ReassemblySlot :
          (table[i].valid /\ table[j].valid /\ table[i].key = table[j].key) => i = j

ReassemblyInv == ReassemblySound /\ TableSound(entries)

\* The units of payload are finitely many.
LEMMA UnitsFinite ==
    /\ Extent \in Nat \ {0} /\ IsFiniteSet(Places) /\ Cardinality(Places) = Extent
    /\ \A S \in SUBSET Places : IsFiniteSet(S) /\ Cardinality(S) \in Nat
<1>1. Extent \in Nat \ {0}
  BY ReassemblyAssumption
<1>2. IsFiniteSet(Places) /\ Cardinality(Places) = Extent
  BY <1>1, FS_Interval DEF Places
<1> QED
  BY <1>1, <1>2, FS_Subset, FS_CardinalityType

LEMMA EmptySound == EntrySound(EmptyEntry) /\ ~EmptyEntry.valid
<1>1. Cardinality({}) = 0
  BY FS_EmptySet
<1>2. EmptyEntry \in Entry
  BY ReassemblyAssumption DEF EmptyEntry, Entry
<1> QED
  BY <1>1, <1>2 DEF EmptyEntry, EntrySound

\* Expiry only empties entries.
LEMMA ExpiredSound ==
    ASSUME NEW table, TableSound(table), NEW at
    PROVE  TableSound(Expired(table, at))
<1> DEFINE new == Expired(table, at)
<1>1. \A i \in ReassemblySlot : new[i] = table[i] \/ new[i] = EmptyEntry
  BY DEF Expired, clear_entry
<1>2. new = [i \in ReassemblySlot |-> new[i]]
  BY DEF Expired
<1> HIDE DEF new
<1>3. \A i \in ReassemblySlot : EntrySound(new[i]) /\ (new[i].valid => new[i] = table[i])
  BY <1>1, EmptySound DEF TableSound
<1>4. new \in [ReassemblySlot -> Entry]
  BY <1>2, <1>3 DEF EntrySound
<1>5. \A i, j \in ReassemblySlot : (new[i].valid /\ new[j].valid /\ new[i].key = new[j].key) => i = j
  BY <1>3 DEF TableSound
<1> QED
  BY <1>3, <1>4, <1>5 DEF TableSound, new

\* The search ends at an entry, and at the datagram's own if it has one.
LEMMA SelectedSlot ==
    ASSUME NEW table, TableSound(table), NEW d
    PROVE  /\ Selected(table, d) \in ReassemblySlot
           /\ \A i \in ReassemblySlot : table[i].valid /\ table[i].key = d => i = Selected(table, d)
<1> DEFINE same == {i \in ReassemblySlot : table[i].valid /\ table[i].key = d}
           free == {i \in ReassemblySlot : ~table[i].valid}
           oldest == {i \in ReassemblySlot :
                        \A j \in ReassemblySlot : table[i].last_seen <= table[j].last_seen}
<1>0. ReassemblySlots \in Nat \ {0} /\ ReassemblySlot = 0 .. ReassemblySlots - 1 /\ 0 \in ReassemblySlot
  BY ReassemblyAssumption DEF ReassemblySlot
<1>1. ASSUME NEW S \in SUBSET ReassemblySlot, S # {} PROVE MinOf(S) \in S /\ MaxOf(S) \in S
  <2>1. S \in SUBSET Nat /\ S \subseteq 0 .. ReassemblySlots
    BY <1>0
  <2>2. \E i \in S : \A j \in S : i <= j
    BY <1>1, <2>1, LeastExists
  <2>3. \E i \in S : \A j \in S : j <= i
    BY <1>0, <1>1, <2>1, GreatestExists
  <2> QED
    BY <2>2, <2>3 DEF MinOf, MaxOf
<1>2. oldest # {}
  <2> DEFINE ages == {table[i].last_seen : i \in ReassemblySlot}
  <2>1. \A i \in ReassemblySlot : table[i].last_seen \in Nat
    BY ReassemblyAssumption DEF TableSound, Entry
  <2>2. ages \in SUBSET Nat /\ ages # {}
    BY <1>0, <2>1
  <2>3. PICK age \in ages : \A b \in ages : age <= b
    BY <2>2, LeastExists
  <2>4. PICK i \in ReassemblySlot : age = table[i].last_seen
    BY <2>3
  <2>5. \A j \in ReassemblySlot : table[i].last_seen <= table[j].last_seen
    BY <2>3, <2>4
  <2> QED
    BY <2>5
<1>3. /\ same # {} => MinOf(same) \in same
      /\ free # {} => MaxOf(free) \in free
      /\ MinOf(oldest) \in oldest
  BY <1>1, <1>2
<1>4. Selected(table, d) = IF same # {} THEN MinOf(same) ELSE IF free # {} THEN MaxOf(free) ELSE MinOf(oldest)
  BY DEF Selected
<1>5. Selected(table, d) \in ReassemblySlot /\ (same # {} => Selected(table, d) \in same)
  BY <1>3, <1>4
<1> QED
  BY <1>5 DEF TableSound

\* The entry a fragment of d goes to, made ready for it.
LEMMA OpenedSound ==
    ASSUME NEW e, EntrySound(e), NEW d \in Datagrams
    PROVE  /\ EntrySound(Opened(e, d)) /\ Opened(e, d).valid
           /\ Opened(e, d).key = IF e.valid THEN e.key ELSE d
<1>1. CASE e.valid
  BY <1>1 DEF Opened
<1>2. CASE ~e.valid
  <2> DEFINE o == Opened(e, d)
  <2>1. e \in Entry
    BY DEF EntrySound
  <2>2. o = [e EXCEPT !.valid = TRUE, !.key = d, !.total = 0, !.received = 0, !.first = FALSE,
                     !.bitmap = {}, !.joined = FALSE]
    BY <1>2 DEF Opened
  <2>3. 0 \in 0 .. Extent
    BY UnitsFinite
  <2> HIDE DEF o
  <2>4. o \in Entry
    BY <2>1, <2>2, <2>3 DEF Entry
  <2>5. o.valid /\ o.key = d /\ o.total = 0 /\ o.received = 0 /\ o.bitmap = {}
    BY <2>1, <2>2 DEF Entry
  <2>6. EntrySound(o)
    BY <2>4, <2>5, FS_EmptySet DEF EntrySound
  <2> QED
    BY <1>2, <2>5, <2>6 DEF o
<1> QED
  BY <1>1, <1>2

\* The units of a fragment.
LEMMA FragmentUnits ==
    ASSUME NEW from \in Places, NEW to \in 1 .. Extent, from < to
    PROVE  from .. to - 1 \subseteq Places /\ Cardinality(from .. to - 1) = to - from
<1>1. from \in Nat /\ to \in Nat /\ Extent \in Nat /\ from .. to - 1 \subseteq Places
  BY UnitsFinite DEF Places
<1>2. Cardinality(from .. to - 1) = (to - 1) - from + 1
  BY <1>1, FS_Interval
<1> QED
  BY <1>1, <1>2

\* What Filled does to the fields of an entry.
FilledFrom(f, e, d, from, to, more) ==
    /\ f \in Entry /\ f.valid = e.valid /\ f.key = e.key
    /\ f.total = IF more THEN e.total ELSE to
    /\ f.bitmap = e.bitmap \cup (from .. to - 1)
    /\ f.received = e.received + (to - from)
    /\ f.joined = (e.joined \/ e.key # d)
    /\ \A p \in from .. to - 1 : f.payload[p] = <<d, p>>
    /\ \A p \in Places \ (from .. to - 1) : f.payload[p] = e.payload[p]

LEMMA FilledFields ==
    ASSUME NEW e \in Entry, NEW d \in Datagrams, NEW from \in Places, NEW to \in 1 .. Extent,
           from < to, NEW more \in BOOLEAN, now \in 0 .. MaxTime
    PROVE  FilledFrom(Filled(e, d, from, to, more), e, d, from, to, more)
<1> DEFINE pay == [p \in Places |-> IF p \in from .. to - 1 THEN <<d, p>> ELSE e.payload[p]]
<1>0. PICK f : f = Filled(e, d, from, to, more)
  OBVIOUS
<1>1. /\ from .. to - 1 \subseteq Places /\ Extent \in Nat /\ from \in Nat /\ to \in Nat
  BY FragmentUnits, UnitsFinite DEF Places
<1>2. e.payload \in [Places -> Unit \cup {<<0, 0>>}] /\ e.received \in Nat /\ e.bitmap \in SUBSET Places
  BY DEF Entry
<1>3. pay \in [Places -> Unit \cup {<<0, 0>>}]
  BY <1>2 DEF Unit
<1>4. /\ e.received + (to - from) \in Nat /\ (IF more THEN e.total ELSE to) \in 0 .. Extent
      /\ e.bitmap \cup (from .. to - 1) \in SUBSET Places
  BY <1>1, <1>2 DEF Entry
<1>5. f = [e EXCEPT !.total = IF more THEN @ ELSE to, !.bitmap = @ \cup (from .. to - 1),
                    !.payload = pay, !.received = @ + (to - from),
                    !.first = @ \/ from = 0, !.last_seen = now, !.joined = @ \/ e.key # d]
  BY <1>0 DEF Filled
<1>6. /\ \A p \in from .. to - 1 : pay[p] = <<d, p>>
      /\ \A p \in Places \ (from .. to - 1) : pay[p] = e.payload[p]
  BY <1>1
<1> HIDE DEF pay
<1>7. /\ f.valid = e.valid /\ f.key = e.key
      /\ f.total = IF more THEN e.total ELSE to
      /\ f.bitmap = e.bitmap \cup (from .. to - 1)
      /\ f.received = e.received + (to - from)
      /\ f.joined = (e.joined \/ e.key # d)
      /\ f.payload = pay
  BY <1>5 DEF Entry
<1>8. f \in Entry
  <2>1. f = [valid |-> e.valid, key |-> e.key, total |-> IF more THEN e.total ELSE to,
             received |-> e.received + (to - from), first |-> e.first \/ from = 0,
             bitmap |-> e.bitmap \cup (from .. to - 1), payload |-> pay, last_seen |-> now,
             joined |-> e.joined \/ e.key # d]
    BY <1>5 DEF Entry
  <2>2. e.valid \in BOOLEAN /\ e.key \in Datagrams \cup {0}
    BY DEF Entry
  <2> QED
    BY <1>3, <1>4, <2>1, <2>2 DEF Entry
<1> QED
  BY <1>0, <1>6, <1>7, <1>8 DEF FilledFrom

\* A fragment that does not conflict leaves its entry sound.
LEMMA FilledSound ==
    ASSUME NEW e, EntrySound(e), e.valid, NEW d \in Datagrams, NEW from \in Places, NEW to \in 1 .. Extent,
           from < to, ~Conflicts(e, from, to, to < Extent),
           NEW f, FilledFrom(f, e, d, from, to, to < Extent)
    PROVE  EntrySound(f)
<1> DEFINE new == from .. to - 1
<1>0. e.bitmap \in SUBSET Places
  BY DEF EntrySound, Entry
<1>2. new \subseteq Places /\ Cardinality(new) = to - from
  BY FragmentUnits
<1>3. e.bitmap \cap new = {}
  BY DEF Conflicts
<1>4. f.received = Cardinality(f.bitmap)
  <2>1. IsFiniteSet(e.bitmap) /\ IsFiniteSet(new)
    BY <1>0, <1>2, UnitsFinite
  <2>2. Cardinality(e.bitmap \cup new) = Cardinality(e.bitmap) + Cardinality(new) - Cardinality({})
    BY <1>3, <2>1, FS_Union
  <2>3. Cardinality({}) = 0 /\ Cardinality(e.bitmap) \in Nat /\ to - from \in Nat
    BY <1>0, UnitsFinite, FS_EmptySet DEF Places
  <2>4. Cardinality(e.bitmap \cup new) = e.received + (to - from)
    BY <1>2, <2>2, <2>3 DEF EntrySound
  <2> QED
    BY <2>4 DEF FilledFrom
<1>5. f.total \in {0, Extent}
  BY UnitsFinite DEF EntrySound, FilledFrom
<1>6. ASSUME ~f.joined, NEW p \in f.bitmap PROVE f.payload[p] = <<f.key, p>>
  <2>1. ~e.joined /\ e.key = d /\ f.key = d
    BY <1>6 DEF FilledFrom
  <2>2. p \in new \/ p \in e.bitmap \ new
    BY <1>6 DEF FilledFrom
  <2>3. CASE p \in new
    BY <2>1, <2>3 DEF FilledFrom
  <2>4. CASE p \in e.bitmap \ new
    BY <1>0, <2>1, <2>4 DEF FilledFrom, EntrySound
  <2> QED
    BY <2>2, <2>3, <2>4
<1> QED
  BY <1>4, <1>5, <1>6 DEF EntrySound, FilledFrom

\* A complete entry that only its own datagram used holds that datagram.
LEMMA CompleteWhole ==
    ASSUME NEW e, EntrySound(e), e.valid, Complete(e)
    PROVE  /\ e.total = Extent
           /\ [p \in 0 .. e.total - 1 |-> e.payload[p]] \in [0 .. Extent - 1 -> Unit \cup {<<0, 0>>}]
           /\ ~e.joined => Whole([p \in 0 .. e.total - 1 |-> e.payload[p]])
<1>1. e.total = Extent /\ Cardinality(e.bitmap) = Extent
  BY DEF EntrySound, Complete
<1>2. e.bitmap = Places
  <2>1. e.bitmap \in SUBSET Places
    BY DEF EntrySound, Entry
  <2> QED
    BY <1>1, <2>1, UnitsFinite, FS_Subset
<1>3. e.payload \in [Places -> Unit \cup {<<0, 0>>}]
  BY DEF EntrySound, Entry
<1>4. 0 .. e.total - 1 = Places
  BY <1>1 DEF Places
<1>5. ASSUME ~e.joined PROVE Whole([p \in 0 .. e.total - 1 |-> e.payload[p]])
  <2>1. \A p \in Places : e.payload[p] = <<e.key, p>>
    BY <1>2, <1>5 DEF EntrySound
  <2>2. e.key \in Datagrams
    BY DEF EntrySound
  <2>3. [p \in 0 .. e.total - 1 |-> e.payload[p]] = [p \in Places |-> <<e.key, p>>]
    BY <1>4, <2>1
  <2> QED
    BY <2>2, <2>3 DEF Whole
<1> QED
  BY <1>1, <1>3, <1>4, <1>5 DEF Places

\* The table with entry i replaced: another datagram's entry is not disturbed.
LEMMA TableWritten ==
    ASSUME NEW table, TableSound(table), NEW i \in ReassemblySlot, NEW e, EntrySound(e),
           e.valid => \A j \in ReassemblySlot : table[j].valid /\ table[j].key = e.key => j = i
    PROVE  TableSound([table EXCEPT ![i] = e])
<1> DEFINE new == [table EXCEPT ![i] = e]
<1>1. new \in [ReassemblySlot -> Entry]
  BY DEF TableSound, EntrySound
<1>2. \A j \in ReassemblySlot : new[j] = IF j = i THEN e ELSE table[j]
  BY DEF TableSound
<1> HIDE DEF new
<1>3. \A j \in ReassemblySlot : EntrySound(new[j])
  BY <1>2 DEF TableSound
<1>4. ASSUME NEW j \in ReassemblySlot, NEW k \in ReassemblySlot,
             new[j].valid, new[k].valid, new[j].key = new[k].key
      PROVE  j = k
  <2>1. CASE j = i
    BY <1>2, <1>4, <2>1
  <2>2. CASE k = i
    BY <1>2, <1>4, <2>2
  <2>3. CASE j # i /\ k # i
    BY <1>2, <1>4, <2>3 DEF TableSound
  <2> QED
    BY <2>1, <2>2, <2>3
<1> QED
  BY <1>1, <1>3, <1>4 DEF TableSound, new

\* What a step of the service may put out: nothing, or a whole payload.
OutSound(payload, joined) ==
    /\ joined \in BOOLEAN
    /\ \E n \in 0 .. Extent : payload \in [0 .. n - 1 -> Unit \cup {<<0, 0>>}]
    /\ payload = NoPayload \/ joined \/ Whole(payload)

LEMMA NothingOut == OutSound(NoPayload, FALSE)
<1>1. NoPayload \in [0 .. 0 - 1 -> Unit \cup {<<0, 0>>}] /\ 0 \in 0 .. Extent
  BY UnitsFinite DEF NoPayload
<1> QED
  BY <1>1 DEF OutSound

LEMMA ResultFields ==
    ASSUME NEW r, NEW t, NEW p, NEW j, r = [table |-> t, payload |-> p, joined |-> j]
    PROVE  r.table = t /\ r.payload = p /\ r.joined = j
OBVIOUS

\* ipv4_reassembly_add keeps the table sound and hands out whole payloads.
LEMMA AddSound ==
    ASSUME ReassemblyInv, NEW d \in Datagrams, NEW from \in Places, NEW to \in 1 .. Extent, from < to,
           NEW r, r = ipv4_reassembly_add(d, from, to, to < Extent)
    PROVE  TableSound(r.table) /\ OutSound(r.payload, r.joined)
<1> DEFINE more == to < Extent
<1>1. PICK table : table = Expired(entries, now)
  OBVIOUS
<1>2. PICK i : i = Selected(table, d)
  OBVIOUS
<1>3. PICK e : e = Opened(table[i], d)
  OBVIOUS
<1>4. PICK f : f = Filled(e, d, from, to, more)
  OBVIOUS
<1>5. TableSound(table) /\ now \in 0 .. MaxTime
  BY <1>1, ExpiredSound DEF ReassemblyInv, ReassemblySound, ReassemblyTypeOK
<1>6. /\ i \in ReassemblySlot
      /\ \A j \in ReassemblySlot : table[j].valid /\ table[j].key = d => j = i
  BY <1>2, <1>5, SelectedSlot
<1>7. EntrySound(e) /\ e.valid /\ e.key = IF table[i].valid THEN table[i].key ELSE d
  BY <1>3, <1>5, <1>6, OpenedSound DEF TableSound
<1>8. \A j \in ReassemblySlot : table[j].valid /\ table[j].key = e.key => j = i
  BY <1>5, <1>6, <1>7 DEF TableSound
<1>9. TableSound([table EXCEPT ![i] = EmptyEntry])
  BY <1>5, <1>6, EmptySound, TableWritten
<1>10. CASE Conflicts(e, from, to, more)
  <2>1. r = [table |-> [table EXCEPT ![i] = EmptyEntry], payload |-> NoPayload, joined |-> FALSE]
    BY <1>1, <1>2, <1>3, <1>10 DEF ipv4_reassembly_add, clear_entry
  <2>2. r.table = [table EXCEPT ![i] = EmptyEntry] /\ r.payload = NoPayload /\ r.joined = FALSE
    BY <2>1, ResultFields
  <2> QED
    BY <1>9, <2>2, NothingOut
<1>11. CASE ~Conflicts(e, from, to, more)
  <2>1. FilledFrom(f, e, d, from, to, more)
    <3>1. e \in Entry /\ more \in BOOLEAN
      BY <1>7 DEF EntrySound
    <3> HIDE DEF more
    <3> QED
      BY <1>4, <1>5, <3>1, FilledFields
  <2>2. EntrySound(f) /\ f.valid /\ f.key = e.key
    BY <1>7, <1>11, <2>1, FilledSound DEF FilledFrom
  <2>3. CASE ~Complete(f)
    <3>1. r = [table |-> [table EXCEPT ![i] = f], payload |-> NoPayload, joined |-> FALSE]
      BY <1>1, <1>2, <1>3, <1>4, <1>11, <2>3 DEF ipv4_reassembly_add
    <3>2. TableSound([table EXCEPT ![i] = f])
      BY <1>5, <1>6, <1>8, <2>2, TableWritten
    <3>3. r.table = [table EXCEPT ![i] = f] /\ r.payload = NoPayload /\ r.joined = FALSE
      BY <3>1, ResultFields
    <3> QED
      BY <3>2, <3>3, NothingOut
  <2>4. CASE Complete(f)
    <3> DEFINE payload == [p \in 0 .. f.total - 1 |-> f.payload[p]]
    <3>1. r = [table |-> [table EXCEPT ![i] = EmptyEntry], payload |-> payload, joined |-> f.joined]
      BY <1>1, <1>2, <1>3, <1>4, <1>11, <2>4 DEF ipv4_reassembly_add, clear_entry
    <3>2. payload \in [0 .. Extent - 1 -> Unit \cup {<<0, 0>>}] /\ (~f.joined => Whole(payload))
      BY <2>2, <2>4, CompleteWhole
    <3> HIDE DEF payload
    <3>3. Extent \in 0 .. Extent /\ f.joined \in BOOLEAN
      BY <2>2, UnitsFinite DEF EntrySound, Entry
    <3>4. OutSound(payload, f.joined)
      BY <3>2, <3>3 DEF OutSound
    <3>5. r.table = [table EXCEPT ![i] = EmptyEntry] /\ r.payload = payload /\ r.joined = f.joined
      BY <3>1, ResultFields
    <3> QED
      BY <1>9, <3>4, <3>5
  <2> QED
    BY <2>3, <2>4
<1> QED
  BY <1>10, <1>11

\* A step that leaves a sound table and puts out something sound.
LEMMA StepSound ==
    ASSUME TableSound(entries'), NEW payload, NEW joined, OutSound(payload, joined),
           out' = [payload |-> payload, joined |-> joined], now' \in 0 .. MaxTime
    PROVE  ReassemblyInv'
<1>1. ReassemblyTypeOK'
  BY DEF ReassemblyTypeOK, TableSound, OutSound
<1>2. PayloadWhole'
  BY DEF PayloadWhole, OutSound
<1>3. OneEntryPerDatagram'
  BY DEF OneEntryPerDatagram, TableSound
<1>4. TableSound(entries)'
  BY DEF TableSound, EntrySound, Entry, Unit
<1> QED
  BY <1>1, <1>2, <1>3, <1>4 DEF ReassemblyInv, ReassemblySound

LEMMA ReassemblyStart == ReassemblyInit => ReassemblyInv
<1> SUFFICES ASSUME ReassemblyInit PROVE ReassemblyInv
  OBVIOUS
<1>1. \A i \in ReassemblySlot : entries[i] = EmptyEntry
  BY DEF ReassemblyInit
<1>2. entries \in [ReassemblySlot -> Entry]
  BY EmptySound DEF ReassemblyInit, EntrySound
<1>3. TableSound(entries)
  BY <1>1, <1>2, EmptySound DEF TableSound
<1>4. ReassemblyTypeOK
  BY <1>2, NothingOut, ReassemblyAssumption DEF ReassemblyInit, ReassemblyTypeOK, OutSound
<1>5. PayloadWhole
  BY DEF ReassemblyInit, PayloadWhole
<1>6. OneEntryPerDatagram
  BY <1>3 DEF OneEntryPerDatagram, TableSound
<1> QED
  BY <1>3, <1>4, <1>5, <1>6 DEF ReassemblyInv, ReassemblySound

\* Whatever fragments arrive, in any order, repeated, overlapping or late, a
\* payload handed on from an entry of one datagram is that datagram, whole.
THEOREM ReassemblySafety == ReassemblySpec => []ReassemblySound
<1>1. ReassemblyInv /\ [ReassemblyNext]_reassemblyVars => ReassemblyInv'
  <2> SUFFICES ASSUME ReassemblyInv, [ReassemblyNext]_reassemblyVars PROVE ReassemblyInv'
    OBVIOUS
  <2>1. CASE UNCHANGED reassemblyVars
    BY <2>1 DEF reassemblyVars, ReassemblyInv, ReassemblySound, ReassemblyTypeOK, PayloadWhole,
                OneEntryPerDatagram, TableSound
  <2>2. ASSUME NEW d \in Datagrams, NEW from \in Places, NEW to \in 1 .. Extent,
               prepare_network_frame(d, from, to)
        PROVE  ReassemblyInv'
    <3>1. PICK r : r = ipv4_reassembly_add(d, from, to, to < Extent)
      OBVIOUS
    <3>2. /\ from < to /\ entries' = r.table
          /\ out' = [payload |-> r.payload, joined |-> r.joined] /\ now' = now
      BY <2>2, <3>1 DEF prepare_network_frame
    <3>3. TableSound(r.table) /\ OutSound(r.payload, r.joined)
      BY <3>1, <3>2, AddSound
    <3>4. now' \in 0 .. MaxTime
      BY <3>2 DEF ReassemblyInv, ReassemblySound, ReassemblyTypeOK
    <3> QED
      BY <3>2, <3>3, <3>4, StepSound
  <2>3. CASE ipv4_reassembly_expire
    <3>1. /\ entries' = Expired(entries, now + 1) /\ now' \in 0 .. MaxTime
          /\ out' = [payload |-> NoPayload, joined |-> FALSE]
      BY <2>3, ReassemblyAssumption
         DEF ipv4_reassembly_expire, ReassemblyInv, ReassemblySound, ReassemblyTypeOK
    <3>2. TableSound(Expired(entries, now + 1))
      BY ExpiredSound DEF ReassemblyInv
    <3> QED
      BY <3>1, <3>2, NothingOut, StepSound
  <2> QED
    BY <2>1, <2>2, <2>3 DEF ReassemblyNext
<1>2. ReassemblyInv => ReassemblySound
  BY DEF ReassemblyInv
<1> QED
  BY ReassemblyStart, <1>1, <1>2, PTL DEF ReassemblySpec
=============================================================================
