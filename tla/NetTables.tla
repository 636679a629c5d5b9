------------------------------ MODULE NetTables ------------------------------
(***************************************************************************)
(* The two tables outgoing packets are resolved with: the ARP cache         *)
(* (kernel/drivers/network/arp_cache.c) and the IPv4 routes (route.c).      *)
(* The two are independent and each call is one critical section.           *)
(*                                                                          *)
(* An IPv4 address of the route table is a word of AddressBits bits; the    *)
(* addresses of the cache are names, of which Unusable are those that       *)
(* protocol_valid or hardware_valid refuse.                                 *)
(***************************************************************************)
EXTENDS Integers, FiniteSets

CONSTANTS
    ArpAddresses,   \* protocol addresses
    Hardware,       \* hardware addresses
    Unusable,       \* broadcast, multicast and null addresses
    ArpSlots,       \* ARP_CACHE_CAPACITY
    ArpMaxAge,      \* max_age of arp_cache_expire
    ArpTime,        \* bound of the clock
    AddressBits,    \* width of an IPv4 address (32)
    RouteSlots,     \* IPV4_ROUTE_CAPACITY
    Interfaces,     \* interface ids
    Metrics         \* metrics

ASSUME NetTablesAssumption ==
    /\ {ArpSlots, ArpMaxAge, AddressBits, RouteSlots} \subseteq Nat \ {0}
    /\ ArpTime \in Nat /\ 0 \notin Interfaces /\ Metrics \subseteq Nat

VARIABLES
    arp,        \* the cache
    learnt,     \* history: learnt[a], the hardware address last seen for a
    clock,
    routes      \* the route table
netTableVars == <<arp, learnt, clock, routes>>

ArpSlot == 0 .. ArpSlots - 1
RouteSlot == 0 .. RouteSlots - 1
Words == 0 .. 2 ^ AddressBits - 1

ArpEntry == [valid : BOOLEAN, protocol : ArpAddresses \cup {0}, hardware : Hardware \cup {0},
             last_seen : 0 .. ArpTime]
Route == [valid : BOOLEAN, network : Words, prefix : 0 .. AddressBits, interface : Interfaces \cup {0},
          metric : Metrics \cup {0}]

\* Type correctness of the two tables.
NetTablesTypeOK ==
    /\ arp \in [ArpSlot -> ArpEntry]
    /\ learnt \in [ArpAddresses -> Hardware \cup {0}]
    /\ clock \in 0 .. ArpTime
    /\ routes \in [RouteSlot -> Route]

NetTablesInit ==
    /\ arp = [i \in ArpSlot |-> [valid |-> FALSE, protocol |-> 0, hardware |-> 0, last_seen |-> 0]]
    /\ learnt = [a \in ArpAddresses |-> 0]
    /\ clock = 0
    /\ routes = [i \in RouteSlot |-> [valid |-> FALSE, network |-> 0, prefix |-> 0,
                                      interface |-> 0, metric |-> 0]]

-----------------------------------------------------------------------------
(* The ARP cache.                                                           *)

First(S) == CHOOSE i \in S : \A j \in S : i <= j
Latest(S) == CHOOSE i \in S : \A j \in S : j <= i

ArpFree == {i \in ArpSlot : ~arp[i].valid}
ArpOldest == {i \in ArpSlot : \A j \in ArpSlot : arp[i].last_seen <= arp[j].last_seen}
ArpOf(a) == {i \in ArpSlot : arp[i].valid /\ arp[i].protocol = a}

\* Mutant: a free slot is taken before the table was searched.
FreeBeforeSame(a) ==
    IF ArpFree # {} THEN First(ArpFree)
    ELSE IF ArpOf(a) # {} THEN First(ArpOf(a)) ELSE First(ArpOldest)

\* The slot arp_cache_update writes: the address's own, else the last free one,
\* else the one not seen for longest.
ArpSelected(a) ==
    IF ArpOf(a) # {} THEN First(ArpOf(a))
    ELSE IF ArpFree # {} THEN Latest(ArpFree) ELSE First(ArpOldest)

\* network_service learns the sender of every ARP packet.
arp_cache_update(a, h) ==
    /\ {a, h} \cap Unusable = {}
    /\ arp' = [arp EXCEPT ![ArpSelected(a)] =
                  [valid |-> TRUE, protocol |-> a, hardware |-> h, last_seen |-> clock]]
    /\ learnt' = [learnt EXCEPT ![a] = h]
    /\ UNCHANGED <<clock, routes>>

arp_cache_lookup(a) == IF a \in Unusable \/ ArpOf(a) = {} THEN 0 ELSE arp[First(ArpOf(a))].hardware

\* The clock of the caller moves; entries that are too old are dropped.
arp_cache_expire ==
    /\ clock < ArpTime
    /\ clock' = clock + 1
    /\ arp' = [i \in ArpSlot |-> IF clock' - arp[i].last_seen < ArpMaxAge THEN arp[i]
                                 ELSE [arp[i] EXCEPT !.valid = FALSE]]
    /\ UNCHANGED <<learnt, routes>>

-----------------------------------------------------------------------------
(* The routes.                                                              *)

\* The address with all but its first prefix bits cleared.
Masked(address, prefix) == address - (address % 2 ^ (AddressBits - prefix))

SameRoute(r, network, prefix, interface) ==
    r.valid /\ r.network = network /\ r.prefix = prefix /\ r.interface = interface

\* A route of the same network, prefix and interface is replaced.
ipv4_route_add(address, prefix, interface, metric) ==
    LET network == Masked(address, prefix)
        same == {i \in RouteSlot : SameRoute(routes[i], network, prefix, interface)}
        free == {i \in RouteSlot : ~routes[i].valid}
    IN /\ same \cup free # {}
       /\ routes' = [routes EXCEPT ![IF same # {} THEN First(same) ELSE First(free)] =
                        [valid |-> TRUE, network |-> network, prefix |-> prefix,
                         interface |-> interface, metric |-> metric]]
       /\ UNCHANGED <<arp, learnt, clock>>

ipv4_route_remove(address, prefix, interface) ==
    LET same == {i \in RouteSlot : SameRoute(routes[i], Masked(address, prefix), prefix, interface)}
    IN /\ same # {}
       /\ routes' = [routes EXCEPT ![First(same)].valid = FALSE]
       /\ UNCHANGED <<arp, learnt, clock>>

route_matches(r, address) == r.valid /\ Masked(address, r.prefix) = r.network

\* Mutant: the metric is compared before the prefix.
CheapestFirst(r, best) ==
    r.metric < best.metric \/ (r.metric = best.metric /\ r.prefix > best.prefix)

\* A later route displaces the one selected so far.
Displaces(r, best) ==
    r.prefix > best.prefix \/ (r.prefix = best.prefix /\ r.metric < best.metric)

\* ipv4_route_lookup: the loop over the table; RouteSlots stands for no route.
ipv4_route_lookup(address) ==
    LET selected[i \in 0 .. RouteSlots] ==
            IF i = 0 THEN RouteSlots
            ELSE LET best == selected[i - 1]
                 IN IF ~route_matches(routes[i - 1], address) THEN best
                    ELSE IF best = RouteSlots \/ Displaces(routes[i - 1], routes[best]) THEN i - 1
                    ELSE best
    IN selected[RouteSlots]

ArpNext ==
    \/ \E a \in ArpAddresses, h \in Hardware : arp_cache_update(a, h)
    \/ arp_cache_expire

RouteNext ==
    \E address \in Words, prefix \in 0 .. AddressBits, interface \in Interfaces :
        \/ \E metric \in Metrics : ipv4_route_add(address, prefix, interface, metric)
        \/ ipv4_route_remove(address, prefix, interface)

NetTablesSpec == NetTablesInit /\ [][ArpNext \/ RouteNext]_netTableVars

-----------------------------------------------------------------------------
\* The cache answers with the hardware address last learnt, or not at all:
\* no older entry of the address hides behind a newer one.
ArpAnswersLast == \A a \in ArpAddresses : arp_cache_lookup(a) \in {0, learnt[a]}

\* A route is in the table once, and its network has no bits beyond the prefix:
\* removing a route leaves none of it.
RoutesDistinct ==
    \A i, j \in RouteSlot :
        /\ routes[i].valid => Masked(routes[i].network, routes[i].prefix) = routes[i].network
        /\ (routes[j].valid /\ SameRoute(routes[i], routes[j].network, routes[j].prefix,
                                         routes[j].interface)) => i = j

\* The two tables while entries are learnt, expire, are replaced and removed:
\* typed, never answering with an old hardware address, no route twice.
TablesSound == NetTablesTypeOK /\ ArpAnswersLast /\ RoutesDistinct

\* The lookup gives a route exactly when one matches, and then one with the
\* longest prefix and, among these, the lowest metric.
RouteIsBest ==
    \A address \in Words :
        LET matching == {i \in RouteSlot : route_matches(routes[i], address)}
            k == ipv4_route_lookup(address)
        IN IF matching = {} THEN k = RouteSlots
           ELSE /\ k \in matching
                /\ \A i \in matching : routes[i].prefix <= routes[k].prefix
                /\ \A i \in matching : routes[i].prefix = routes[k].prefix =>
                        routes[k].metric <= routes[i].metric
=============================================================================
