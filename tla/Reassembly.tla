----------------------------- MODULE Reassembly ------------------------------
(***************************************************************************)
(* IPv4 reassembly (kernel/drivers/network/reassembly.c) as network_service *)
(* drives it: the fragments of a datagram arrive in any order, repeated or  *)
(* never, cut in any way.                                                   *)
(*                                                                          *)
(* A datagram stands for the key of same_datagram and is Extent units of    *)
(* payload long.  A unit of payload is the pair of its datagram and its     *)
(* place.  now is the clock network_service is called with.                 *)
(***************************************************************************)
EXTENDS Integers

CONSTANTS
    Datagrams,      \* the datagrams in flight
    Extent,         \* units of payload in a datagram
    ReassemblySlots,\* IPV4_REASSEMBLY_SLOTS (4)
    Timeout,        \* the 1000 ticks network_service passes
    MaxTime         \* bound of the clock

ASSUME ReassemblyAssumption ==
    /\ {Extent, ReassemblySlots, Timeout} \subseteq Nat \ {0}
    /\ MaxTime \in Nat

Places == 0 .. Extent - 1
Unit == Datagrams \X Places
ReassemblySlot == 0 .. ReassemblySlots - 1

VARIABLES
    entries,    \* the reassembly table
    now,        \* the clock
    out         \* the payload the last fragment completed, and whether its
                \* entry had been joined by another datagram
reassemblyVars == <<entries, now, out>>

\* <<0, 0>> in payload is whatever the buffer held before.  joined is history:
\* a fragment of another datagram was put in the entry.
Entry == [valid : BOOLEAN, key : Datagrams \cup {0}, total : 0 .. Extent,
          received : Nat, first : BOOLEAN, bitmap : SUBSET Places,
          payload : [Places -> Unit \cup {<<0, 0>>}], last_seen : 0 .. MaxTime, joined : BOOLEAN]

NoPayload == [p \in {} |-> <<0, 0>>]

\* Type correctness of the reassembly table.
ReassemblyTypeOK ==
    /\ entries \in [ReassemblySlot -> Entry]
    /\ now \in 0 .. MaxTime
    /\ \E n \in 0 .. Extent :
          out \in [payload : [0 .. n - 1 -> Unit \cup {<<0, 0>>}], joined : BOOLEAN]

EmptyEntry == [valid |-> FALSE, key |-> 0, total |-> 0, received |-> 0, first |-> FALSE,
               bitmap |-> {}, payload |-> [p \in Places |-> <<0, 0>>], last_seen |-> 0,
               joined |-> FALSE]

ReassemblyInit ==
    /\ entries = [i \in ReassemblySlot |-> EmptyEntry]
    /\ now = 0
    /\ out = [payload |-> NoPayload, joined |-> FALSE]

-----------------------------------------------------------------------------
\* The fields of an entry that is not valid are set again before they are read,
\* so they are given one value here.
clear_entry(e) == EmptyEntry

Expired(table, at) ==
    [i \in ReassemblySlot |->
        IF table[i].valid /\ at >= table[i].last_seen /\ at - table[i].last_seen >= Timeout
        THEN clear_entry(table[i]) ELSE table[i]]

MaxOf(S) == CHOOSE i \in S : \A j \in S : j <= i
MinOf(S) == CHOOSE i \in S : \A j \in S : i <= j

\* Mutant: the first free slot ends the search.
FirstFree(table, d) ==
    LET free == {i \in ReassemblySlot : ~table[i].valid}
        same == {i \in ReassemblySlot : table[i].valid /\ table[i].key = d}
    IN IF free # {} THEN MinOf(free) ELSE IF same # {} THEN MinOf(same) ELSE 0

\* The entry of datagram d, else the last free one, else the one not seen for
\* longest.
Selected(table, d) ==
    LET same == {i \in ReassemblySlot : table[i].valid /\ table[i].key = d}
        free == {i \in ReassemblySlot : ~table[i].valid}
        oldest == {i \in ReassemblySlot :
                     \A j \in ReassemblySlot : table[i].last_seen <= table[j].last_seen}
    IN IF same # {} THEN MinOf(same) ELSE IF free # {} THEN MaxOf(free) ELSE MinOf(oldest)

\* A free entry is made the datagram's; a used one is taken as it is.
Opened(e, d) ==
    IF e.valid THEN e
    ELSE [e EXCEPT !.valid = TRUE, !.key = d, !.total = 0, !.received = 0, !.first = FALSE,
                   !.bitmap = {}, !.joined = FALSE]

\* Mutant: a repeated fragment is counted again.
NoOverlapCheck(e, from, to, more) ==
    (e.total # 0 /\ to > e.total) \/ (~more /\ e.total \notin {0, to})

\* A fragment that does not fit what is known drops the whole entry.
Conflicts(e, from, to, more) ==
    \/ e.total # 0 /\ to > e.total
    \/ ~more /\ e.total \notin {0, to}
    \/ \E p \in from .. to - 1 : p \in e.bitmap

\* The fragment is copied into the entry and counted.
Filled(e, d, from, to, more) ==
    [e EXCEPT !.total = IF more THEN @ ELSE to,
              !.bitmap = @ \cup (from .. to - 1),
              !.payload = [p \in Places |-> IF p \in from .. to - 1 THEN <<d, p>> ELSE @[p]],
              !.received = @ + (to - from),
              !.first = @ \/ from = 0, !.last_seen = now,
              !.joined = @ \/ e.key # d]

Complete(e) == e.first /\ e.total # 0 /\ e.received = e.total

\* ipv4_reassembly_add: the fragment [from, to) of d; the table it leaves and
\* the payload it hands out, if any.
ipv4_reassembly_add(d, from, to, more) ==
    LET table == Expired(entries, now)
        i == Selected(table, d)
        e == Opened(table[i], d)
        filled == Filled(e, d, from, to, more)
    IN IF Conflicts(e, from, to, more)
       THEN [table |-> [table EXCEPT ![i] = clear_entry(e)], payload |-> NoPayload, joined |-> FALSE]
       ELSE IF ~Complete(filled)
       THEN [table |-> [table EXCEPT ![i] = filled], payload |-> NoPayload, joined |-> FALSE]
       ELSE [table |-> [table EXCEPT ![i] = clear_entry(filled)],
             payload |-> [p \in 0 .. filled.total - 1 |-> filled.payload[p]],
             joined |-> filled.joined]

\* network_service for a fragment, which is never a whole datagram.
prepare_network_frame(d, from, to) ==
    LET r == ipv4_reassembly_add(d, from, to, to < Extent)
    IN /\ from < to /\ to - from < Extent
       /\ entries' = r.table
       /\ out' = [payload |-> r.payload, joined |-> r.joined]
       /\ UNCHANGED now

\* Time passes and network_service expires what is too old.
ipv4_reassembly_expire ==
    /\ now < MaxTime
    /\ now' = now + 1
    /\ entries' = Expired(entries, now + 1)
    /\ out' = [payload |-> NoPayload, joined |-> FALSE]

ReassemblyNext ==
    \/ \E d \in Datagrams, from \in Places, to \in 1 .. Extent : prepare_network_frame(d, from, to)
    \/ ipv4_reassembly_expire

ReassemblySpec == ReassemblyInit /\ [][ReassemblyNext]_reassemblyVars

-----------------------------------------------------------------------------
Whole(payload) == \E d \in Datagrams : payload = [p \in Places |-> <<d, p>>]

\* What reassembly hands out from an entry that only its own datagram used is
\* that datagram, every unit in its place: no fragment lost, repeated or left
\* over from a datagram that was given up.
PayloadWhole == (out.payload # NoPayload /\ ~out.joined) => Whole(out.payload)

\* A datagram has one entry.
OneEntryPerDatagram ==
    \A i, j \in ReassemblySlot :
        (entries[i].valid /\ entries[j].valid /\ entries[i].key = entries[j].key) => i = j

\* Fragments of several datagrams, with timeouts: one entry per datagram, and
\* only a whole payload is handed on.
ReassemblySound == ReassemblyTypeOK /\ PayloadWhole /\ OneEntryPerDatagram
=============================================================================
