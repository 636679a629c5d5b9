-------------------------------- MODULE Tcp ---------------------------------
(***************************************************************************)
(* TCP connections (kernel/drivers/network/tcp.c), their endpoint table     *)
(* (tcp_endpoint.c) and the TCP part of network_service (network.c).        *)
(*                                                                          *)
(* Two hosts run this code: the client opens connections from the ports in  *)
(* ClientPorts to ServerPort, where the server listens.  The medium loses,  *)
(* repeats and reorders: wire holds every segment ever sent, and any of     *)
(* them may arrive at any time, again, or never.  A payload is one unit of  *)
(* sequence space, numbered so that the stream can be followed.  Sequence   *)
(* numbers are SeqWidth-bit words and compared as the code compares them.   *)
(***************************************************************************)
EXTENDS Integers, Sequences, FiniteSets

CONSTANTS
    ClientPorts,    \* ports the client connects from
    ServerPort,     \* the port the server listens on
    SeqWidth,       \* width of a sequence number in bits (32)
    FirstSequences, \* initial sequence numbers the client may choose
    TcpSlots,       \* TCP_ENDPOINT_CAPACITY (8)
    TcpQueue,       \* TCP_ENDPOINT_QUEUE_CAPACITY (8)
    MaxRetries,     \* TCP_RETRANSMIT_MAX_RETRIES (3)
    Windows,        \* Windows[h]: the receive window host h announces
    Budget,         \* bound: Budget[h] segments are built by an endpoint of host h
    UnbindStates,   \* bound: the states an owner unbinds its endpoint in, once
    MaxSegments     \* the largest of these bounds

ASSUME TcpAssumption ==
    /\ 0 \notin ClientPorts \cup {ServerPort}
    /\ \A h \in {"client", "server"} : Budget[h] \in 0 .. MaxSegments
    /\ {SeqWidth, TcpSlots, TcpQueue, MaxRetries, MaxSegments} \subseteq Nat

Hosts == {"client", "server"}
Peer(h) == CHOOSE g \in Hosts : g # h
Seq32 == 0 .. 2 ^ SeqWidth - 1
Plus(s, n) == (s + n) % 2 ^ SeqWidth
Distance(s, t) == (t - s) % 2 ^ SeqWidth    \* from s up to t
TcpSlot == 1 .. TcpSlots

VARIABLES
    endpoints,  \* endpoints[h][i]: slot i of the table of host h
    wire,       \* every segment sent so far
    unbound     \* history: the ports of an unbound endpoint
tcpVars == <<endpoints, wire, unbound>>

Segment == [from : Hosts, sport : ClientPorts \cup {ServerPort},
            dport : ClientPorts \cup {ServerPort},
            flags : SUBSET {"SYN", "ACK", "FIN", "RST"},
            seq : Seq32, ack : Seq32, window : {Windows[h] : h \in Hosts},
            data : 0 .. MaxSegments]

TcpStates == {"CLOSED", "LISTEN", "SYN_SENT", "SYN_RECEIVED", "ESTABLISHED", "FIN_WAIT_1",
              "FIN_WAIT_2", "TIME_WAIT", "CLOSE_WAIT", "LAST_ACK"}

Endpoint == [valid : BOOLEAN, state : TcpStates,
             lport : ClientPorts \cup {ServerPort, 0}, rport : ClientPorts \cup {ServerPort, 0},
             una : Seq32, next : Seq32, rcv : Seq32, peerWindow : 0 .. 2 ^ SeqWidth,
             pending : BOOLEAN, record : Seq32 \X Seq32, retries : 0 .. MaxRetries,
             queue : UNION {[1 .. n -> 1 .. MaxSegments] : n \in 0 .. TcpQueue},
             dropped : BOOLEAN,
             built : 0 .. MaxSegments, sent : 0 .. MaxSegments,     \* history
             got : 0 .. MaxSegments]

\* tcp_connection_initialize and the queue of a new endpoint.  record is the
\* sequence range of the retransmission record.
Fresh(h, lport) ==
    [valid |-> TRUE, state |-> "CLOSED", lport |-> lport, rport |-> 0, una |-> 0, next |-> 0,
     rcv |-> 0, peerWindow |-> Windows[h], pending |-> FALSE, record |-> <<0, 0>>,
     retries |-> 0, queue |-> <<>>, dropped |-> FALSE, built |-> 0, sent |-> 0, got |-> 0]

TcpInit ==
    /\ endpoints = [h \in Hosts |-> [i \in TcpSlot |-> [Fresh(h, 0) EXCEPT !.valid = FALSE]]]
    /\ wire = {}
    /\ unbound = {}

LowestSlot(S) == CHOOSE i \in S : \A j \in S : i <= j
FreeSlots(h) == {i \in TcpSlot : ~endpoints[h][i].valid}

-----------------------------------------------------------------------------
(* One segment at one connection: what tcp_connection_receive answers, the  *)
(* connection it leaves, the reply it asks for and the payload it accepts.  *)

Rejected(c) == [ok |-> FALSE, c |-> c, reply |-> {}, seq |-> 0, data |-> 0]
Accepts(c) == [ok |-> TRUE, c |-> c, reply |-> {}, seq |-> 0, data |-> 0]
Replies(c, flags, seq, data) == [ok |-> TRUE, c |-> c, reply |-> flags, seq |-> seq, data |-> data]

\* Our last number is acknowledged and the retransmission record dropped.
Acknowledged(c, s) ==
    [c EXCEPT !.una = c.next, !.peerWindow = s.window, !.pending = FALSE]

\* States before and after the exchange of data.
Handshake(c, s) ==
    CASE c.state = "LISTEN" /\ "SYN" \in s.flags ->
            Replies([c EXCEPT !.rport = s.sport, !.rcv = Plus(s.seq, 1), !.next = 1, !.una = 0,
                              !.peerWindow = s.window, !.state = "SYN_RECEIVED"],
                    {"SYN", "ACK"}, 0, 0)
      [] c.state = "SYN_SENT" /\ {"SYN", "ACK"} \subseteq s.flags /\ s.ack = c.next ->
            IF s.ack < c.una THEN Rejected(c)
            ELSE Replies([Acknowledged(c, s) EXCEPT !.rcv = Plus(s.seq, 1), !.state = "ESTABLISHED"],
                         {"ACK"}, c.next, 0)
      [] c.state = "SYN_RECEIVED" /\ "SYN" \in s.flags /\ Plus(s.seq, 1) = c.rcv ->
            Replies(c, {"SYN", "ACK"}, c.una, 0)
      [] c.state = "SYN_RECEIVED" /\ ~("SYN" \in s.flags /\ Plus(s.seq, 1) = c.rcv)
         /\ "ACK" \in s.flags /\ s.ack = c.next ->
            Accepts([Acknowledged(c, s) EXCEPT !.state = "ESTABLISHED"])
      [] c.state = "FIN_WAIT_1" /\ "ACK" \in s.flags /\ s.ack = c.next ->
            Accepts([Acknowledged(c, s) EXCEPT !.state = "FIN_WAIT_2"])
      [] c.state = "FIN_WAIT_2" /\ "FIN" \in s.flags /\ s.seq = c.rcv ->
            Replies([c EXCEPT !.rcv = Plus(@, 1), !.state = "TIME_WAIT"], {"ACK"}, c.next, 0)
      [] c.state = "LAST_ACK" /\ "ACK" \in s.flags /\ s.ack = c.next ->
            Accepts([c EXCEPT !.una = c.next, !.state = "CLOSED"])
      [] OTHER -> Rejected(c)

\* Mutant: the payload of a segment that closes the stream is left out.
FinDropsPayload(c, s) ==
    IF "ACK" \notin s.flags \/ s.ack < c.una \/ s.ack > c.next THEN Rejected(c)
    ELSE IF s.seq # c.rcv THEN Replies(c, {"ACK"}, c.next, 0)
    ELSE LET fin == "FIN" \in s.flags
             data == IF s.data # 0 THEN 1 ELSE 0
         IN Replies([c EXCEPT !.una = s.ack, !.rcv = Plus(@, IF fin THEN data + 1 ELSE data),
                              !.state = IF fin THEN "CLOSE_WAIT" ELSE @],
                    {"ACK"}, c.next, IF fin THEN 0 ELSE s.data)

\* ESTABLISHED and CLOSE_WAIT: segments in sequence; others are answered by a
\* duplicate acknowledgement.
Stream(c, s) ==
    IF "ACK" \notin s.flags \/ s.ack < c.una \/ s.ack > c.next THEN Rejected(c)
    ELSE IF s.seq # c.rcv THEN Replies(c, {"ACK"}, c.next, 0)
    ELSE LET fin == "FIN" \in s.flags
             advance == (IF s.data # 0 THEN 1 ELSE 0) + (IF fin THEN 1 ELSE 0)
         IN Replies([c EXCEPT !.una = s.ack, !.peerWindow = s.window,
                              !.pending = @ /\ s.ack < c.record[2],
                              !.rcv = Plus(@, advance),
                              !.state = IF fin THEN "CLOSE_WAIT" ELSE @],
                    {"ACK"}, c.next, s.data)

tcp_connection_receive(c, s) ==
    IF "RST" \in s.flags THEN Replies([c EXCEPT !.state = "CLOSED"], {"RST"}, 0, 0)
    ELSE IF c.state \in {"ESTABLISHED", "CLOSE_WAIT"} THEN Stream(c, s)
    ELSE Handshake(c, s)

-----------------------------------------------------------------------------
(* The endpoint table and the service.                                      *)

\* The endpoint of the connection s belongs to.
Matching(h, s) ==
    {i \in TcpSlot : /\ endpoints[h][i].valid
                     /\ endpoints[h][i].lport = s.dport
                     /\ endpoints[h][i].rport = s.sport}

Listening(h, s) ==
    {i \in TcpSlot : /\ endpoints[h][i].valid
                     /\ endpoints[h][i].state = "LISTEN"
                     /\ endpoints[h][i].lport = s.dport}

\* network_build_tcp_response: the reply announces the window of the segment
\* it answers.
network_build_tcp_response(h, s, r) ==
    [from |-> h, sport |-> s.dport, dport |-> s.sport, flags |-> r.reply,
     seq |-> r.seq, ack |-> r.c.rcv, window |-> s.window, data |-> 0]

\* network_build_tcp_reset: the numbers of a reset are left out, since
\* tcp_connection_receive does not look at them.
network_build_tcp_reset(h, s) ==
    [from |-> h, sport |-> s.dport, dport |-> s.sport, flags |-> {"RST"},
     seq |-> 0, ack |-> 0, window |-> Windows[h], data |-> 0]

Reset(h, s) == IF "RST" \in s.flags THEN {} ELSE {network_build_tcp_reset(h, s)}

\* tcp_endpoint_deliver after an endpoint, old or new, was found: the receive
\* edge has moved when a full queue drops the payload.
Deliver(h, i, c, s) ==
    LET r == tcp_connection_receive(c, s)
        full == r.data # 0 /\ Len(c.queue) = TcpQueue
        queued == [r.c EXCEPT !.queue = IF r.data # 0 /\ ~full THEN Append(@, r.data) ELSE @,
                              !.dropped = @ \/ full,
                              !.got = IF r.data # 0 /\ ~full THEN r.data ELSE @]
    IN IF ~r.ok THEN wire' = wire \cup Reset(h, s) /\ UNCHANGED endpoints
       ELSE /\ endpoints' = [endpoints EXCEPT ![h][i] = queued]
            /\ wire' = wire \cup (IF full THEN Reset(h, s)
                                  ELSE IF r.reply \in {{}, {"RST"}} THEN {}
                                  ELSE {network_build_tcp_response(h, s, r)})

\* The endpoint tcp_endpoint_deliver hands s to: the connection's own, or a new
\* child of the listener.
Target(h, s) ==
    IF Matching(h, s) # {}
    THEN LET i == LowestSlot(Matching(h, s)) IN {<<i, endpoints[h][i]>>}
    ELSE IF "SYN" \in s.flags /\ Listening(h, s) # {} /\ FreeSlots(h) # {}
    THEN {<<LowestSlot(FreeSlots(h)), [Fresh(h, s.dport) EXCEPT !.state = "LISTEN"]>>}
    ELSE {}

\* network_service, for TCP: one segment for host h.
network_service_tcp(h, s) ==
    /\ s.from = Peer(h)
    /\ UNCHANGED unbound
    /\ IF Target(h, s) = {}
       THEN wire' = wire \cup Reset(h, s) /\ UNCHANGED endpoints
       ELSE \E t \in Target(h, s) : Deliver(h, t[1], t[2], s)

tcp_endpoint_listen ==
    /\ \A i \in TcpSlot : ~(endpoints["server"][i].valid /\ endpoints["server"][i].lport = ServerPort)
    /\ FreeSlots("server") # {}
    /\ endpoints' = [endpoints EXCEPT !["server"][LowestSlot(FreeSlots("server"))] =
                        [Fresh("server", ServerPort) EXCEPT !.state = "LISTEN"]]
    /\ UNCHANGED <<wire, unbound>>

\* tcp_endpoint_connect; the history says the port is used once.
tcp_endpoint_connect(p, isn) ==
    /\ \A s \in wire : s.sport # p
    /\ FreeSlots("client") # {}
    /\ endpoints' = [endpoints EXCEPT !["client"][LowestSlot(FreeSlots("client"))] =
                        [Fresh("client", p) EXCEPT !.rport = ServerPort, !.next = Plus(isn, 1),
                              !.una = isn, !.state = "SYN_SENT", !.pending = TRUE,
                              !.record = <<isn, 0>>]]
    /\ wire' = wire \cup {[from |-> "client", sport |-> p, dport |-> ServerPort,
                           flags |-> {"SYN"}, seq |-> isn, ack |-> 0,
                           window |-> Windows["client"], data |-> 0]}
    /\ UNCHANGED unbound

WindowOpen(c, space) ==
    space <= c.peerWindow /\ Distance(c.una, c.next) <= c.peerWindow - space

\* tcp_connection_record_segment: one record, which the newest segment takes.
tcp_connection_record_segment(c, end) ==
    [c EXCEPT !.next = end, !.pending = TRUE, !.retries = 0, !.record = <<c.next, end>>]

\* tcp_endpoint_send_segment through tcp_connection_build: a payload, a FIN, or
\* a bare acknowledgement.
tcp_connection_build(h, i, payload, fin) ==
    LET c == endpoints[h][i]
        space == (IF payload THEN 1 ELSE 0) + (IF fin THEN 1 ELSE 0)
    IN /\ c.valid /\ c.rport # 0
       /\ c.state \in {"ESTABLISHED", "CLOSE_WAIT"}
       /\ c.built < Budget[h]
       /\ WindowOpen(c, space)
       /\ endpoints' = [endpoints EXCEPT ![h][i] =
                [tcp_connection_record_segment(c, Plus(c.next, space))
                    EXCEPT !.built = @ + 1, !.sent = IF payload THEN @ + 1 ELSE @,
                           !.state = IF ~fin THEN @
                                     ELSE IF @ = "CLOSE_WAIT" THEN "LAST_ACK" ELSE "FIN_WAIT_1"]]
       /\ wire' = wire \cup {[from |-> h, sport |-> c.lport, dport |-> c.rport,
                              flags |-> {"ACK"} \cup (IF fin THEN {"FIN"} ELSE {}),
                              seq |-> c.next, ack |-> c.rcv, window |-> Windows[h],
                              data |-> IF payload THEN c.sent + 1 ELSE 0]}
       /\ UNCHANGED unbound

\* tcp_endpoint_retransmit_next: the segment is on the wire already.
tcp_connection_retransmit_due(h, i) ==
    /\ endpoints[h][i].valid /\ endpoints[h][i].pending
    /\ endpoints[h][i].retries < MaxRetries
    /\ endpoints' = [endpoints EXCEPT ![h][i].retries = @ + 1]
    /\ UNCHANGED <<wire, unbound>>

tcp_endpoint_receive(h, i) ==
    /\ endpoints[h][i].valid /\ endpoints[h][i].queue # <<>>
    /\ endpoints' = [endpoints EXCEPT ![h][i].queue = Tail(@)]
    /\ UNCHANGED <<wire, unbound>>

tcp_endpoint_unbind(h, i) ==
    /\ endpoints[h][i].valid /\ endpoints[h][i].state \in UnbindStates /\ unbound = {}
    /\ endpoints' = [endpoints EXCEPT ![h][i] = [Fresh(h, 0) EXCEPT !.valid = FALSE]]
    /\ unbound' = {<<endpoints[h][i].lport, endpoints[h][i].rport>>}
    /\ UNCHANGED wire

TcpNext ==
    \/ tcp_endpoint_listen
    \/ \E p \in ClientPorts, isn \in FirstSequences : tcp_endpoint_connect(p, isn)
    \/ \E h \in Hosts, i \in TcpSlot :
          \/ \E payload, fin \in BOOLEAN : tcp_connection_build(h, i, payload, fin)
          \/ tcp_connection_retransmit_due(h, i)
          \/ tcp_endpoint_receive(h, i)
          \/ tcp_endpoint_unbind(h, i)
    \/ \E h \in Hosts, s \in wire : network_service_tcp(h, s)

-----------------------------------------------------------------------------
\* The two ends of one connection, in the states that exchange data.  After an
\* unbind the ports may pair an endpoint with segments of its predecessor: the
\* server always starts at sequence 0.
Synchronised == {"ESTABLISHED", "FIN_WAIT_1", "FIN_WAIT_2", "TIME_WAIT", "CLOSE_WAIT", "LAST_ACK"}

Pairs ==
    {<<c, d>> \in {endpoints[h][i] : h \in Hosts, i \in TcpSlot}
                  \X {endpoints[h][i] : h \in Hosts, i \in TcpSlot} :
        /\ c.valid /\ d.valid /\ c.lport = d.rport /\ c.rport = d.lport
        /\ c.state \in Synchronised /\ d.state \in Synchronised
        /\ {<<c.lport, c.rport>>, <<d.lport, d.rport>>} \cap unbound = {}}

\* Type correctness of the endpoint tables and of the wire.
TcpTypeOK ==
    /\ endpoints \in [Hosts -> [TcpSlot -> Endpoint]]
    /\ wire \subseteq Segment
    /\ unbound \subseteq (ClientPorts \cup {ServerPort}) \X (ClientPorts \cup {ServerPort, 0})

\* Whatever is lost, repeated or reordered, what one end expects next lies
\* between what the other end has had acknowledged and what it has sent.
EdgesAgree ==
    \A pair \in Pairs :
        LET c == pair[1] d == pair[2]
        IN Distance(c.una, d.rcv) <= Distance(c.una, c.next)

\* The payloads one end has queued are the first ones the other end sent, each
\* once and in order, and include all that was acknowledged, unless its queue
\* overflowed, which the endpoint counts.
StreamIntact ==
    \A pair \in Pairs :
        LET c == pair[1] d == pair[2]
        IN ~d.dropped =>
            /\ \A k \in 1 .. Len(d.queue) : d.queue[k] = d.got - Len(d.queue) + k
            /\ d.got <= c.sent
            /\ c.una = c.next => d.got = c.sent

\* A peer has one endpoint: a SYN that is repeated reaches the child that the
\* first one created.
OneEndpointPerPeer ==
    \A h \in Hosts : \A i, j \in TcpSlot :
        (/\ endpoints[h][i].valid /\ endpoints[h][j].valid /\ endpoints[h][i].rport # 0
         /\ endpoints[h][i].rport = endpoints[h][j].rport
         /\ endpoints[h][i].lport = endpoints[h][j].lport) => i = j

\* Between hosts that announce one and the same window, no more sequence space
\* is ever outstanding than that window.
WindowKept ==
    \A h \in Hosts : \A i \in TcpSlot :
        LET c == endpoints[h][i]
        IN (c.valid /\ c.state \in Synchronised) => Distance(c.una, c.next) <= c.peerWindow

\* The retransmission record covers the end of what is outstanding: as long as
\* the newest number is not acknowledged, a retry is still recorded for it.
TailRecorded ==
    \A h \in Hosts : \A i \in TcpSlot :
        LET c == endpoints[h][i]
        IN (/\ c.valid /\ c.una # c.next
            /\ c.state \in {"ESTABLISHED", "CLOSE_WAIT", "FIN_WAIT_1", "LAST_ACK"}) =>
                c.pending /\ c.record[2] = c.next

\* A TCP connection over a medium that loses, repeats and reorders segments:
\* the peers agree on the edges of the windows, the receiver's stream is a prefix of the
\* sender's, segments find one endpoint, the unacknowledged segment is on record
\* and the peer's window is kept.
StreamsSound ==
    /\ TcpTypeOK
    /\ EdgesAgree /\ StreamIntact
    /\ OneEndpointPerPeer /\ TailRecorded /\ WindowKept
=============================================================================
