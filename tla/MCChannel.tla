----------------------------- MODULE MCChannel ------------------------------
(* Everything that carries messages, for TLC: the IPC channel, TCP, the      *)
(* e1000 driver with the service loop, reassembly, UDP and the tables.  Each *)
(* is a unit of its own: a behaviour is one of the chosen unit, with the     *)
(* state of the others left as it is.                                        *)
EXTENDS Channel, Tcp, E1000, Reassembly, Udp, NetTables

CONSTANTS
    NetUnits        \* the units of this run

EqualWindows == [h \in {"client", "server"} |-> 2]
ClientTwo == [client |-> 2, server |-> 1]

VARIABLE netUnit
networkVars == <<tcpVars, nicVars, reassemblyVars, udp, netTableVars>>

NetworkInit ==
    /\ netUnit \in NetUnits
    /\ Init
    /\ TcpInit /\ NicInit /\ ReassemblyInit /\ UdpInit /\ NetTablesInit

NetworkNext ==
    \/ /\ netUnit = "tcp" /\ TcpNext
       /\ UNCHANGED <<nicVars, reassemblyVars, udp, netTableVars>>
    \/ /\ netUnit = "e1000" /\ NicNext
       /\ UNCHANGED <<tcpVars, reassemblyVars, udp, netTableVars>>
    \/ /\ netUnit = "reassembly" /\ ReassemblyNext
       /\ UNCHANGED <<tcpVars, nicVars, udp, netTableVars>>
    \/ /\ netUnit = "udp" /\ UdpNext
       /\ UNCHANGED <<tcpVars, nicVars, reassemblyVars, netTableVars>>
    \/ /\ \/ netUnit = "arp" /\ ArpNext
          \/ netUnit = "routes" /\ RouteNext
       /\ UNCHANGED <<tcpVars, nicVars, reassemblyVars, udp>>

MessagesNext ==
    \/ netUnit = "channel" /\ Next /\ UNCHANGED <<netUnit, networkVars>>
    \/ NetworkNext /\ UNCHANGED <<netUnit, vars>>

\* The channel's tasks are dispatched; nothing is assumed of the network.
MessagesSpec ==
    /\ NetworkInit /\ [][MessagesNext]_<<netUnit, vars, networkVars>>
    /\ \A t \in Tasks : WF_vars(netUnit = "channel" /\ Progress(t))
=============================================================================
