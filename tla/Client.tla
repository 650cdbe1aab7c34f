------------------------------- MODULE Client -------------------------------
(***************************************************************************)
(* A client object: ValkeyConn with the arm of ValkeyConnInner it was      *)
(* constructed with.  The Standard and the Sentinel arm take single calls  *)
(* to a service (ValkeyConn), the Cluster arm a command over keys of       *)
(* several slots (ClusterFanout).                                          *)
(***************************************************************************)
EXTENDS ValkeyConn, ClusterFanout

clientVars == <<connVars, fanoutVars>>

\* connect_standard, connect_sentinel: the client is connected when it exists.
ConnectedInit ==
    /\ inner \in {"Standard", "Sentinel"}
    /\ ConnInit
    /\ fanout = [op |-> "mget", keys |-> << >>]
    /\ before = [k \in Keys |-> Missing]
    /\ data = before
    /\ tasks = << >> /\ reply = << >> /\ out = << >>
    /\ verdict = "ok"

\* connect_cluster.
ClusterInit ==
    /\ inner = "Cluster"
    /\ ConnInit
    /\ kind = CHOOSE m \in Mixes : TRUE
    /\ FanoutInit

Init == ConnectedInit \/ ClusterInit

Next ==
    \/ ConnNext /\ UNCHANGED fanoutVars
    \/ inner = "Cluster" /\ FanoutNext /\ UNCHANGED connVars

Spec == Init /\ [][Next]_clientVars /\ ConnFairness

=============================================================================
