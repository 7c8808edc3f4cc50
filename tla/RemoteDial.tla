------------------------------ MODULE RemoteDial ------------------------------
(***************************************************************************)
(* What GetProxyStream and GetCNIAdapterStream of pkg/tunnel promise their *)
(* callers (dialEndpoint of the load balancer, the SOCKS5 handler, the CNI *)
(* adapter): a call ends once, with a connection or with an error, and     *)
(* with a connection only after the other node has reached the endpoint.   *)
(* Nothing is promised of when a link ends: it may be lost under an open   *)
(* connection, and may outlive a call that failed.                         *)
(***************************************************************************)
CONSTANT Session

VARIABLES
    call,   \* a call: idle, waiting, conn, failed or closed
    link    \* the other node's link to the endpoint: none, up or down

dialVars == <<call, link>>

DialInit == call = [s \in Session |-> "idle"] /\ link = [s \in Session |-> "none"]

Moves(s, from, to) == call[s] = from /\ call' = [call EXCEPT ![s] = to]

Begin(s) == Moves(s, "idle", "waiting") /\ UNCHANGED link

(* Also after the caller has given up.                                     *)
Reach(s) ==
    /\ call[s] # "idle" /\ link[s] = "none"
    /\ link' = [link EXCEPT ![s] = "up"]
    /\ UNCHANGED call

Return(s) == link[s] # "none" /\ Moves(s, "waiting", "conn") /\ UNCHANGED link

Fail(s) == Moves(s, "waiting", "failed") /\ UNCHANGED link

Close(s) == Moves(s, "conn", "closed") /\ UNCHANGED link

(* The pipes of some links end: one alone, or all of a node that ends.     *)
Drop(some) ==
    /\ link' = [s \in Session |-> IF s \in some /\ link[s] = "up" THEN "down" ELSE link[s]]
    /\ UNCHANGED call

DialNext ==
    \/ \E s \in Session : Begin(s) \/ Reach(s) \/ Return(s) \/ Fail(s) \/ Close(s)
    \/ \E some \in SUBSET Session : Drop(some)

DialSpec == DialInit /\ [][DialNext]_dialVars

=============================================================================
