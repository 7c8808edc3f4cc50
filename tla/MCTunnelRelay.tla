---------------------------- MODULE MCTunnelRelay ----------------------------
EXTENDS TunnelRelay

At(where) == [ip |-> where, circuit |-> FALSE]
Node(name, where) == [name |-> name, addrs |-> {At(where)}]

(* A config of one relay, which is listed again with an address that does  *)
(* not parse, and one of another relay, listed twice, and of this node.    *)
MCConfigs == {<<Node("r1", "private"), Node(NoName, "public"), Node("r1", "nowhere")>>,
              <<Node("r2", "public"), Node(Self, "private"), Node("r2", "private")>>}
MCAddrs == [p \in Peer |-> IF p = "r1" THEN {At("public"), At("private"), [At("public") EXCEPT !.circuit = TRUE]}
                                      ELSE {At("loopback")}]
=============================================================================
