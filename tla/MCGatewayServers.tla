--------------------------- MODULE MCGatewayServers ---------------------------
(* Gateways with a server on port 80 and a second one, on port 443, which  *)
(* cannot be listened on at the second address, or on port 80 for other    *)
(* hosts: two gateways always compete for port 80.  The configuration      *)
(* lists all addresses but one.                                            *)
EXTENDS GatewayServers, TLC

CONSTANTS g1, g2, ip1, ip2, ip3

Server(port, options) == [port |-> port, options |-> options]

MCSpecs    == {<<Server(80, "b"), Server(443, "a")>>, <<Server(80, "a"), Server(80, "b")>>}
MCBadAddr  == {<<ip2, 443>>}

(* Addresses that repeat, neighbours to remove, a segment that is malformed *)
MCInterfaces == <<"lo", "eth0", "down">>
MCCardIPs    == ("lo" :> <<ip1>>) @@ ("eth0" :> <<ip2, ip3, ip1>>) @@ ("down" :> <<>>)
MCMembers    == ("seg12" :> {ip1, ip2}) @@ ("seg3" :> {ip3}) @@ ("bad" :> {})
MCNIC        == <<"eth0", "none">>
MCNICs       == {All, MCNIC, <<"eth0", "lo", "none">>, <<"none">>, <<"lo", "lo">>}
MCLists      == SUBSET (IP \cup Segment)
=============================================================================
