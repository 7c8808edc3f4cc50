---------------------------- MODULE MCGatewayConn ----------------------------
(* An HTTP server and a TCP server with TLS; a virtual service with routes *)
(* to two services and to one that is not known, a version of it with its *)
(* routes moved, and one for another host.  The first request is refused   *)
(* by the moved version, the third, of another host, by all.               *)
EXTENDS GatewayConn, TLC

CONSTANTS v1, sec, web, shop, gone, gw

Request(uri, host) == [uri |-> uri, host |-> host]

MCRoutes == ("/web" :> web) @@ ("/shop" :> shop) @@ ("/gone" :> gone)

MCHere  == [gateway |-> gw, hosts |-> {"a.org"}, route |-> MCRoutes, tcp |-> web]
MCMoved == [MCHere EXCEPT !.route["/web"] = None, !.route["/shop"] = web, !.tcp = gone]
MCOther == [MCHere EXCEPT !.hosts = {"b.org"}, !.tcp = None]

MCVersions == {MCHere, MCMoved, MCOther}
MCKnown    == {web, shop}
MCOptions  == {[protocol |-> "HTTP", tls |-> FALSE, hosts |-> {"a.org"}],
               [protocol |-> "TCP", tls |-> TRUE, hosts |-> {"a.org"}]}
MCRequests == <<Request("/web", "ip"), Request("/shop", "a.org"), Request("/web", "b.org"),
                Request("/gone", "a.org")>>
=============================================================================
