------------------------------- MODULE MCSocks5 -------------------------------
(* Two clients of two other nodes on different ports, one that asks for    *)
(* the local node, one that names an address, and one that does not ask    *)
(* for a connection.                                                       *)
EXTENDS Socks5, TLC

CONSTANTS c1, c2, c3, c4, c5, n1, n2, self

Asks(type, dst, port, command) ==
    [type |-> type, dst |-> dst, port |-> port, command |-> command]

MCWants ==
    (c1 :> Asks("domain", n1, 22, "connect")) @@ (c2 :> Asks("domain", n2, 8022, "connect"))
    @@ (c3 :> Asks("domain", self, 22, "connect")) @@ (c4 :> Asks("ip", n1, 22, "connect"))
    @@ (c5 :> Asks("domain", n1, 22, "bind"))
=============================================================================
