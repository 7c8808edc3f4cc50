----------------------------- MODULE MCPacketPipe -----------------------------
(* Three packets: two for one node, one of them as long as a buffer, and   *)
(* one that ParseIPFrame rejects.                                          *)
EXTENDS PacketPipe

CONSTANTS n1, n2

MCPackets ==
    { [id |-> 1, node |-> n1, len |-> 3, ok |-> TRUE],
      [id |-> 2, node |-> n2, len |-> 2, ok |-> TRUE],
      [id |-> 3, node |-> n1, len |-> 2, ok |-> FALSE] }
=============================================================================
