------------------------------ MODULE ByteQueue ------------------------------
(***************************************************************************)
(* What the ByteBuffer interface of pkg/util/tunutils promises its users:  *)
(* a first-in first-out queue of at most Capacity bytes, whose state at a  *)
(* mark can be recovered.  As in RecycleByteBuffer, Write stores what      *)
(* there is room for.                                                      *)
(***************************************************************************)
EXTENDS Naturals, Sequences

CONSTANTS Byte, Capacity, MaxLen, NoMark

VARIABLES
    queue,   \* the readable bytes, oldest first
    saved,   \* the queue at the mark, or NoMark
    out      \* what the last Read returned

queueVars == <<queue, saved, out>>

Smaller(a, b) == IF a <= b THEN a ELSE b

QueueInit == queue = <<>> /\ saved = NoMark /\ out = <<>>

QueueWrite(src) ==
    /\ saved = NoMark
    /\ queue' = queue \o SubSeq(src, 1, Smaller(Len(src), Capacity - Len(queue)))
    /\ out' = <<>>
    /\ UNCHANGED saved

QueueRead(k) ==
    LET n == Smaller(k, Len(queue))
    IN  /\ out' = SubSeq(queue, 1, n)
        /\ queue' = SubSeq(queue, n + 1, Len(queue))
        /\ UNCHANGED saved

QueueMark ==
    /\ saved' = queue
    /\ out' = <<>>
    /\ UNCHANGED queue

QueueRecover ==
    /\ saved # NoMark
    /\ queue' = saved
    /\ saved' = NoMark
    /\ out' = <<>>

QueueClean ==
    /\ saved = NoMark
    /\ queue' = <<>>
    /\ out' = <<>>
    /\ UNCHANGED saved

Chunks == UNION {[1 .. n -> Byte] : n \in 0 .. MaxLen}

QueueNext ==
    \/ \E src \in Chunks : QueueWrite(src)
    \/ \E k \in 0 .. MaxLen : QueueRead(k)
    \/ QueueMark
    \/ QueueRecover
    \/ QueueClean

QueueSpec == QueueInit /\ [][QueueNext]_queueVars

=============================================================================
