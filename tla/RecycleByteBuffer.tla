-------------------------- MODULE RecycleByteBuffer --------------------------
(***************************************************************************)
(* The ring buffer of pkg/util/tunutils/recycle_bytebuffer.go, which the   *)
(* packet loops of the CNI adapter assemble IP frames in.  One goroutine   *)
(* owns a buffer.  Mark and Recover are used as ParseIPFrame uses them:    *)
(* only Read is called between the two.                                    *)
(***************************************************************************)
EXTENDS Naturals, Sequences

CONSTANTS
    Byte,
    Capacity,   \* the size given to NewRecycleByteBuffer
    MaxLen,     \* bound on the length of the slices given to Write and Read
    NoMark

VARIABLES
    mem, readableBytes, readIndex, writeIndex,
    markReadableBytes, markReadIndex, markWriteIndex,
    marked,     \* between Mark and Recover
    out         \* the bytes the last Read copied to dst

markVars == <<markReadableBytes, markReadIndex, markWriteIndex, marked>>
bufferVars == <<mem, readableBytes, readIndex, writeIndex, markVars, out>>

ASSUME BufferAssumption ==
    /\ Capacity \in Nat \ {0}
    /\ MaxLen \in Nat
    /\ NoMark \notin Seq(Byte)

Index == 0 .. Capacity - 1
Chunk == UNION {[1 .. n -> Byte] : n \in 0 .. MaxLen}

(* NewRecycleByteBuffer: make gives zeroed memory.                         *)
BufferInit ==
    /\ \E zero \in Byte : mem = [i \in Index |-> zero]
    /\ readableBytes = 0 /\ readIndex = 0 /\ writeIndex = 0
    /\ markReadableBytes = 0 /\ markReadIndex = 0 /\ markWriteIndex = 0
    /\ marked = FALSE
    /\ out = <<>>

(* How much of src Write stores: actualWritableLen.                        *)
writableLen(src) ==
    LET remainSpace == Capacity - readableBytes
    IN  IF remainSpace <= Len(src) THEN remainSpace ELSE Len(src)

Write(src) ==
    LET len == writableLen(src)
        tailLen == Capacity - writeIndex
        head == len - tailLen
    IN  /\ ~marked
        /\ IF tailLen <= len
           THEN /\ mem' = [i \in Index |->
                             IF i >= writeIndex THEN src[i - writeIndex + 1]
                             ELSE IF i < head THEN src[tailLen + i + 1]
                             ELSE mem[i]]
                /\ writeIndex' = head
           ELSE /\ mem' = [i \in Index |->
                             IF writeIndex <= i /\ i < writeIndex + len
                             THEN src[i - writeIndex + 1] ELSE mem[i]]
                /\ writeIndex' = writeIndex + len
        /\ readableBytes' = readableBytes + len
        /\ out' = <<>>
        /\ UNCHANGED <<readIndex, markVars>>

(* actualReadLen for a dst of length k.                                    *)
readLen(k) == IF readableBytes <= k THEN readableBytes ELSE k

(* Mutant: the head is read from where the tail was.                       *)
Read_HeadFromIndex(k) ==
    LET len == readLen(k)
        tailLen == Capacity - readIndex
    IN  /\ IF tailLen <= len
           THEN /\ out' = [i \in 1 .. len |->
                             IF i <= tailLen THEN mem[readIndex + i - 1]
                             ELSE mem[(readIndex + i - tailLen - 1) % Capacity]]
                /\ readIndex' = len - tailLen
           ELSE /\ out' = [i \in 1 .. len |-> mem[readIndex + i - 1]]
                /\ readIndex' = readIndex + len
        /\ readableBytes' = readableBytes - len
        /\ UNCHANGED <<mem, writeIndex, markVars>>

(* An empty buffer returns 0 at once, which len = 0 amounts to.            *)
Read(k) ==
    LET len == readLen(k)
        tailLen == Capacity - readIndex
    IN  /\ IF tailLen <= len
           THEN /\ out' = [i \in 1 .. len |->
                             IF i <= tailLen THEN mem[readIndex + i - 1]
                             ELSE mem[i - tailLen - 1]]
                /\ readIndex' = len - tailLen
           ELSE /\ out' = [i \in 1 .. len |-> mem[readIndex + i - 1]]
                /\ readIndex' = readIndex + len
        /\ readableBytes' = readableBytes - len
        /\ UNCHANGED <<mem, writeIndex, markVars>>

Mark ==
    /\ markReadableBytes' = readableBytes
    /\ markReadIndex' = readIndex
    /\ markWriteIndex' = writeIndex
    /\ marked' = TRUE
    /\ out' = <<>>
    /\ UNCHANGED <<mem, readableBytes, readIndex, writeIndex>>

Recover ==
    /\ marked
    /\ readableBytes' = markReadableBytes
    /\ readIndex' = markReadIndex
    /\ writeIndex' = markWriteIndex
    /\ marked' = FALSE
    /\ out' = <<>>
    /\ UNCHANGED <<mem, markReadableBytes, markReadIndex, markWriteIndex>>

Clean ==
    /\ ~marked
    /\ readableBytes' = 0 /\ readIndex' = 0 /\ writeIndex' = 0
    /\ out' = <<>>
    /\ UNCHANGED <<mem, markVars>>

BufferNext ==
    \/ \E src \in Chunk : Write(src)
    \/ \E k \in 0 .. MaxLen : Read(k)
    \/ Mark
    \/ Recover
    \/ Clean

BufferSpec == BufferInit /\ [][BufferNext]_bufferVars

-----------------------------------------------------------------------------
(* Properties *)

BufferTypeOK ==
    /\ mem \in [Index -> Byte]
    /\ readableBytes \in 0 .. Capacity
    /\ readIndex \in Index /\ writeIndex \in Index
    /\ markReadableBytes \in 0 .. Capacity
    /\ markReadIndex \in Index /\ markWriteIndex \in Index
    /\ marked \in BOOLEAN
    /\ out \in Seq(Byte)

(* The ByteBuffer interface: "Write data from src to buffer, panic if no   *)
(* enough space". Were it so, a Write that returns has stored all of src.  *)
(* It does not hold: Write stores what it has room for.                    *)
WriteStoresAll ==
    [][\A src \in Chunk : Write(src) => readableBytes' = readableBytes + Len(src)]_bufferVars

(* The place n bytes after index i.                                        *)
Place(i, n) == IF i + n < Capacity THEN i + n ELSE i + n - Capacity

(* The comments in Write and Read derive writeIndex <= readIndex where the *)
(* bytes wrap.  Here: the next byte is written right after the last        *)
(* readable one, modulo the capacity, and the same holds at a mark.        *)
IndexesAgree ==
    /\ writeIndex = Place(readIndex, readableBytes)
    /\ marked => /\ markWriteIndex = Place(markReadIndex, markReadableBytes)
                 /\ markWriteIndex = writeIndex
                 /\ readableBytes <= markReadableBytes

(* The abstract queue: the readable bytes from readIndex on.               *)
Contents(i, n) == [j \in 1 .. n |-> mem[Place(i, j - 1)]]

Q == INSTANCE ByteQueue WITH
        queue <- Contents(readIndex, readableBytes),
        saved <- IF marked THEN Contents(markReadIndex, markReadableBytes) ELSE NoMark

(* The ring buffer is a first-in first-out queue: whatever wraps around,   *)
(* Read returns the bytes in the order Write stored them.                  *)
IsByteQueue == Q!QueueSpec

=============================================================================
