------------------------------ MODULE PacketPipe ------------------------------
(***************************************************************************)
(* The packet path of the CNI adapter: TunReceiveLoop cuts what the TUN    *)
(* device delivers into IP frames and queues them on ReceivePipe,          *)
(* HandleReceiveFromTun looks the target node up and sends every frame     *)
(* through a new tunnel stream, and on the other node DialTun cuts the     *)
(* stream into frames again and sends them through a raw socket.           *)
(*                                                                         *)
(* A byte is abstracted to a pair <<packet, position>>; position 1 stands  *)
(* for the first four bytes, which hold the lengths.  A packet with ok =   *)
(* FALSE is one whose header length field ParseIPFrame rejects (an IPv6    *)
(* packet, say, since the version is not looked at).  The three byte       *)
(* buffers are byte queues, as RecycleByteBuffer implements them.          *)
(***************************************************************************)
EXTENDS Naturals, Sequences, FiniteSets

CONSTANTS
    Packet,        \* records [id, node, len, ok]
    PacketSize,    \* capacity of every byte buffer
    ReceiveSize,   \* capacity of ReceivePipe
    MaxStreams     \* how many streams the fairness condition ranges over

VARIABLES
    tun,           \* packets the TUN device holds
    arrived,       \* packets it ever held
    recvPc, recvBuffer, recvFrame,       \* TunReceiveLoop
    ReceivePipe,
    handlePc, handleBuffer, handleFrame, \* HandleReceiveFromTun
    streams,       \* every stream opened, with the goroutines of its far end
    fate,          \* what became of each packet
    truncated      \* some buffer.Write had no room for all of its bytes

tunVars == <<tun, arrived>>
recvVars == <<recvPc, recvBuffer, recvFrame>>
handleVars == <<handlePc, handleBuffer, handleFrame>>
pipeVars == <<tunVars, recvVars, ReceivePipe, handleVars, streams, fate, truncated>>

ASSUME PipeAssumption ==
    /\ PacketSize \in Nat
    /\ \A p \in Packet : p.len \in 1 .. PacketSize /\ p.ok \in BOOLEAN
    /\ ReceiveSize \in Nat \ {0}
    /\ MaxStreams = Cardinality(Packet)     \* at most one stream per packet

NoFrame == [id |-> 0]

-----------------------------------------------------------------------------
(* Frames and buffers *)

ToBytes(p) == [i \in 1 .. p.len |-> <<p, i>>]

(* buffer.Write, and whether it had to drop bytes.                         *)
BufferWrite(buffer, bytes) ==
    LET room == PacketSize - Len(buffer)
    IN  buffer \o SubSeq(bytes, 1, IF room <= Len(bytes) THEN room ELSE Len(bytes))

Overflows(buffer, bytes) == Len(buffer) + Len(bytes) > PacketSize

(* Mutant: one byte too few is read.                                       *)
ParseIPFrame_LeavesLast(buffer) ==
    IF buffer = <<>> THEN [kind |-> "nil", frame |-> NoFrame, rest |-> buffer]
    ELSE LET p == buffer[1][1]
         IN  IF buffer[1][2] # 1 \/ ~p.ok
             THEN [kind |-> "error", frame |-> NoFrame, rest |-> buffer]
             ELSE IF Len(buffer) < p.len
             THEN [kind |-> "nil", frame |-> NoFrame, rest |-> buffer]
             ELSE [kind |-> "frame", frame |-> p,
                   rest |-> SubSeq(buffer, p.len, Len(buffer))]

(* ParseIPFrame: "nil" while the frame is incomplete; bytes that do not    *)
(* start with a header give an error.  A frame leaves the buffer.          *)
ParseIPFrame(buffer) ==
    IF buffer = <<>> THEN [kind |-> "nil", frame |-> NoFrame, rest |-> buffer]
    ELSE LET p == buffer[1][1]
         IN  IF buffer[1][2] # 1 \/ ~p.ok
             THEN [kind |-> "error", frame |-> NoFrame, rest |-> buffer]
             ELSE IF Len(buffer) < p.len
             THEN [kind |-> "nil", frame |-> NoFrame, rest |-> buffer]
             ELSE [kind |-> "frame", frame |-> p,
                   rest |-> SubSeq(buffer, p.len + 1, Len(buffer))]

PipeInit ==
    /\ tun = <<>> /\ arrived = {}
    /\ recvPc = "read" /\ recvBuffer = <<>> /\ recvFrame = NoFrame
    /\ ReceivePipe = <<>>
    /\ handlePc = "recv" /\ handleBuffer = <<>> /\ handleFrame = NoFrame
    /\ streams = <<>>
    /\ fate = [p \in Packet |-> "pending"]
    /\ truncated = FALSE

(* The kernel routes a packet of some pod into the TUN device.             *)
Arrive(p) ==
    /\ p \notin arrived
    /\ arrived' = arrived \cup {p}
    /\ tun' = Append(tun, p)
    /\ UNCHANGED <<recvVars, ReceivePipe, handleVars, streams, fate, truncated>>

-----------------------------------------------------------------------------
(* TunReceiveLoop *)

TunRead ==
    /\ recvPc = "read" /\ tun # <<>>
    /\ recvBuffer' = BufferWrite(recvBuffer, ToBytes(Head(tun)))
    /\ truncated' = (truncated \/ Overflows(recvBuffer, ToBytes(Head(tun))))
    /\ tun' = Tail(tun)
    /\ recvPc' = "parse"
    /\ UNCHANGED <<arrived, recvFrame, ReceivePipe, handleVars, streams, fate>>

(* A failed read of the device ends the loop for good.                     *)
TunReadFails ==
    /\ recvPc = "read"
    /\ recvPc' = "dead"
    /\ UNCHANGED <<tunVars, recvBuffer, recvFrame, ReceivePipe, handleVars,
                   streams, fate, truncated>>

TunParse ==
    LET parsed == ParseIPFrame(recvBuffer)
    IN  /\ recvPc = "parse"
        /\ \/ /\ parsed.kind = "error"
              /\ recvBuffer' = <<>>                       \* buffer.Clean()
              /\ recvPc' = "read"
              /\ fate' = [p \in Packet |->
                            IF \E i \in 1 .. Len(recvBuffer) : recvBuffer[i][1] = p
                            THEN "dropped" ELSE fate[p]]
              /\ UNCHANGED recvFrame
           \/ /\ parsed.kind = "nil"
              /\ recvPc' = "read"
              /\ UNCHANGED <<recvBuffer, recvFrame, fate>>
           \/ /\ parsed.kind = "frame"
              /\ recvBuffer' = parsed.rest
              /\ recvFrame' = parsed.frame
              /\ recvPc' = "send"
              /\ UNCHANGED fate
        /\ UNCHANGED <<tunVars, ReceivePipe, handleVars, streams, truncated>>

(* The send blocks while ReceivePipe is full.                              *)
TunSend ==
    /\ recvPc = "send"
    /\ Len(ReceivePipe) < ReceiveSize
    /\ ReceivePipe' = Append(ReceivePipe, ToBytes(recvFrame))
    /\ recvFrame' = NoFrame
    /\ recvPc' = "parse"
    /\ UNCHANGED <<tunVars, recvBuffer, handleVars, streams, fate, truncated>>

-----------------------------------------------------------------------------
(* HandleReceiveFromTun.  mesh.Close is never made: its case never fires.  *)

(* Mutant: a packet may be handled before the last one was sent.           *)
HandleTake_KeepsRest ==
    /\ handlePc = "recv" /\ ReceivePipe # <<>>
    /\ ReceivePipe' = Tail(ReceivePipe)
    /\ truncated' = (truncated \/ Overflows(handleBuffer, Head(ReceivePipe)))
    /\ LET parsed == ParseIPFrame(BufferWrite(handleBuffer, Head(ReceivePipe)))
       IN  /\ handleBuffer' = BufferWrite(handleBuffer, Head(ReceivePipe))
           /\ handleFrame' = parsed.frame
           /\ handlePc' = CASE parsed.kind = "frame" -> "lookup"
                            [] parsed.kind = "error" -> "recv"
                            [] parsed.kind = "nil"   -> "panic"
    /\ UNCHANGED <<tunVars, recvVars, streams, fate>>

(* One frame is parsed per packet; after an error the buffer keeps its     *)
(* bytes, and a nil frame is dereferenced.                                 *)
HandleTake ==
    /\ handlePc = "recv" /\ ReceivePipe # <<>>
    /\ ReceivePipe' = Tail(ReceivePipe)
    /\ truncated' = (truncated \/ Overflows(handleBuffer, Head(ReceivePipe)))
    /\ LET parsed == ParseIPFrame(BufferWrite(handleBuffer, Head(ReceivePipe)))
       IN  /\ handleBuffer' = parsed.rest
           /\ handleFrame' = parsed.frame
           /\ handlePc' = CASE parsed.kind = "frame" -> "lookup"
                            [] parsed.kind = "error" -> "recv"
                            [] parsed.kind = "nil"   -> "panic"
    /\ UNCHANGED <<tunVars, recvVars, streams, fate>>

(* The packet at hand is given up: the continue statements of the loop.    *)
GiveUp ==
    /\ fate' = [fate EXCEPT ![handleFrame] = "dropped"]
    /\ handleFrame' = NoFrame
    /\ handlePc' = "recv"
    /\ UNCHANGED <<tunVars, recvVars, ReceivePipe, handleBuffer, truncated>>

(* GetNodeNameByPodIP lists the pods with the target address.              *)
LookupNode ==
    /\ handlePc = "lookup"
    /\ \/ handlePc' = "stream"
          /\ UNCHANGED <<tunVars, recvVars, ReceivePipe, handleBuffer, handleFrame,
                         streams, fate, truncated>>
       \/ GiveUp /\ UNCHANGED streams

NewStream(node) == [node |-> node, state |-> "connect", data |-> <<>>,
                    reader |-> "none", buffer |-> <<>>]

(* GetCNIAdapterStream up to the CONNECT message: opening the stream can   *)
(* fail, and so can writing to it, after which the stream is reset.        *)
OpenStream ==
    /\ handlePc = "stream"
    /\ \/ GiveUp /\ UNCHANGED streams
       \/ GiveUp /\ streams' = Append(streams,
                        [NewStream(handleFrame.node) EXCEPT !.state = "reset"])
       \/ /\ streams' = Append(streams, NewStream(handleFrame.node))
          /\ handlePc' = "answer"
          /\ UNCHANGED <<tunVars, recvVars, ReceivePipe, handleBuffer, handleFrame,
                         fate, truncated>>

current == Len(streams)

(* The answer of the peer, waited for without a deadline.                  *)
Answer ==
    /\ handlePc = "answer"
    /\ \/ /\ streams[current].state = "success"
          /\ handlePc' = "write"
          /\ UNCHANGED <<tunVars, recvVars, ReceivePipe, handleBuffer, handleFrame,
                         streams, fate, truncated>>
       \/ /\ streams[current].state = "broken"
          /\ streams' = [streams EXCEPT ![current].state = "reset"]
          /\ GiveUp

(* stream.Write(frame.ToBytes()).                                          *)
WriteFrame ==
    /\ handlePc = "write"
    /\ \/ /\ streams[current].state = "success"
          /\ streams' = [streams EXCEPT ![current].data = ToBytes(handleFrame)]
          /\ fate' = [fate EXCEPT ![handleFrame] = "written"]
          /\ handleFrame' = NoFrame
          /\ handlePc' = "recv"
          /\ UNCHANGED <<tunVars, recvVars, ReceivePipe, handleBuffer, truncated>>
       \/ /\ streams[current].state = "broken"
          /\ GiveUp /\ UNCHANGED streams

-----------------------------------------------------------------------------
(* The far end: CNIAdapterStreamHandler and DialTun, once per stream.      *)

FarEnd == UNCHANGED <<tunVars, recvVars, ReceivePipe, handleVars>>

(* The handler reads CONNECT, answers SUCCESS and starts DialTun, whose    *)
(* NewTunConn opens a raw socket; without one nobody reads the stream.     *)
HandlerAccept(s) ==
    /\ streams[s].state = "connect"
    /\ \E reader \in {"reading", "none"} :
         streams' = [streams EXCEPT ![s].state = "success", ![s].reader = reader]
    /\ FarEnd /\ UNCHANGED <<fate, truncated>>

(* The connection under the stream is lost.                                *)
Break(s) ==
    /\ streams[s].state \in {"connect", "success"}
    /\ streams' = [streams EXCEPT ![s].state = "broken"]
    /\ FarEnd /\ UNCHANGED <<fate, truncated>>

(* Mutant: what was received before is forgotten.                          *)
ReadChunk_NewBuffer(s, n) ==
    /\ streams[s].reader = "reading"
    /\ n <= Len(streams[s].data)
    /\ streams' = [streams EXCEPT
          ![s].data = SubSeq(@, n + 1, Len(@)),
          ![s].buffer = SubSeq(streams[s].data, 1, n),
          ![s].reader = "parsing"]
    /\ FarEnd /\ UNCHANGED <<fate, truncated>>

(* A read returns some prefix of what was sent.                            *)
ReadChunk(s, n) ==
    LET chunk == SubSeq(streams[s].data, 1, n)
    IN  /\ streams[s].reader = "reading"
        /\ n <= Len(streams[s].data)
        /\ streams' = [streams EXCEPT
              ![s].data = SubSeq(@, n + 1, Len(@)),
              ![s].buffer = BufferWrite(@, chunk),
              ![s].reader = "parsing"]
        /\ truncated' = (truncated \/ Overflows(streams[s].buffer, chunk))
        /\ FarEnd /\ UNCHANGED fate

(* The inner loop of DialTun: every whole frame goes to the raw socket.    *)
ParseChunk(s) ==
    LET parsed == ParseIPFrame(streams[s].buffer)
    IN  /\ streams[s].reader = "parsing"
        /\ \/ /\ parsed.kind = "frame"
              /\ streams' = [streams EXCEPT ![s].buffer = parsed.rest]
              /\ fate' = [fate EXCEPT ![parsed.frame] = "delivered"]
           \/ /\ parsed.kind # "frame"
              /\ streams' = [streams EXCEPT
                    ![s].reader = "reading",
                    ![s].buffer = IF parsed.kind = "error" THEN <<>> ELSE @]
              /\ UNCHANGED fate
        /\ FarEnd /\ UNCHANGED truncated

(* A read error ends the goroutine; the raw socket stays open.             *)
ReadFails(s) ==
    /\ streams[s].reader = "reading"
    /\ streams[s].state = "broken"
    /\ streams' = [streams EXCEPT ![s].reader = "gone"]
    /\ FarEnd /\ UNCHANGED <<fate, truncated>>

Reader(s) ==
    /\ s <= Len(streams)
    /\ \/ \E n \in 1 .. PacketSize : ReadChunk(s, n)
       \/ ParseChunk(s)
       \/ ReadFails(s)

Handler(s) == s <= Len(streams) /\ HandlerAccept(s)

Handle == HandleTake \/ LookupNode \/ OpenStream \/ Answer \/ WriteFrame
Receive == TunRead \/ TunParse \/ TunSend

PipeNext ==
    \/ \E p \in Packet : Arrive(p)
    \/ TunRead
    \/ TunReadFails
    \/ TunParse
    \/ TunSend
    \/ HandleTake
    \/ LookupNode
    \/ OpenStream
    \/ Answer
    \/ WriteFrame
    \/ \E s \in 1 .. Len(streams) :
          \/ HandlerAccept(s)
          \/ Break(s)
          \/ \E n \in 1 .. PacketSize : ReadChunk(s, n)
          \/ ParseChunk(s)
          \/ ReadFails(s)

PipeSpec == PipeInit /\ [][PipeNext]_pipeVars

(* The goroutines run, and every peer answers or its connection breaks:    *)
(* GetCNIAdapterStream waits for the answer without a deadline.            *)
FairPipeSpec ==
    /\ PipeSpec
    /\ WF_pipeVars(Receive) /\ WF_pipeVars(Handle)
    /\ \A s \in 1 .. MaxStreams : WF_pipeVars(Handler(s)) /\ WF_pipeVars(Reader(s))

-----------------------------------------------------------------------------
(* Properties *)

Bytes == Packet \X (1 .. PacketSize)
Frames == Packet \cup {NoFrame}

PipeTypeOK ==
    /\ arrived \subseteq Packet /\ tun \in Seq(arrived)
    /\ recvPc \in {"read", "parse", "send", "dead"} /\ recvFrame \in Frames
    /\ recvBuffer \in Seq(Bytes) /\ Len(recvBuffer) <= PacketSize
    /\ Len(ReceivePipe) <= ReceiveSize
    /\ handlePc \in {"recv", "lookup", "stream", "answer", "write", "panic"}
    /\ handleBuffer \in Seq(Bytes) /\ handleFrame \in Frames
    /\ \A s \in 1 .. Len(streams) :
          /\ streams[s].state \in {"connect", "success", "broken", "reset"}
          /\ streams[s].reader \in {"none", "reading", "parsing", "gone"}
          /\ streams[s].buffer \in Seq(Bytes) /\ streams[s].data \in Seq(Bytes)
    /\ fate \in [Packet -> {"pending", "dropped", "written", "delivered"}]
    /\ truncated \in BOOLEAN

(* HandleReceiveFromTun parses once per packet, does not clean its buffer  *)
(* after an error and uses the frame without a nil test.  All three are    *)
(* right only because what it takes from ReceivePipe is always exactly one *)
(* well-formed frame: it never meets a nil frame, and its buffer is empty  *)
(* whenever it waits for the next packet.                                  *)
HandleFindsFrame ==
    /\ handlePc # "panic"
    /\ handlePc = "recv" => handleBuffer = <<>>

(* RecycleByteBuffer.Write drops silently what it has no room for, which   *)
(* would cut a frame in two.  No buffer of the path is ever that full, bad *)
(* packets included.                                                       *)
NothingTruncated == ~truncated

(* A packet that was dropped is not sent after all, and one that reached   *)
(* the raw socket of the target node does not reach it again.              *)
SettledOnce ==
    [][\A p \in Packet : fate[p] \in {"dropped", "delivered"} => fate'[p] = fate[p]]_pipeVars

(* The stream s, whose far end has stopped reading, still holds bytes of p. *)
Stranded(p, s) ==
    /\ streams[s].reader \in {"none", "gone"}
    /\ \E i \in 1 .. Len(streams[s].data \o streams[s].buffer) :
          (streams[s].data \o streams[s].buffer)[i][1] = p

(* However the far end's reads cut the bytes up, and whatever bad packets  *)
(* come before it, a packet that enters the TUN device reaches the target  *)
(* node or is given up for one of the errors the code reports.             *)
PacketsSettled ==
    \A p \in Packet :
       p \in arrived ~> \/ fate[p] \in {"dropped", "delivered"}
                        \/ recvPc = "dead"
                        \/ \E s \in 1 .. Len(streams) : Stranded(p, s)

(* GetCNIAdapterStream says of its stream "will close the stream           *)
(* elsewhere": every stream is closed at some time. It does not hold:      *)
(* HandleReceiveFromTun closes none.                                       *)
StreamsClosed ==
    \A s \in 1 .. MaxStreams :
       (s <= Len(streams)) ~> (s <= Len(streams) /\ streams[s].state = "reset")

=============================================================================
