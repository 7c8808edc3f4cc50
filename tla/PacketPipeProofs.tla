-------------------------- MODULE PacketPipeProofs --------------------------
(***************************************************************************)
(* TLAPS proofs about the packet path of the CNI adapter, for packets of   *)
(* every length and buffers and queues of every capacity: every buffer     *)
(* holds at most one packet, and no packet is at two places of the path.   *)
(***************************************************************************)
EXTENDS PacketPipe, TLAPS

-----------------------------------------------------------------------------
(* The packet path: what each of its buffers and queues can hold.          *)

Byt == Packet \X Nat
Good == {p \in Packet : p.ok}

(* The first n bytes of a packet, and the others.                          *)
Prefix(p, n) == [i \in 1 .. n |-> <<p, i>>]
Suffix(p, n) == [i \in 1 .. (p.len - n) |-> <<p, n + i>>]

(* The packet whose bytes a buffer starts with.                            *)
Of(bytes) == bytes[1][1]

(* What a stream and the buffer of its reader hold together: the bytes of  *)
(* one packet, cut at some place.                                          *)
Carries(stream, p) ==
    \E n \in 0 .. p.len : stream.buffer = Prefix(p, n) /\ stream.data = Suffix(p, n)

Idle(stream) == stream.buffer = <<>> /\ stream.data = <<>>

StreamRec == [node : {p.node : p \in Packet},
              state : {"connect", "success", "broken", "reset"},
              data : Seq(Byt),
              reader : {"none", "reading", "parsing", "gone"},
              buffer : Seq(Byt)]

(* Every buffer holds nothing or one packet, from its first byte on; past  *)
(* TunReceiveLoop it is one that ParseIPFrame accepts.                     *)
PipeShape ==
    /\ arrived \subseteq Packet /\ tun \in Seq(Packet)
    /\ recvPc \in {"read", "parse", "send", "dead"}
    /\ recvBuffer # <<>> => recvPc = "parse" /\ \E p \in Packet : recvBuffer = ToBytes(p)
    /\ recvPc = "send" => recvFrame \in Good
    /\ ReceivePipe \in Seq({ToBytes(p) : p \in Good})
    /\ handlePc \in {"recv", "lookup", "stream", "answer", "write"}
    /\ handleBuffer = <<>>
    /\ handlePc # "recv" => handleFrame \in Good
    /\ streams \in Seq(StreamRec)
    /\ \A s \in 1 .. Len(streams) :
          Idle(streams[s]) \/ \E p \in Good : Carries(streams[s], p)
    /\ handlePc \in {"answer", "write"} => streams # <<>> /\ Idle(streams[Len(streams)])
    /\ fate \in [Packet -> {"pending", "dropped", "written", "delivered"}]
    /\ truncated = FALSE

(* where says at which one place of the path each packet is.               *)
Places == {"away", "tun", "recv", "pipe", "handle", "stream", "gone"}

AtAway(where) == \A p \in Packet : p \notin arrived => where[p] = "away"

AtTun(where) ==
    /\ \A i \in 1 .. Len(tun) : where[tun[i]] = "tun"
    /\ \A i, j \in 1 .. Len(tun) : tun[i] = tun[j] => i = j

AtRecv(where) ==
    /\ recvBuffer # <<>> => where[Of(recvBuffer)] = "recv"
    /\ recvPc = "send" => where[recvFrame] = "recv"

AtPipe(where) ==
    /\ \A i \in 1 .. Len(ReceivePipe) : where[Of(ReceivePipe[i])] = "pipe"
    /\ \A i, j \in 1 .. Len(ReceivePipe) : ReceivePipe[i] = ReceivePipe[j] => i = j

AtHandle(where) == handlePc # "recv" => where[handleFrame] = "handle"

AtStream(where) ==
    /\ \A s \in 1 .. Len(streams), p \in Good :
          Carries(streams[s], p) => where[p] = "stream"
    /\ \A s, t \in 1 .. Len(streams), p \in Good :
          Carries(streams[s], p) /\ Carries(streams[t], p) => s = t

AtGone(where) ==
    \A p \in Packet : fate[p] \in {"dropped", "delivered"} => where[p] = "gone"

Placed(where) ==
    /\ AtAway(where) /\ AtTun(where) /\ AtRecv(where) /\ AtPipe(where)
    /\ AtHandle(where) /\ AtStream(where) /\ AtGone(where)

InOnePlace == \E where \in [Packet -> Places] : Placed(where)


-----------------------------------------------------------------------------
(* Lemmas about bytes, BufferWrite and ParseIPFrame.                       *)

(* Two slices with the same elements are the same.                         *)
LEMMA SameElements ==
    ASSUME NEW S, NEW s \in Seq(S), NEW t \in Seq(S), Len(s) = Len(t),
           \A i \in 1 .. Len(s) : s[i] = t[i]
    PROVE  s = t
OBVIOUS

(* The two parts of a packet are sequences of its bytes.                   *)
LEMMA PartFacts ==
    ASSUME NEW p \in Packet, NEW n \in 0 .. p.len
    PROVE  /\ p.len \in Nat \ {0} /\ p.len <= PacketSize /\ PacketSize \in Nat
           /\ n \in Nat /\ p.len - n \in Nat
           /\ Prefix(p, n) \in Seq(Byt) /\ Len(Prefix(p, n)) = n
           /\ \A i \in 1 .. n : Prefix(p, n)[i] = <<p, i>>
           /\ Suffix(p, n) \in Seq(Byt) /\ Len(Suffix(p, n)) = p.len - n
           /\ \A i \in 1 .. (p.len - n) : Suffix(p, n)[i] = <<p, n + i>>
<1>1. /\ p.len \in Nat \ {0} /\ p.len <= PacketSize /\ PacketSize \in Nat
      /\ n \in Nat /\ p.len - n \in Nat
  BY PipeAssumption
<1>2. /\ \A i \in 1 .. n : <<p, i>> \in Byt
      /\ \A i \in 1 .. (p.len - n) : <<p, n + i>> \in Byt
  BY <1>1 DEF Byt
<1>3. Prefix(p, n) \in [1 .. n -> Byt] /\ Suffix(p, n) \in [1 .. (p.len - n) -> Byt]
  BY <1>2 DEF Prefix, Suffix
<1>4. Prefix(p, n) \in Seq(Byt) /\ Len(Prefix(p, n)) = n
  BY <1>1, <1>3
<1>5. Suffix(p, n) \in Seq(Byt) /\ Len(Suffix(p, n)) = p.len - n
  BY <1>1, <1>3, SMTT(20)
<1>6. /\ \A i \in 1 .. n : Prefix(p, n)[i] = <<p, i>>
      /\ \A i \in 1 .. (p.len - n) : Suffix(p, n)[i] = <<p, n + i>>
  BY DEF Prefix, Suffix
<1> QED
  BY <1>1, <1>4, <1>5, <1>6, Zenon

(* The whole of a packet, and the empty parts of it.                       *)
LEMMA WholeFacts ==
    ASSUME NEW p \in Packet
    PROVE  /\ ToBytes(p) = Prefix(p, p.len) /\ ToBytes(p) = Suffix(p, 0)
           /\ Prefix(p, 0) = <<>> /\ Suffix(p, p.len) = <<>>
           /\ ToBytes(p) # <<>> /\ Of(ToBytes(p)) = p
           /\ ToBytes(p) \in Seq(Byt) /\ Len(ToBytes(p)) = p.len
           /\ 0 \in 0 .. p.len /\ p.len \in 0 .. p.len
           /\ \A i \in 1 .. p.len : ToBytes(p)[i] = <<p, i>>
<1>1. p.len \in Nat \ {0} /\ 0 \in 0 .. p.len /\ p.len \in 0 .. p.len
  BY PipeAssumption
<1>2. ToBytes(p) = Prefix(p, p.len)
  BY DEF ToBytes, Prefix
<1>3. ToBytes(p) = Suffix(p, 0)
  <2>1. p.len - 0 = p.len /\ \A i \in 1 .. p.len : 0 + i = i
    BY <1>1
  <2> QED
    BY <2>1 DEF ToBytes, Suffix
<1>4. Prefix(p, 0) = <<>> /\ Suffix(p, p.len) = <<>>
  BY <1>1, PartFacts
<1>5. /\ ToBytes(p) \in Seq(Byt) /\ Len(ToBytes(p)) = p.len
      /\ \A i \in 1 .. p.len : ToBytes(p)[i] = <<p, i>>
  <2>1. /\ Prefix(p, p.len) \in Seq(Byt) /\ Len(Prefix(p, p.len)) = p.len
        /\ \A i \in 1 .. p.len : Prefix(p, p.len)[i] = <<p, i>>
    BY <1>1, PartFacts, Zenon
  <2> QED
    BY <1>2, <2>1
<1>6. ToBytes(p) # <<>> /\ Of(ToBytes(p)) = p
  BY <1>1, <1>5 DEF Of
<1> QED
  BY <1>1, <1>2, <1>3, <1>4, <1>5, <1>6

(* A buffer that is empty takes all of a packet.                           *)
LEMMA WriteWhole ==
    ASSUME NEW p \in Packet
    PROVE  BufferWrite(<<>>, ToBytes(p)) = ToBytes(p) /\ ~Overflows(<<>>, ToBytes(p))
<1>1. /\ ToBytes(p) \in Seq(Byt) /\ Len(ToBytes(p)) = p.len
      /\ p.len \in Nat /\ p.len <= PacketSize /\ PacketSize \in Nat
  BY WholeFacts, PartFacts
<1>2. Len(<<>>) = 0
  OBVIOUS
<1>3. (IF PacketSize - 0 <= p.len THEN PacketSize - 0 ELSE p.len) = p.len
  BY <1>1
<1>4. SubSeq(ToBytes(p), 1, p.len) = ToBytes(p)
  BY <1>1
<1>5. <<>> \o ToBytes(p) = ToBytes(p)
  BY <1>1
<1>6. BufferWrite(<<>>, ToBytes(p)) = ToBytes(p)
  BY <1>1, <1>2, <1>3, <1>4, <1>5 DEF BufferWrite
<1>7. ~Overflows(<<>>, ToBytes(p))
  BY <1>1, <1>2 DEF Overflows
<1> QED
  BY <1>6, <1>7

(* ParseIPFrame finds the frame in the bytes of a whole packet and leaves  *)
(* nothing behind; of a packet it rejects it takes nothing.                *)
LEMMA ParseWhole ==
    ASSUME NEW p \in Packet
    PROVE  /\ p.ok => /\ ParseIPFrame(ToBytes(p)).kind = "frame"
                      /\ ParseIPFrame(ToBytes(p)).frame = p
                      /\ ParseIPFrame(ToBytes(p)).rest = <<>>
           /\ ~p.ok => ParseIPFrame(ToBytes(p)).kind = "error"
<1> DEFINE b == ToBytes(p)
<1>1. /\ b # <<>> /\ Len(b) = p.len /\ b[1] = <<p, 1>> /\ p.len \in Nat \ {0}
  BY WholeFacts, PartFacts
<1>2. SubSeq(b, p.len + 1, Len(b)) = <<>>
  BY <1>1
<1>3. b[1][1] = p /\ b[1][2] = 1
  BY <1>1
<1>4. p.ok \in BOOLEAN /\ ~(Len(b) < p.len)
  BY <1>1, PipeAssumption
<1>5. ParseIPFrame(b) = IF ~p.ok THEN [kind |-> "error", frame |-> NoFrame, rest |-> b]
                        ELSE [kind |-> "frame", frame |-> p, rest |-> <<>>]
  <2> HIDE DEF b
  <2> QED
    BY <1>1, <1>2, <1>3, <1>4 DEF ParseIPFrame
<1> QED
  BY <1>5

(* Of the bytes that have come so far of a good packet ParseIPFrame makes  *)
(* the frame once they are all there, and waits until then.                *)
LEMMA ParsePrefix ==
    ASSUME NEW p \in Good, NEW n \in 0 .. p.len
    PROVE  /\ n < p.len => ParseIPFrame(Prefix(p, n)).kind = "nil"
           /\ n = p.len => /\ ParseIPFrame(Prefix(p, n)).kind = "frame"
                           /\ ParseIPFrame(Prefix(p, n)).frame = p
                           /\ ParseIPFrame(Prefix(p, n)).rest = <<>>
<1>0. p \in Packet /\ p.ok
  BY DEF Good
<1>1. n = p.len => /\ ParseIPFrame(Prefix(p, n)).kind = "frame"
                   /\ ParseIPFrame(Prefix(p, n)).frame = p
                   /\ ParseIPFrame(Prefix(p, n)).rest = <<>>
  BY <1>0, ParseWhole, WholeFacts
<1>2. ASSUME n = 0 PROVE ParseIPFrame(Prefix(p, n)).kind = "nil"
  BY <1>0, <1>2, WholeFacts DEF ParseIPFrame
<1>3. ASSUME n # 0, n < p.len PROVE ParseIPFrame(Prefix(p, n)).kind = "nil"
  <2> DEFINE b == Prefix(p, n)
  <2>1. b \in Seq(Byt) /\ Len(b) = n /\ n \in Nat /\ b[1] = <<p, 1>>
    BY <1>0, <1>3, PartFacts, SMTT(20)
  <2>2. b # <<>> /\ b[1][1] = p /\ b[1][2] = 1 /\ Len(b) < p.len
    BY <1>3, <2>1
  <2> HIDE DEF b
  <2>3. ParseIPFrame(b).kind = "nil"
    BY <1>0, <2>2 DEF ParseIPFrame
  <2> QED
    BY <2>3 DEF b
<1> QED
  BY <1>1, <1>2, <1>3

(* A sequence cut in two.                                                  *)
LEMMA SplitSeq ==
    ASSUME NEW S, NEW q \in Seq(S), NEW m \in 0 .. Len(q)
    PROVE  /\ SubSeq(q, 1, m) \in Seq(S) /\ Len(SubSeq(q, 1, m)) = m
           /\ \A i \in 1 .. m : SubSeq(q, 1, m)[i] = q[i]
           /\ SubSeq(q, m + 1, Len(q)) \in Seq(S)
           /\ Len(SubSeq(q, m + 1, Len(q))) = Len(q) - m
           /\ \A i \in 1 .. Len(q) - m : SubSeq(q, m + 1, Len(q))[i] = q[m + i]
  OBVIOUS

(* A read moves the next bytes of the packet from the stream to the buffer. *)
LEMMA ReadPart ==
    ASSUME NEW p \in Packet, NEW n \in 0 .. p.len,
           NEW m \in Nat \ {0}, m <= Len(Suffix(p, n))
    PROVE  /\ n + m \in 0 .. p.len
           /\ BufferWrite(Prefix(p, n), SubSeq(Suffix(p, n), 1, m)) = Prefix(p, n + m)
           /\ SubSeq(Suffix(p, n), m + 1, Len(Suffix(p, n))) = Suffix(p, n + m)
           /\ ~Overflows(Prefix(p, n), SubSeq(Suffix(p, n), 1, m))
<1> DEFINE b == Prefix(p, n)
           d == Suffix(p, n)
           k == p.len
           c == SubSeq(d, 1, m)
           e == SubSeq(d, m + 1, Len(d))
<1>1. /\ b \in Seq(Byt) /\ Len(b) = n /\ \A i \in 1 .. n : b[i] = <<p, i>>
      /\ d \in Seq(Byt) /\ Len(d) = k - n /\ \A i \in 1 .. (k - n) : d[i] = <<p, n + i>>
      /\ n \in Nat /\ k \in Nat /\ k - n \in Nat /\ k <= PacketSize /\ PacketSize \in Nat
  BY PartFacts, Zenon
<1>2. m <= Len(d) /\ n + m \in 0 .. k
  BY <1>1, SMTT(20)
<1>3. /\ Prefix(p, n + m) \in Seq(Byt) /\ Len(Prefix(p, n + m)) = n + m
      /\ \A i \in 1 .. (n + m) : Prefix(p, n + m)[i] = <<p, i>>
      /\ Suffix(p, n + m) \in Seq(Byt) /\ Len(Suffix(p, n + m)) = k - (n + m)
      /\ \A i \in 1 .. (k - (n + m)) : Suffix(p, n + m)[i] = <<p, (n + m) + i>>
  BY <1>2, PartFacts, Zenon
<1> HIDE DEF b, d, k
<1>5. /\ c \in Seq(Byt) /\ Len(c) = m /\ \A i \in 1 .. m : c[i] = d[i]
  BY <1>1, <1>2, SplitSeq
<1>6. /\ e \in Seq(Byt) /\ Len(e) = k - (n + m)
      /\ \A i \in 1 .. (k - (n + m)) : e[i] = d[m + i]
  <2>1. Len(d) - m = k - (n + m) /\ m \in 0 .. Len(d) /\ d \in Seq(Byt)
    BY <1>1, <1>2
  <2>2. /\ e \in Seq(Byt) /\ Len(e) = Len(d) - m
        /\ \A i \in 1 .. Len(d) - m : e[i] = d[m + i]
    BY <2>1, SplitSeq
  <2> QED
    BY <2>1, <2>2, Zenon
<1> HIDE DEF c, e
<1>7. (IF PacketSize - n <= m THEN PacketSize - n ELSE m) = m /\ n + m <= PacketSize
  BY <1>1, <1>2
<1>8. BufferWrite(b, c) = b \o c /\ ~Overflows(b, c)
  <2>1. SubSeq(c, 1, m) = c
    BY <1>5
  <2>2. BufferWrite(b, c) = b \o SubSeq(c, 1, m)
    BY <1>1, <1>5, <1>7, Zenon DEF BufferWrite
  <2>3. ~Overflows(b, c)
    BY <1>1, <1>5, <1>7 DEF Overflows
  <2> QED
    BY <2>1, <2>2, <2>3, Zenon
<1>9. b \o c = Prefix(p, n + m)
  <2>1. /\ b \o c \in Seq(Byt) /\ Len(b \o c) = n + m
        /\ \A i \in 1 .. n + m : (b \o c)[i] = IF i <= n THEN b[i] ELSE c[i - n]
    <3>1. /\ b \o c \in Seq(Byt) /\ Len(b \o c) = Len(b) + Len(c)
          /\ \A i \in 1 .. Len(b) + Len(c) :
               (b \o c)[i] = IF i <= Len(b) THEN b[i] ELSE c[i - Len(b)]
      <4>1. b \in Seq(Byt) /\ c \in Seq(Byt)
        BY <1>1, <1>5
      <4> QED
        BY <4>1
    <3>2. Len(b) = n /\ Len(c) = m
      BY <1>1, <1>5
    <3> QED
      BY <3>1, <3>2
  <2>2. ASSUME NEW i \in 1 .. n + m PROVE (b \o c)[i] = <<p, i>>
    <3>1. CASE i <= n
      BY <1>1, <2>1, <3>1
    <3>2. CASE ~(i <= n)
      <4>1. i - n \in 1 .. m /\ i - n \in 1 .. (k - n) /\ n + (i - n) = i
        BY <1>1, <1>2, <3>2
      <4>2. c[i - n] = <<p, n + (i - n)>>
        BY <1>1, <1>5, <4>1, Zenon
      <4>3. (b \o c)[i] = c[i - n]
        BY <2>1, <3>2, Zenon
      <4> QED
        BY <4>1, <4>2, <4>3, Zenon
    <3> QED
      BY <3>1, <3>2, Zenon
  <2> QED
    BY <1>3, <2>1, <2>2, SameElements, Zenon
<1>10. e = Suffix(p, n + m)
  <2>1. ASSUME NEW i \in 1 .. (k - (n + m)) PROVE e[i] = Suffix(p, n + m)[i]
    <3>1. m + i \in 1 .. (k - n) /\ n + (m + i) = (n + m) + i
      BY <1>1, <1>2
    <3> QED
      <4>1. e[i] = d[m + i] /\ Suffix(p, n + m)[i] = <<p, (n + m) + i>>
        BY <1>3, <1>6, Zenon
      <4>2. d[m + i] = <<p, n + (m + i)>>
        BY <1>1, <3>1, Zenon
      <4> QED
        BY <3>1, <4>1, <4>2
  <2> QED
    BY <1>3, <1>6, <2>1
<1> QED
  BY <1>2, <1>8, <1>9, <1>10, Zenon DEF b, c, d, e, k

(* A stream carries at most one packet, and an idle one none.              *)
LEMMA CarriesOne ==
    ASSUME NEW x, NEW p \in Packet, Carries(x, p)
    PROVE  ~Idle(x) /\ \A q \in Packet : Carries(x, q) => q = p
<1>1. PICK n \in 0 .. p.len : x.buffer = Prefix(p, n) /\ x.data = Suffix(p, n)
  BY DEF Carries
<1>2. /\ Len(x.buffer) = n /\ Len(x.data) = p.len - n /\ n \in Nat /\ p.len \in Nat \ {0}
      /\ n # 0 => x.buffer[1] = <<p, 1>>
      /\ n = 0 => x.data[1] = <<p, 1>>
  <2>1. /\ Len(Prefix(p, n)) = n /\ \A i \in 1 .. n : Prefix(p, n)[i] = <<p, i>>
        /\ Len(Suffix(p, n)) = p.len - n /\ n \in Nat /\ p.len \in Nat \ {0}
        /\ \A i \in 1 .. (p.len - n) : Suffix(p, n)[i] = <<p, n + i>>
    BY PartFacts, Zenon
  <2>2. n # 0 => 1 \in 1 .. n
    BY <2>1
  <2>3. n = 0 => 1 \in 1 .. (p.len - n) /\ n + 1 = 1
    BY <2>1
  <2> QED
    BY <1>1, <2>1, <2>2, <2>3
<1>3. ~Idle(x)
  BY <1>2 DEF Idle
<1>4. ASSUME NEW q \in Packet, Carries(x, q) PROVE q = p
  <2>1. PICK m \in 0 .. q.len : x.buffer = Prefix(q, m) /\ x.data = Suffix(q, m)
    BY <1>4 DEF Carries
  <2>2. /\ Len(x.buffer) = m /\ m \in Nat /\ q.len \in Nat \ {0}
        /\ m # 0 => x.buffer[1] = <<q, 1>>
        /\ m = 0 => x.data[1] = <<q, 1>>
    <3>1. /\ Len(Prefix(q, m)) = m /\ \A i \in 1 .. m : Prefix(q, m)[i] = <<q, i>>
          /\ m \in Nat /\ q.len \in Nat \ {0}
          /\ \A i \in 1 .. (q.len - m) : Suffix(q, m)[i] = <<q, m + i>>
      BY PartFacts, Zenon
    <3>2. m # 0 => 1 \in 1 .. m
      BY <3>1
    <3>3. m = 0 => 1 \in 1 .. (q.len - m) /\ m + 1 = 1
      BY <3>1
    <3> QED
      BY <2>1, <3>1, <3>2, <3>3
  <2>3. <<q, 1>> = <<p, 1>>
    BY <1>2, <2>2
  <2> QED
    BY <2>3
<1> QED
  BY <1>3, <1>4

(* The effect of a step on one stream.                                     *)
LEMMA StreamUpdate ==
    ASSUME PipeShape, NEW s \in 1 .. Len(streams), NEW e \in StreamRec,
           streams' = [streams EXCEPT ![s] = e]
    PROVE  /\ streams' \in Seq(StreamRec) /\ Len(streams') = Len(streams)
           /\ streams'[s] = e
           /\ \A t \in 1 .. Len(streams) : t # s => streams'[t] = streams[t]
BY DEF PipeShape

(* A new stream is idle and the last one.                                  *)
LEMMA StreamOpened ==
    ASSUME PipeShape, NEW st \in {"connect", "reset"}, handleFrame \in Packet,
           streams' = Append(streams, [NewStream(handleFrame.node) EXCEPT !.state = st])
    PROVE  /\ streams' \in Seq(StreamRec) /\ Len(streams') = Len(streams) + 1
           /\ Len(streams) \in Nat /\ streams' # <<>>
           /\ Idle(streams'[Len(streams')])
           /\ \A t \in 1 .. Len(streams) : streams'[t] = streams[t]
<1> DEFINE e == [NewStream(handleFrame.node) EXCEPT !.state = st]
<1>1. <<>> \in Seq(Byt)
  OBVIOUS
<1>2. e \in StreamRec /\ e.buffer = <<>> /\ e.data = <<>>
  BY <1>1, Zenon DEF NewStream, StreamRec
<1> HIDE DEF e
<1>3. streams \in Seq(StreamRec) /\ streams' = Append(streams, e)
  BY DEF PipeShape, e
<1>4. /\ streams' \in Seq(StreamRec) /\ Len(streams') = Len(streams) + 1
      /\ Len(streams) \in Nat
      /\ streams'[Len(streams) + 1] = e
      /\ \A t \in 1 .. Len(streams) : streams'[t] = streams[t]
  BY <1>2, <1>3
<1>5. streams' # <<>>
  BY <1>4
<1> QED
  BY <1>2, <1>4, <1>5, Zenon DEF Idle

(* Steps that leave what the streams hold as it was.                       *)
SameStreams ==
    /\ Len(streams') = Len(streams)
    /\ \A t \in 1 .. Len(streams) : /\ streams'[t].data = streams[t].data
                                    /\ streams'[t].buffer = streams[t].buffer

(* HandlerAccept, Break and ReadFails of a stream change its states only.  *)
LEMMA StateOnly ==
    ASSUME PipeShape, NEW s \in 1 .. Len(streams),
           HandlerAccept(s) \/ Break(s) \/ ReadFails(s)
    PROVE  /\ streams' \in Seq(StreamRec) /\ SameStreams
           /\ FarEnd /\ UNCHANGED <<fate, truncated>>
<1>1. streams[s] \in StreamRec
  BY DEF PipeShape
<1>2. ASSUME NEW e \in StreamRec, streams' = [streams EXCEPT ![s] = e],
             e.data = streams[s].data, e.buffer = streams[s].buffer
      PROVE  streams' \in Seq(StreamRec) /\ SameStreams
  BY <1>2, StreamUpdate, Zenon DEF SameStreams
<1>3. CASE HandlerAccept(s)
  <2>1. PICK reader \in {"reading", "none"} :
          streams' = [streams EXCEPT ![s].state = "success", ![s].reader = reader]
    BY <1>3, Zenon DEF HandlerAccept
  <2> DEFINE e == [streams[s] EXCEPT !.state = "success", !.reader = reader]
  <2>2. e \in StreamRec /\ e.data = streams[s].data /\ e.buffer = streams[s].buffer
    BY <1>1, Zenon DEF StreamRec
  <2>3. streams' = [streams EXCEPT ![s] = e]
    BY <2>1, Zenon
  <2> QED
    BY <1>2, <1>3, <2>2, <2>3, Zenon DEF HandlerAccept
<1>4. CASE Break(s)
  <2> DEFINE e == [streams[s] EXCEPT !.state = "broken"]
  <2>2. e \in StreamRec /\ e.data = streams[s].data /\ e.buffer = streams[s].buffer
    BY <1>1, Zenon DEF StreamRec
  <2>3. streams' = [streams EXCEPT ![s] = e]
    BY <1>4 DEF Break
  <2> QED
    BY <1>2, <1>4, <2>2, <2>3, Zenon DEF Break
<1>5. CASE ReadFails(s)
  <2> DEFINE e == [streams[s] EXCEPT !.reader = "gone"]
  <2>2. e \in StreamRec /\ e.data = streams[s].data /\ e.buffer = streams[s].buffer
    BY <1>1, Zenon DEF StreamRec
  <2>3. streams' = [streams EXCEPT ![s] = e]
    BY <1>5 DEF ReadFails
  <2> QED
    BY <1>2, <1>5, <2>2, <2>3, Zenon DEF ReadFails
<1> QED
  BY <1>3, <1>4, <1>5

(* A read moves bytes of the one packet the stream carries.                *)
LEMMA ReadEffect ==
    ASSUME PipeShape, NEW s \in 1 .. Len(streams), NEW m \in 1 .. PacketSize,
           ReadChunk(s, m)
    PROVE  /\ streams' \in Seq(StreamRec) /\ Len(streams') = Len(streams)
           /\ \A t \in 1 .. Len(streams) : t # s => streams'[t] = streams[t]
           /\ \E p \in Good : Carries(streams[s], p) /\ Carries(streams'[s], p)
           /\ FarEnd /\ UNCHANGED <<fate, truncated>>
<1>1. streams[s] \in StreamRec /\ m \in Nat \ {0}
  BY PipeAssumption DEF PipeShape
<1>2. PICK p \in Good : Carries(streams[s], p)
  <2>1. ~Idle(streams[s])
    BY <1>1 DEF ReadChunk, Idle
  <2> QED
    BY <2>1 DEF PipeShape
<1>3. PICK n \in 0 .. p.len : streams[s].buffer = Prefix(p, n) /\ streams[s].data = Suffix(p, n)
  BY <1>2 DEF Carries
<1> DEFINE chunk == SubSeq(streams[s].data, 1, m)
           d == SubSeq(streams[s].data, m + 1, Len(streams[s].data))
           b == BufferWrite(streams[s].buffer, chunk)
           e == [streams[s] EXCEPT !.data = d, !.buffer = b, !.reader = "parsing"]
<1>4. /\ n + m \in 0 .. p.len /\ b = Prefix(p, n + m) /\ d = Suffix(p, n + m)
      /\ ~Overflows(streams[s].buffer, chunk) /\ p \in Packet
  <2>1. m <= Len(Suffix(p, n)) /\ p \in Packet
    BY <1>3 DEF ReadChunk, Good
  <2> QED
    BY <1>1, <1>3, <2>1, ReadPart
<1>5. b \in Seq(Byt) /\ d \in Seq(Byt)
  BY <1>4, PartFacts, Zenon
<1>6. streams' = [streams EXCEPT ![s] = e]
  BY Zenon DEF ReadChunk
<1>7. truncated' = truncated
  BY <1>4, Zenon DEF ReadChunk, PipeShape
<1> HIDE DEF b, d
<1>8. e \in StreamRec /\ e.buffer = b /\ e.data = d
  BY <1>1, <1>5, Zenon DEF StreamRec
<1> HIDE DEF e
<1>9. /\ streams' \in Seq(StreamRec) /\ Len(streams') = Len(streams)
      /\ streams'[s] = e
      /\ \A t \in 1 .. Len(streams) : t # s => streams'[t] = streams[t]
  BY <1>6, <1>8, StreamUpdate, Zenon
<1>10. Carries(streams'[s], p)
  BY <1>4, <1>8, <1>9, Zenon DEF Carries
<1> QED
  BY <1>2, <1>7, <1>9, <1>10, Zenon DEF ReadChunk

(* Parsing delivers the packet the stream carries, once it is all there,   *)
(* and leaves the stream idle; else it leaves the bytes alone.             *)
LEMMA ParseEffect ==
    ASSUME PipeShape, NEW s \in 1 .. Len(streams), ParseChunk(s)
    PROVE  /\ streams' \in Seq(StreamRec) /\ Len(streams') = Len(streams)
           /\ FarEnd /\ UNCHANGED truncated
           /\ \/ SameStreams /\ UNCHANGED fate
              \/ /\ \A t \in 1 .. Len(streams) : t # s => streams'[t] = streams[t]
                 /\ Idle(streams'[s])
                 /\ \E p \in Good : /\ Carries(streams[s], p)
                                    /\ fate' = [fate EXCEPT ![p] = "delivered"]
<1>1. streams[s] \in StreamRec
  BY DEF PipeShape
<1> DEFINE buf == streams[s].buffer
           parsed == ParseIPFrame(buf)
           e == [streams[s] EXCEPT !.reader = "reading", !.buffer = buf]
           f == [streams[s] EXCEPT !.buffer = <<>>]
<1>2. FarEnd /\ UNCHANGED truncated
  BY Zenon DEF ParseChunk
<1>3. \/ /\ parsed.kind = "frame"
         /\ streams' = [streams EXCEPT ![s].buffer = parsed.rest]
         /\ fate' = [fate EXCEPT ![parsed.frame] = "delivered"]
      \/ /\ parsed.kind # "frame"
         /\ streams' = [streams EXCEPT
               ![s].reader = "reading",
               ![s].buffer = IF parsed.kind = "error" THEN <<>> ELSE @]
         /\ UNCHANGED fate
  BY DEF ParseChunk
<1>4. /\ e \in StreamRec /\ e.buffer = buf /\ e.data = streams[s].data
      /\ f \in StreamRec /\ f.buffer = <<>> /\ f.data = streams[s].data
  <2>1. <<>> \in Seq(Byt)
    OBVIOUS
  <2> QED
    BY <1>1, <2>1, Zenon DEF StreamRec
<1>5. ASSUME parsed.kind = "nil"
      PROVE  streams' \in Seq(StreamRec) /\ SameStreams /\ UNCHANGED fate
  <2>1. streams' = [streams EXCEPT ![s] = e] /\ UNCHANGED fate
    BY <1>3, <1>5, Zenon
  <2> HIDE DEF e
  <2> QED
    BY <1>4, <2>1, StreamUpdate, Zenon DEF SameStreams
<1>6. CASE Idle(streams[s])
  <2>1. parsed.kind = "nil"
    BY <1>6 DEF Idle, ParseIPFrame
  <2> QED
    BY <1>2, <1>5, <2>1 DEF SameStreams
<1>7. CASE ~Idle(streams[s])
  <2>1. PICK p \in Good : Carries(streams[s], p)
    BY <1>7 DEF PipeShape
  <2>2. PICK n \in 0 .. p.len : buf = Prefix(p, n) /\ streams[s].data = Suffix(p, n)
    BY <2>1 DEF Carries
  <2>3. p \in Packet /\ n \in Nat /\ p.len \in Nat /\ n <= p.len
    BY PartFacts DEF Good
  <2>4. CASE n < p.len
    <3>1. parsed.kind = "nil"
      BY <2>2, <2>4, ParsePrefix
    <3> QED
      BY <1>2, <1>5, <3>1 DEF SameStreams
  <2>5. CASE n = p.len
    <3>1. parsed.kind = "frame" /\ parsed.frame = p /\ parsed.rest = <<>>
      BY <2>2, <2>5, ParsePrefix
    <3>2. streams' = [streams EXCEPT ![s] = f] /\ fate' = [fate EXCEPT ![p] = "delivered"]
      BY <1>3, <3>1
    <3>3. f.data = <<>>
      BY <1>4, <2>2, <2>3, <2>5, WholeFacts
    <3> HIDE DEF f
    <3>4. /\ streams' \in Seq(StreamRec) /\ Len(streams') = Len(streams)
          /\ streams'[s] = f
          /\ \A t \in 1 .. Len(streams) : t # s => streams'[t] = streams[t]
      BY <1>4, <3>2, StreamUpdate, Zenon
    <3>5. Idle(streams'[s])
      BY <1>4, <3>3, <3>4 DEF Idle
    <3> QED
      BY <1>2, <2>1, <3>2, <3>4, <3>5, Zenon
  <2> QED
    BY <2>3, <2>4, <2>5, SMTT(20)
<1> QED
  BY <1>6, <1>7

(* TunReceiveLoop reads one packet into an empty buffer ...                *)
LEMMA TunReadEffect ==
    ASSUME PipeShape, TunRead
    PROVE  /\ Head(tun) \in Packet /\ recvBuffer = <<>>
           /\ recvBuffer' = ToBytes(Head(tun)) /\ truncated' = FALSE
<1>1. tun \in Seq(Packet) /\ tun # <<>> /\ recvBuffer = <<>> /\ truncated = FALSE
  BY DEF PipeShape, TunRead
<1>2. Head(tun) \in Packet
  BY <1>1
<1>3. /\ BufferWrite(<<>>, ToBytes(Head(tun))) = ToBytes(Head(tun))
      /\ ~Overflows(<<>>, ToBytes(Head(tun)))
  BY <1>2, WriteWhole
<1> QED
  BY <1>1, <1>2, <1>3, Zenon DEF TunRead

(* ... and empties it again, by a frame to send or by an error.            *)
LEMMA TunParseEffect ==
    ASSUME PipeShape, TunParse
    PROVE  \/ /\ recvBuffer = <<>> /\ recvPc' = "read"
              /\ UNCHANGED <<recvBuffer, recvFrame, fate>>
           \/ \E p \in Packet :
                /\ recvBuffer = ToBytes(p) /\ recvBuffer' = <<>>
                /\ \/ /\ p \in Good /\ recvFrame' = p /\ recvPc' = "send"
                      /\ UNCHANGED fate
                   \/ /\ recvPc' = "read" /\ fate' = [fate EXCEPT ![p] = "dropped"]
                      /\ UNCHANGED recvFrame
<1> DEFINE parsed == ParseIPFrame(recvBuffer)
<1>1. CASE recvBuffer = <<>>
  <2>1. parsed.kind = "nil"
    BY <1>1 DEF ParseIPFrame
  <2> HIDE DEF parsed
  <2>2. \/ parsed.kind = "error"
        \/ parsed.kind = "nil" /\ recvPc' = "read" /\ UNCHANGED <<recvBuffer, recvFrame, fate>>
        \/ parsed.kind = "frame"
    BY DEF TunParse, parsed
  <2> QED
    BY <1>1, <2>1, <2>2
<1>2. CASE recvBuffer # <<>>
  <2>1. PICK p \in Packet : recvBuffer = ToBytes(p)
    BY <1>2 DEF PipeShape
  <2>2. CASE p.ok
    <3>1. parsed.kind = "frame" /\ parsed.frame = p /\ parsed.rest = <<>>
      BY <2>1, <2>2, ParseWhole
    <3> HIDE DEF parsed
    <3>2. \/ parsed.kind = "error"
          \/ parsed.kind = "nil"
          \/ /\ recvBuffer' = parsed.rest /\ recvFrame' = parsed.frame
             /\ recvPc' = "send" /\ UNCHANGED fate
      BY DEF TunParse, parsed
    <3>3. p \in Good
      BY <2>2 DEF Good
    <3> QED
      BY <2>1, <3>1, <3>2, <3>3
  <2>3. CASE ~p.ok
    <3>1. parsed.kind = "error"
      BY <2>1, <2>3, ParseWhole
    <3> HIDE DEF parsed
    <3>2. /\ recvBuffer' = <<>> /\ recvPc' = "read" /\ UNCHANGED recvFrame
          /\ fate' = [q \in Packet |->
                        IF \E i \in 1 .. Len(recvBuffer) : recvBuffer[i][1] = q
                        THEN "dropped" ELSE fate[q]]
      BY <3>1 DEF TunParse, parsed
    <3>3. ASSUME NEW q \in Packet
          PROVE  (\E i \in 1 .. Len(recvBuffer) : recvBuffer[i][1] = q) <=> q = p
      <4>1. /\ Len(recvBuffer) = p.len /\ p.len \in Nat \ {0}
            /\ \A i \in 1 .. p.len : recvBuffer[i] = <<p, i>>
        BY <2>1, WholeFacts, PipeAssumption
      <4>2. \A i \in 1 .. p.len : recvBuffer[i][1] = p
        BY <4>1
      <4>3. 1 \in 1 .. p.len
        BY <4>1
      <4> QED
        BY <4>1, <4>2, <4>3, Zenon
    <3>4. fate' = [q \in Packet |-> IF q = p THEN "dropped" ELSE fate[q]]
      BY <3>2, <3>3
    <3>5. fate' = [fate EXCEPT ![p] = "dropped"]
      BY <3>4, Zenon DEF PipeShape
    <3> QED
      BY <2>1, <3>2, <3>5
  <2> QED
    BY <2>2, <2>3
<1> QED
  BY <1>1, <1>2

(* HandleReceiveFromTun finds one good frame in what it takes.             *)
LEMMA HandleTakeEffect ==
    ASSUME PipeShape, HandleTake
    PROVE  \E p \in Good :
              /\ ReceivePipe # <<>> /\ Head(ReceivePipe) = ToBytes(p)
              /\ handlePc' = "lookup" /\ handleFrame' = p /\ handleBuffer' = <<>>
              /\ truncated' = FALSE
<1>1. /\ ReceivePipe \in Seq({ToBytes(p) : p \in Good}) /\ ReceivePipe # <<>>
      /\ handleBuffer = <<>> /\ truncated = FALSE
  BY DEF PipeShape, HandleTake
<1>2. Head(ReceivePipe) \in {ToBytes(p) : p \in Good}
  BY <1>1
<1>3. PICK p \in Good : Head(ReceivePipe) = ToBytes(p)
  BY <1>2
<1>4. p \in Packet /\ p.ok
  BY DEF Good
<1> DEFINE b == BufferWrite(handleBuffer, Head(ReceivePipe))
           parsed == ParseIPFrame(b)
<1>5. b = ToBytes(p) /\ ~Overflows(handleBuffer, Head(ReceivePipe))
  BY <1>1, <1>3, <1>4, WriteWhole
<1>6. parsed.kind = "frame" /\ parsed.frame = p /\ parsed.rest = <<>>
  BY <1>4, <1>5, ParseWhole
<1>7. /\ handleBuffer' = parsed.rest /\ handleFrame' = parsed.frame
      /\ handlePc' = CASE parsed.kind = "frame" -> "lookup"
                       [] parsed.kind = "error" -> "recv"
                       [] parsed.kind = "nil"   -> "panic"
      /\ truncated' = (truncated \/ Overflows(handleBuffer, Head(ReceivePipe)))
  BY DEF HandleTake
<1> HIDE DEF parsed
<1>8. handlePc' = "lookup"
  BY <1>6, <1>7
<1>9. truncated' = FALSE
  BY <1>1, <1>5, <1>7, Zenon
<1> QED
  BY <1>1, <1>3, <1>6, <1>7, <1>8, <1>9

-----------------------------------------------------------------------------
(* The shape is inductive.                                                 *)

(* What the steps of the far ends leave to show.                           *)
LEMMA FarShape ==
    ASSUME PipeShape, FarEnd, truncated' = truncated,
           streams' \in Seq(StreamRec), Len(streams') = Len(streams),
           fate' \in [Packet -> {"pending", "dropped", "written", "delivered"}],
           \A t \in 1 .. Len(streams) :
              /\ Idle(streams'[t]) \/ \E p \in Good : Carries(streams'[t], p)
              /\ Idle(streams[t]) => Idle(streams'[t])
    PROVE  PipeShape'
<1>1. /\ UNCHANGED <<arrived, tun, recvPc, recvBuffer, recvFrame, ReceivePipe>>
      /\ UNCHANGED <<handlePc, handleBuffer, handleFrame, truncated>>
  BY DEF FarEnd, tunVars, recvVars, handleVars
<1>2. (handlePc \in {"answer", "write"} => streams # <<>> /\ Idle(streams[Len(streams)]))'
  <2>1. SUFFICES ASSUME handlePc \in {"answer", "write"}
                 PROVE  streams' # <<>> /\ Idle(streams'[Len(streams')])
    BY <1>1
  <2>2. streams \in Seq(StreamRec) /\ streams # <<>> /\ Idle(streams[Len(streams)])
    BY <2>1 DEF PipeShape
  <2>3. Len(streams) \in 1 .. Len(streams)
    BY <2>2
  <2>4. streams' # <<>>
    BY <2>3
  <2> QED
    BY <2>2, <2>3, <2>4
<1>3. (\A s \in 1 .. Len(streams) :
          Idle(streams[s]) \/ \E p \in Good : Carries(streams[s], p))'
  OBVIOUS
<1> QED
  BY <1>1, <1>2, <1>3 DEF PipeShape

(* Giving a packet up frees the handler, whatever became of the stream.    *)
LEMMA GiveUpShape ==
    ASSUME PipeShape, GiveUp, handlePc # "recv", streams' \in Seq(StreamRec),
           \A t \in 1 .. Len(streams') :
              Idle(streams'[t]) \/ \E p \in Good : Carries(streams'[t], p)
    PROVE  PipeShape'
<1>1. /\ UNCHANGED <<arrived, tun, recvPc, recvBuffer, recvFrame, ReceivePipe>>
      /\ handleBuffer' = handleBuffer /\ truncated' = truncated /\ handlePc' = "recv"
  BY DEF GiveUp, tunVars, recvVars
<1>2. fate' \in [Packet -> {"pending", "dropped", "written", "delivered"}]
  BY Zenon DEF GiveUp, PipeShape
<1> QED
  BY <1>1, <1>2 DEF PipeShape

(* The steps of TunReceiveLoop.                                            *)
LEMMA ReceiveShape ==
    ASSUME PipeShape,
           (\E p \in Packet : Arrive(p)) \/ TunRead \/ TunReadFails \/ TunParse \/ TunSend
    PROVE  PipeShape'
<1>1. CASE \E p \in Packet : Arrive(p)
  <2>1. PICK p \in Packet : Arrive(p)
    BY <1>1
  <2>2. arrived' \subseteq Packet /\ tun' \in Seq(Packet)
    BY <2>1 DEF Arrive, PipeShape
  <2> QED
    BY <2>1, <2>2 DEF Arrive, PipeShape, recvVars, handleVars
<1>2. CASE TunRead
  <2>1. tun' \in Seq(Packet)
    BY <1>2 DEF TunRead, PipeShape
  <2>2. recvPc' = "parse" /\ \E p \in Packet : recvBuffer' = ToBytes(p)
    BY <1>2, TunReadEffect, Zenon DEF TunRead
  <2> QED
    BY <1>2, <2>1, <2>2, TunReadEffect, Zenon DEF TunRead, PipeShape, handleVars
<1>3. CASE TunReadFails
  BY <1>3 DEF TunReadFails, PipeShape, tunVars, handleVars
<1>4. CASE TunParse
  <2>0. UNCHANGED <<arrived, tun, ReceivePipe, handlePc, handleBuffer, handleFrame,
                    streams, truncated>>
    BY <1>4 DEF TunParse, tunVars, handleVars
  <2>1. CASE /\ recvBuffer = <<>> /\ recvPc' = "read"
             /\ UNCHANGED <<recvBuffer, recvFrame, fate>>
    BY <2>0, <2>1, Zenon DEF PipeShape
  <2>2. ASSUME NEW p \in Packet, recvBuffer' = <<>>, recvPc' = "read",
               fate' = [fate EXCEPT ![p] = "dropped"]
        PROVE  PipeShape'
    <3>1. fate' \in [Packet -> {"pending", "dropped", "written", "delivered"}]
      BY <2>2 DEF PipeShape
    <3> QED
      BY <2>0, <2>2, <3>1 DEF PipeShape
  <2>3. ASSUME NEW p \in Good, recvBuffer' = <<>>, recvFrame' = p, recvPc' = "send",
               fate' = fate
        PROVE  PipeShape'
    BY <2>0, <2>3, Zenon DEF PipeShape
  <2> QED
    BY <1>4, <2>1, <2>2, <2>3, TunParseEffect, Zenon
<1>5. CASE TunSend
  <2>1. ReceivePipe' \in Seq({ToBytes(p) : p \in Good})
    <3>1. ToBytes(recvFrame) \in {ToBytes(p) : p \in Good}
      BY <1>5 DEF TunSend, PipeShape
    <3>2. ReceivePipe' = Append(ReceivePipe, ToBytes(recvFrame))
      BY <1>5 DEF TunSend
    <3>3. ReceivePipe \in Seq({ToBytes(p) : p \in Good})
      BY DEF PipeShape
    <3> QED
      BY <3>1, <3>2, <3>3
  <2>2. recvPc' = "parse" /\ UNCHANGED <<arrived, tun, recvBuffer, handlePc, handleBuffer,
                                         handleFrame, streams, fate, truncated>>
    BY <1>5 DEF TunSend, tunVars, handleVars
  <2>3. recvBuffer = <<>>
    BY <1>5 DEF TunSend, PipeShape
  <2> QED
    BY <2>1, <2>2, <2>3 DEF PipeShape
<1> QED
  BY <1>1, <1>2, <1>3, <1>4, <1>5, Zenon

(* The steps of HandleReceiveFromTun.                                      *)
LEMMA HandleShape ==
    ASSUME PipeShape, HandleTake \/ LookupNode \/ OpenStream \/ Answer \/ WriteFrame
    PROVE  PipeShape'
<1>0. /\ streams \in Seq(StreamRec) /\ Len(streams) \in Nat
      /\ streams # <<>> => Len(streams) \in 1 .. Len(streams)
      /\ \A t \in 1 .. Len(streams) :
           streams[t] \in StreamRec /\ (Idle(streams[t]) \/ \E p \in Good : Carries(streams[t], p))
  BY DEF PipeShape
<1>1. CASE HandleTake
  <2>1. ReceivePipe' \in Seq({ToBytes(p) : p \in Good})
    BY <1>1 DEF HandleTake, PipeShape
  <2>2. UNCHANGED <<arrived, tun, recvPc, recvBuffer, recvFrame, streams, fate>>
    BY <1>1 DEF HandleTake, tunVars, recvVars
  <2>3. handlePc' = "lookup" /\ handleFrame' \in Good /\ handleBuffer' = <<>> /\ truncated' = FALSE
    BY <1>1, HandleTakeEffect, Zenon
  <2> QED
    BY <2>1, <2>2, <2>3 DEF PipeShape
<1>2. CASE LookupNode
  <2>1. CASE handlePc' = "stream" /\ UNCHANGED <<tunVars, recvVars, ReceivePipe, handleBuffer,
                                       handleFrame, streams, fate, truncated>>
    BY <1>2, <2>1 DEF LookupNode, PipeShape, tunVars, recvVars
  <2>2. CASE GiveUp /\ UNCHANGED streams
    <3>1. handlePc # "recv"
      BY <1>2 DEF LookupNode
    <3> QED
      BY <1>0, <2>2, <3>1, GiveUpShape
  <2> QED
    BY <1>2, <2>1, <2>2, Zenon DEF LookupNode
<1>3. CASE OpenStream
  <2>0. handlePc = "stream" /\ handleFrame \in Packet /\ handleFrame \in Good
    BY <1>3 DEF OpenStream, PipeShape, Good
  <2>1. ASSUME NEW st \in {"connect", "reset"},
               streams' = Append(streams, [NewStream(handleFrame.node) EXCEPT !.state = st])
        PROVE  /\ streams' \in Seq(StreamRec) /\ streams' # <<>> /\ Idle(streams'[Len(streams')])
               /\ \A t \in 1 .. Len(streams') :
                     Idle(streams'[t]) \/ \E p \in Good : Carries(streams'[t], p)
    <3>1. /\ streams' \in Seq(StreamRec) /\ Len(streams') = Len(streams) + 1
          /\ streams' # <<>> /\ Idle(streams'[Len(streams')])
          /\ \A t \in 1 .. Len(streams) : streams'[t] = streams[t]
      BY <2>0, <2>1, StreamOpened
    <3>2. \A t \in 1 .. Len(streams') : t \in 1 .. Len(streams) \/ t = Len(streams')
      BY <1>0, <3>1
    <3> QED
      BY <1>0, <3>1, <3>2, Zenon
  <2>2. CASE GiveUp /\ UNCHANGED streams
    BY <1>0, <2>0, <2>2, GiveUpShape
  <2>3. CASE GiveUp /\ streams' = Append(streams,
                [NewStream(handleFrame.node) EXCEPT !.state = "reset"])
    <3>1. /\ streams' \in Seq(StreamRec)
          /\ \A t \in 1 .. Len(streams') :
                Idle(streams'[t]) \/ \E p \in Good : Carries(streams'[t], p)
      BY <2>1, <2>3, Zenon
    <3> QED
      BY <2>0, <2>3, <3>1, GiveUpShape, Zenon
  <2>4. CASE /\ streams' = Append(streams, NewStream(handleFrame.node))
             /\ handlePc' = "answer"
             /\ UNCHANGED <<tunVars, recvVars, ReceivePipe, handleBuffer, handleFrame,
                            fate, truncated>>
    <3>1. NewStream(handleFrame.node)
            = [NewStream(handleFrame.node) EXCEPT !.state = "connect"]
      BY DEF NewStream
    <3>2. /\ streams' \in Seq(StreamRec) /\ streams' # <<>> /\ Idle(streams'[Len(streams')])
          /\ \A t \in 1 .. Len(streams') :
                Idle(streams'[t]) \/ \E p \in Good : Carries(streams'[t], p)
      BY <2>1, <2>4, <3>1, Zenon
    <3>3. UNCHANGED <<arrived, tun, recvPc, recvBuffer, recvFrame, ReceivePipe,
                      handleBuffer, handleFrame, fate, truncated>>
      BY <2>4 DEF tunVars, recvVars
    <3> QED
      BY <2>0, <2>4, <3>2, <3>3 DEF PipeShape
  <2> QED
    BY <1>3, <2>2, <2>3, <2>4, Zenon DEF OpenStream
<1>4. CASE Answer
  <2>1. CASE /\ handlePc' = "write"
             /\ UNCHANGED <<tunVars, recvVars, ReceivePipe, handleBuffer, handleFrame,
                            streams, fate, truncated>>
    BY <1>4, <2>1 DEF Answer, PipeShape, tunVars, recvVars
  <2>2. CASE streams' = [streams EXCEPT ![current].state = "reset"] /\ GiveUp
    <3> DEFINE e == [streams[current] EXCEPT !.state = "reset"]
    <3>1. handlePc # "recv" /\ current \in 1 .. Len(streams)
      BY <1>0, <1>4 DEF Answer, PipeShape, current
    <3>2. /\ e \in StreamRec /\ e.data = streams[current].data
          /\ e.buffer = streams[current].buffer
      BY <1>0, <3>1, Zenon DEF StreamRec
    <3>3. streams' = [streams EXCEPT ![current] = e]
      BY <2>2
    <3> HIDE DEF e
    <3>4. /\ streams' \in Seq(StreamRec) /\ Len(streams') = Len(streams)
          /\ streams'[current] = e
          /\ \A t \in 1 .. Len(streams) : t # current => streams'[t] = streams[t]
      BY <3>1, <3>2, <3>3, StreamUpdate, Zenon
    <3>5. Idle(e) \/ \E p \in Good : Carries(e, p)
      BY <1>0, <3>1, <3>2 DEF Idle, Carries
    <3>6. \A t \in 1 .. Len(streams') :
             Idle(streams'[t]) \/ \E p \in Good : Carries(streams'[t], p)
      BY <1>0, <3>4, <3>5
    <3> QED
      BY <2>2, <3>1, <3>4, <3>6, GiveUpShape, Zenon
  <2> QED
    BY <1>4, <2>1, <2>2, Zenon DEF Answer
<1>5. CASE WriteFrame
  <2>0. handlePc = "write" /\ handleFrame \in Packet /\ handleFrame \in Good
        /\ current \in 1 .. Len(streams) /\ Idle(streams[current])
    BY <1>0, <1>5 DEF WriteFrame, PipeShape, Good, current
  <2>1. CASE GiveUp /\ UNCHANGED streams
    BY <1>0, <2>0, <2>1, GiveUpShape
  <2>2. CASE /\ streams' = [streams EXCEPT ![current].data = ToBytes(handleFrame)]
             /\ fate' = [fate EXCEPT ![handleFrame] = "written"]
             /\ handlePc' = "recv"
             /\ UNCHANGED <<tunVars, recvVars, ReceivePipe, handleBuffer, truncated>>
    <3> DEFINE e == [streams[current] EXCEPT !.data = ToBytes(handleFrame)]
    <3>1. /\ e \in StreamRec /\ e.data = ToBytes(handleFrame) /\ e.buffer = <<>>
      BY <1>0, <2>0, WholeFacts, Zenon DEF StreamRec, Idle
    <3>2. streams' = [streams EXCEPT ![current] = e]
      BY <2>2
    <3> HIDE DEF e
    <3>3. /\ streams' \in Seq(StreamRec) /\ Len(streams') = Len(streams)
          /\ streams'[current] = e
          /\ \A t \in 1 .. Len(streams) : t # current => streams'[t] = streams[t]
      BY <2>0, <3>1, <3>2, StreamUpdate, Zenon
    <3>4. Carries(e, handleFrame)
      BY <2>0, <3>1, WholeFacts, Zenon DEF Carries
    <3>5. \A t \in 1 .. Len(streams') :
             Idle(streams'[t]) \/ \E p \in Good : Carries(streams'[t], p)
      BY <1>0, <2>0, <3>3, <3>4
    <3>6. UNCHANGED <<arrived, tun, recvPc, recvBuffer, recvFrame, ReceivePipe,
                      handleBuffer, truncated>>
      BY <2>2 DEF tunVars, recvVars
    <3>7. fate' \in [Packet -> {"pending", "dropped", "written", "delivered"}]
      BY <2>2, Zenon DEF PipeShape
    <3> QED
      BY <2>2, <3>3, <3>5, <3>6, <3>7, Zenon DEF PipeShape
  <2> QED
    BY <1>5, <2>1, <2>2 DEF WriteFrame
<1> QED
  BY <1>1, <1>2, <1>3, <1>4, <1>5, Zenon

(* Every step keeps the shape.                                             *)
LEMMA ShapeStep == PipeShape /\ [PipeNext]_pipeVars => PipeShape'
<1> SUFFICES ASSUME PipeShape, [PipeNext]_pipeVars PROVE PipeShape'
  OBVIOUS
<1>0. \A t \in 1 .. Len(streams) : Idle(streams[t]) \/ \E p \in Good : Carries(streams[t], p)
  BY DEF PipeShape
<1>1. ASSUME NEW s \in 1 .. Len(streams), HandlerAccept(s) \/ Break(s) \/ ReadFails(s)
      PROVE  PipeShape'
  <2>1. streams' \in Seq(StreamRec) /\ SameStreams /\ FarEnd /\ UNCHANGED <<fate, truncated>>
    BY <1>1, StateOnly
  <2>2. fate' \in [Packet -> {"pending", "dropped", "written", "delivered"}]
    BY <2>1 DEF PipeShape
  <2>3. Len(streams') = Len(streams)
    BY <2>1 DEF SameStreams
  <2>4. \A t \in 1 .. Len(streams) :
           /\ Idle(streams'[t]) \/ \E p \in Good : Carries(streams'[t], p)
           /\ Idle(streams[t]) => Idle(streams'[t])
    BY <1>0, <2>1, Zenon DEF SameStreams, Idle, Carries
  <2> QED
    BY <2>1, <2>2, <2>3, <2>4, FarShape
<1>2. ASSUME NEW s \in 1 .. Len(streams), NEW m \in 1 .. PacketSize, ReadChunk(s, m)
      PROVE  PipeShape'
  <2>1. /\ streams' \in Seq(StreamRec) /\ Len(streams') = Len(streams)
        /\ \A t \in 1 .. Len(streams) : t # s => streams'[t] = streams[t]
        /\ FarEnd /\ UNCHANGED <<fate, truncated>>
    BY <1>2, ReadEffect, Zenon
  <2>2. PICK p \in Good : Carries(streams[s], p) /\ Carries(streams'[s], p)
    BY <1>2, ReadEffect, Zenon
  <2>3. fate' \in [Packet -> {"pending", "dropped", "written", "delivered"}]
    BY <2>1 DEF PipeShape
  <2>4. ~Idle(streams[s])
    BY <2>2, CarriesOne, Zenon DEF Good
  <2>5. \A t \in 1 .. Len(streams) :
           /\ Idle(streams'[t]) \/ \E q \in Good : Carries(streams'[t], q)
           /\ Idle(streams[t]) => Idle(streams'[t])
    BY <1>0, <2>1, <2>2, <2>4, Zenon
  <2> QED
    BY <2>1, <2>3, <2>5, FarShape
<1>3. ASSUME NEW s \in 1 .. Len(streams), ParseChunk(s) PROVE PipeShape'
  <2>1. /\ streams' \in Seq(StreamRec) /\ Len(streams') = Len(streams)
        /\ FarEnd /\ UNCHANGED truncated
    BY <1>3, ParseEffect
  <2>2. CASE SameStreams /\ UNCHANGED fate
    <3>1. \A t \in 1 .. Len(streams) :
             /\ Idle(streams'[t]) \/ \E p \in Good : Carries(streams'[t], p)
             /\ Idle(streams[t]) => Idle(streams'[t])
      BY <1>0, <2>2 DEF SameStreams, Idle, Carries
    <3>2. fate' \in [Packet -> {"pending", "dropped", "written", "delivered"}]
      BY <2>2, Zenon DEF PipeShape
    <3> QED
      BY <2>1, <3>1, <3>2, FarShape
  <2>3. CASE /\ \A t \in 1 .. Len(streams) : t # s => streams'[t] = streams[t]
             /\ Idle(streams'[s])
             /\ \E p \in Good : /\ Carries(streams[s], p)
                                /\ fate' = [fate EXCEPT ![p] = "delivered"]
    <3>1. \A t \in 1 .. Len(streams) :
             /\ Idle(streams'[t]) \/ \E p \in Good : Carries(streams'[t], p)
             /\ Idle(streams[t]) => Idle(streams'[t])
      BY <1>0, <2>3
    <3>2. fate' \in [Packet -> {"pending", "dropped", "written", "delivered"}]
      BY <2>3, Zenon DEF PipeShape
    <3> QED
      BY <2>1, <3>1, <3>2, FarShape
  <2> QED
    BY <1>3, <2>2, <2>3, ParseEffect
<1>4. CASE UNCHANGED pipeVars
  BY <1>4 DEF pipeVars, tunVars, recvVars, handleVars, PipeShape
<1> QED
  BY <1>1, <1>2, <1>3, <1>4, ReceiveShape, HandleShape DEF PipeNext

-----------------------------------------------------------------------------
(* No packet is at two places of the path.                                 *)

(* The packets that Placed speaks of.                                      *)
LEMMA PlaceTypes ==
    ASSUME PipeShape
    PROVE  /\ \A i \in 1 .. Len(tun) : tun[i] \in Packet
           /\ recvBuffer # <<>> => Of(recvBuffer) \in Packet
           /\ recvPc = "send" => recvFrame \in Packet
           /\ \A i \in 1 .. Len(ReceivePipe) :
                 /\ Of(ReceivePipe[i]) \in Packet
                 /\ ReceivePipe[i] = ToBytes(Of(ReceivePipe[i]))
           /\ handlePc # "recv" => handleFrame \in Packet
<1>1. /\ \A i \in 1 .. Len(tun) : tun[i] \in Packet
      /\ recvPc = "send" => recvFrame \in Packet
      /\ handlePc # "recv" => handleFrame \in Packet
  BY DEF PipeShape, Good
<1>2. recvBuffer # <<>> => Of(recvBuffer) \in Packet
  BY WholeFacts, Zenon DEF PipeShape
<1>3. ASSUME NEW i \in 1 .. Len(ReceivePipe)
      PROVE  Of(ReceivePipe[i]) \in Packet /\ ReceivePipe[i] = ToBytes(Of(ReceivePipe[i]))
  <2>1. ReceivePipe[i] \in {ToBytes(p) : p \in Good}
    BY DEF PipeShape
  <2>2. PICK p \in Good : ReceivePipe[i] = ToBytes(p)
    BY <2>1, Zenon
  <2> QED
    BY <2>2, WholeFacts, Zenon DEF Good
<1> QED
  BY <1>1, <1>2, <1>3

(* Moving one packet leaves the places it was not at as they were.         *)
LEMMA Moved ==
    ASSUME PipeShape, NEW where \in [Packet -> Places], Placed(where),
           NEW p \in Packet, NEW to \in Places,
           NEW w, w = [where EXCEPT ![p] = to]
    PROVE  /\ w \in [Packet -> Places] /\ w[p] = to
           /\ \A q \in Packet : q # p => w[q] = where[q]
           /\ where[p] # "away" => AtAway(w)
           /\ where[p] # "tun" => AtTun(w)
           /\ where[p] # "recv" => AtRecv(w)
           /\ where[p] # "pipe" => AtPipe(w)
           /\ where[p] # "handle" => AtHandle(w)
           /\ where[p] # "stream" => AtStream(w)
           /\ where[p] # "gone" => AtGone(w)
<1>1. /\ w \in [Packet -> Places] /\ w[p] = to
      /\ \A q \in Packet : q # p => w[q] = where[q]
  OBVIOUS
<1>2. where[p] # "away" => AtAway(w)
  BY <1>1, Zenon DEF Placed, AtAway
<1>3. where[p] # "tun" => AtTun(w)
  BY <1>1, PlaceTypes, Zenon DEF Placed, AtTun
<1>4. where[p] # "recv" => AtRecv(w)
  BY <1>1, PlaceTypes, Zenon DEF Placed, AtRecv
<1>5. where[p] # "pipe" => AtPipe(w)
  BY <1>1, PlaceTypes, Zenon DEF Placed, AtPipe
<1>6. where[p] # "handle" => AtHandle(w)
  BY <1>1, PlaceTypes, Zenon DEF Placed, AtHandle
<1>7. where[p] # "stream" => AtStream(w)
  BY <1>1 DEF Placed, AtStream, Good
<1>8. where[p] # "gone" => AtGone(w)
  BY <1>1 DEF Placed, AtGone
<1> QED
  BY <1>1, <1>2, <1>3, <1>4, <1>5, <1>6, <1>7, <1>8

(* A place that a step does not touch holds the packets it held.           *)
LEMMA Kept ==
    ASSUME NEW w
    PROVE  /\ AtAway(w) /\ UNCHANGED arrived => AtAway(w)'
           /\ AtTun(w) /\ UNCHANGED tun => AtTun(w)'
           /\ AtRecv(w) /\ UNCHANGED <<recvPc, recvBuffer, recvFrame>> => AtRecv(w)'
           /\ AtPipe(w) /\ UNCHANGED ReceivePipe => AtPipe(w)'
           /\ AtHandle(w) /\ UNCHANGED <<handlePc, handleFrame>> => AtHandle(w)'
           /\ AtStream(w) /\ UNCHANGED streams => AtStream(w)'
           /\ AtGone(w) /\ UNCHANGED fate => AtGone(w)'
<1>1. AtAway(w) /\ UNCHANGED arrived => AtAway(w)'
  BY DEF AtAway
<1>2. AtTun(w) /\ UNCHANGED tun => AtTun(w)'
  BY DEF AtTun
<1>3. AtRecv(w) /\ UNCHANGED <<recvPc, recvBuffer, recvFrame>> => AtRecv(w)'
  BY DEF AtRecv
<1>4. AtPipe(w) /\ UNCHANGED ReceivePipe => AtPipe(w)'
  BY DEF AtPipe
<1>5. AtHandle(w) /\ UNCHANGED <<handlePc, handleFrame>> => AtHandle(w)'
  BY DEF AtHandle
<1>6. AtStream(w) /\ UNCHANGED streams => AtStream(w)'
  BY DEF AtStream
<1>7. AtGone(w) /\ UNCHANGED fate => AtGone(w)'
  BY DEF AtGone
<1> QED
  BY <1>1, <1>2, <1>3, <1>4, <1>5, <1>6, <1>7

(* The packet that a step settles is gone afterwards.                      *)
LEMMA Settled ==
    ASSUME PipeShape, NEW w, NEW p \in Packet, NEW f, w[p] = "gone", AtGone(w),
           fate' = [fate EXCEPT ![p] = f]
    PROVE  AtGone(w)'
<1>1. \A q \in Packet : q # p => fate'[q] = fate[q]
  BY DEF PipeShape
<1> QED
  BY <1>1 DEF AtGone

(* The near end's steps that do not touch the streams.                     *)
LEMMA ReceivePlaced ==
    ASSUME PipeShape, InOnePlace,
           (\E p \in Packet : Arrive(p)) \/ TunRead \/ TunReadFails \/ TunParse \/ TunSend
    PROVE  InOnePlace'
<1>1. PICK where \in [Packet -> Places] : Placed(where)
  BY DEF InOnePlace
<1> SUFFICES \E w \in [Packet -> Places] : Placed(w)'
  BY DEF InOnePlace
<1>2. CASE \E p \in Packet : Arrive(p)
  <2>1. PICK p \in Packet : Arrive(p)
    BY <1>2, Zenon
  <2>2. /\ p \notin arrived /\ arrived' = arrived \cup {p} /\ tun' = Append(tun, p)
        /\ UNCHANGED <<recvPc, recvBuffer, recvFrame, ReceivePipe, handlePc,
                       handleFrame, streams, fate>>
    BY <2>1 DEF Arrive, recvVars, handleVars
  <2>3. where[p] = "away"
    BY <1>1, <2>2 DEF Placed, AtAway
  <2> DEFINE w == [where EXCEPT ![p] = "tun"]
  <2>4. /\ w \in [Packet -> Places] /\ w[p] = "tun"
        /\ \A q \in Packet : q # p => w[q] = where[q]
        /\ AtTun(w) /\ AtRecv(w) /\ AtPipe(w) /\ AtHandle(w) /\ AtStream(w) /\ AtGone(w)
    <3>1. "tun" \in Places
      BY DEF Places
    <3> QED
      BY <1>1, <2>3, <3>1, Moved, Zenon
  <2> HIDE DEF w
  <2>5. AtAway(w)'
    BY <1>1, <2>2, <2>4 DEF Placed, AtAway
  <2>6. AtTun(w)'
    <3>1. tun \in Seq(Packet)
      BY DEF PipeShape
    <3>2. /\ Len(tun') = Len(tun) + 1 /\ Len(tun) \in Nat /\ tun'[Len(tun) + 1] = p
          /\ \A i \in 1 .. Len(tun) : tun'[i] = tun[i]
      BY <2>2, <3>1
    <3>3. \A i \in 1 .. Len(tun) : tun[i] # p
      BY <1>1, <2>3 DEF Placed, AtTun
    <3>4. \A i \in 1 .. Len(tun') : i \in 1 .. Len(tun) \/ i = Len(tun) + 1
      BY <3>2
    <3>5. \A i \in 1 .. Len(tun') : w[tun'[i]] = "tun"
      BY <2>4, <3>2, <3>4, Zenon DEF AtTun
    <3>6. \A i, j \in 1 .. Len(tun') : tun'[i] = tun'[j] => i = j
      BY <2>4, <3>2, <3>3, <3>4 DEF AtTun
    <3> QED
      BY <3>5, <3>6 DEF AtTun
  <2>7. AtRecv(w)' /\ AtPipe(w)' /\ AtHandle(w)' /\ AtStream(w)' /\ AtGone(w)'
    BY <2>2, <2>4, Kept
  <2>8. Placed(w)'
    BY <2>5, <2>6, <2>7 DEF Placed
  <2> QED
    BY <2>4, <2>8
<1>3. CASE TunRead
  <2>1. PICK p \in Packet : p = Head(tun)
    BY <1>3, TunReadEffect
  <2>2. /\ tun # <<>> /\ tun' = Tail(tun) /\ recvPc' = "parse"
        /\ UNCHANGED <<arrived, ReceivePipe, handlePc, handleFrame, streams, fate>>
    BY <1>3, Zenon DEF TunRead, handleVars
  <2>3. recvBuffer' = ToBytes(p) /\ Of(ToBytes(p)) = p
    BY <1>3, <2>1, TunReadEffect, WholeFacts, Zenon
  <2>4. tun \in Seq(Packet)
    BY DEF PipeShape
  <2>5. /\ p = tun[1] /\ Len(tun) \in Nat \ {0} /\ Len(tun') = Len(tun) - 1
        /\ \A i \in 1 .. Len(tun') : tun'[i] = tun[i + 1]
    BY <2>1, <2>2, <2>4
  <2>6. /\ 1 \in 1 .. Len(tun)
        /\ \A i \in 1 .. Len(tun') : i + 1 \in 1 .. Len(tun) /\ i + 1 # 1
        /\ \A i, j \in 1 .. Len(tun') : i + 1 = j + 1 => i = j
    BY <2>5
  <2>7. where[p] = "tun"
    BY <1>1, <2>5, <2>6 DEF Placed, AtTun
  <2> DEFINE w == [where EXCEPT ![p] = "recv"]
  <2>8. /\ w \in [Packet -> Places] /\ w[p] = "recv"
        /\ \A q \in Packet : q # p => w[q] = where[q]
        /\ AtAway(w) /\ AtPipe(w) /\ AtHandle(w) /\ AtStream(w) /\ AtGone(w)
    <3>1. "recv" \in Places
      BY DEF Places
    <3> QED
      BY <1>1, <2>7, <3>1, Moved, Zenon
  <2> HIDE DEF w
  <2>9. AtTun(w)'
    <3>1. /\ \A i, j \in 1 .. Len(tun) : tun[i] = tun[j] => i = j
          /\ \A i \in 1 .. Len(tun) : where[tun[i]] = "tun" /\ tun[i] \in Packet
      BY <1>1, PlaceTypes, Zenon DEF Placed, AtTun
    <3>2. \A i \in 1 .. Len(tun') : tun'[i] # p
      BY <2>5, <2>6, <3>1, ZenonT(30)
    <3>3. \A i \in 1 .. Len(tun') : w[tun'[i]] = "tun"
      BY <2>5, <2>6, <2>8, <3>1, <3>2
    <3>4. \A i, j \in 1 .. Len(tun') : tun'[i] = tun'[j] => i + 1 = j + 1
      BY <2>5, <2>6, <3>1
    <3> QED
      BY <2>6, <3>3, <3>4, SMTT(20) DEF AtTun
  <2>10. AtRecv(w)'
    BY <2>2, <2>3, <2>8, Zenon DEF AtRecv
  <2>11. AtAway(w)' /\ AtPipe(w)' /\ AtHandle(w)' /\ AtStream(w)' /\ AtGone(w)'
    BY <2>2, <2>8, Kept
  <2>12. Placed(w)'
    BY <2>9, <2>10, <2>11 DEF Placed
  <2> QED
    BY <2>8, <2>12
<1>4. CASE TunReadFails
  <2>1. /\ recvPc' = "dead"
        /\ UNCHANGED <<arrived, tun, recvBuffer, recvFrame, ReceivePipe, handlePc,
                       handleFrame, streams, fate>>
    BY <1>4 DEF TunReadFails, tunVars, handleVars
  <2>2. AtRecv(where)'
    BY <1>1, <2>1, Zenon DEF Placed, AtRecv
  <2>3. Placed(where)'
    BY <1>1, <2>1, <2>2, Kept DEF Placed
  <2> QED
    BY <2>3
<1>5. CASE TunParse
  <2>0. UNCHANGED <<arrived, tun, ReceivePipe, handlePc, handleFrame, streams>>
    BY <1>5 DEF TunParse, tunVars, handleVars
  <2>1. CASE /\ recvBuffer = <<>> /\ recvPc' = "read"
             /\ UNCHANGED <<recvBuffer, recvFrame, fate>>
    <3>1. AtRecv(where)'
      BY <2>1, Zenon DEF AtRecv
    <3>2. Placed(where)'
      BY <1>1, <2>0, <2>1, <3>1, Kept DEF Placed
    <3> QED
      BY <3>2
  <2>2. ASSUME NEW p \in Packet, recvBuffer = ToBytes(p), recvBuffer' = <<>>,
               recvFrame' = p, recvPc' = "send", UNCHANGED fate
        PROVE  \E w \in [Packet -> Places] : Placed(w)'
    <3>1. where[p] = "recv"
      BY <1>1, <2>2, WholeFacts DEF Placed, AtRecv
    <3>2. AtRecv(where)'
      BY <2>2, <3>1, Zenon DEF AtRecv
    <3>3. Placed(where)'
      BY <1>1, <2>0, <2>2, <3>2, Kept DEF Placed
    <3> QED
      BY <3>3, Zenon
  <2>3. ASSUME NEW p \in Packet, recvBuffer = ToBytes(p), recvBuffer' = <<>>,
               recvPc' = "read", fate' = [fate EXCEPT ![p] = "dropped"]
        PROVE  \E w \in [Packet -> Places] : Placed(w)'
    <3> DEFINE w == [where EXCEPT ![p] = "gone"]
    <3>1. where[p] = "recv"
      BY <1>1, <2>3, WholeFacts DEF Placed, AtRecv
    <3>2. /\ w \in [Packet -> Places] /\ w[p] = "gone"
          /\ AtAway(w) /\ AtTun(w) /\ AtPipe(w) /\ AtHandle(w) /\ AtStream(w) /\ AtGone(w)
      <4>1. "gone" \in Places
        BY DEF Places
      <4> QED
        BY <1>1, <3>1, <4>1, Moved, Zenon
    <3> HIDE DEF w
    <3>3. AtGone(w)'
      BY <2>3, <3>2, Settled, Zenon
    <3>4. AtRecv(w)'
      BY <2>3, Zenon DEF AtRecv
    <3>5. AtAway(w)' /\ AtTun(w)' /\ AtPipe(w)' /\ AtHandle(w)' /\ AtStream(w)'
      BY <2>0, <3>2, Kept
    <3>6. Placed(w)'
      BY <3>3, <3>4, <3>5 DEF Placed
    <3> QED
      BY <3>2, <3>6, Zenon
  <2> QED
    BY <1>5, <2>1, <2>2, <2>3, TunParseEffect, Zenon
<1>6. CASE TunSend
  <2>1. PICK p \in Packet : p = recvFrame
    BY <1>6, PlaceTypes, Zenon DEF TunSend
  <2>2. /\ recvPc = "send" /\ ReceivePipe' = Append(ReceivePipe, ToBytes(p))
        /\ recvPc' = "parse" /\ recvBuffer' = recvBuffer
        /\ UNCHANGED <<arrived, tun, handlePc, handleFrame, streams, fate>>
    BY <1>6, <2>1, Zenon DEF TunSend, tunVars, handleVars
  <2>3. p \in Good /\ recvBuffer = <<>> /\ Of(ToBytes(p)) = p
    BY <2>1, <2>2, WholeFacts, Zenon DEF PipeShape
  <2>4. where[p] = "recv"
    BY <1>1, <2>1, <2>2 DEF Placed, AtRecv
  <2> DEFINE w == [where EXCEPT ![p] = "pipe"]
  <2>5. /\ w \in [Packet -> Places] /\ w[p] = "pipe"
        /\ AtAway(w) /\ AtTun(w) /\ AtPipe(w) /\ AtHandle(w) /\ AtStream(w) /\ AtGone(w)
    <3>1. "pipe" \in Places
      BY DEF Places
    <3> QED
      BY <1>1, <2>4, <3>1, Moved, Zenon
  <2> HIDE DEF w
  <2>6. AtPipe(w)'
    <3>1. ToBytes(p) \in {ToBytes(q) : q \in Good}
      BY <2>3
    <3>2. ReceivePipe \in Seq({ToBytes(q) : q \in Good})
      BY DEF PipeShape
    <3>3. /\ Len(ReceivePipe') = Len(ReceivePipe) + 1 /\ Len(ReceivePipe) \in Nat
          /\ ReceivePipe'[Len(ReceivePipe) + 1] = ToBytes(p)
          /\ \A i \in 1 .. Len(ReceivePipe) : ReceivePipe'[i] = ReceivePipe[i]
      BY <2>2, <3>1, <3>2
    <3>4. \A i \in 1 .. Len(ReceivePipe') :
             i \in 1 .. Len(ReceivePipe) \/ i = Len(ReceivePipe) + 1
      BY <3>3
    <3>5. \A i \in 1 .. Len(ReceivePipe) : ReceivePipe[i] # ToBytes(p)
      BY <1>1, <2>3, <2>4, Zenon DEF Placed, AtPipe
    <3>6. \A i \in 1 .. Len(ReceivePipe') : w[Of(ReceivePipe'[i])] = "pipe"
      BY <2>3, <2>5, <3>3, <3>4, ZenonT(30) DEF AtPipe
    <3>7. \A i, j \in 1 .. Len(ReceivePipe') : ReceivePipe'[i] = ReceivePipe'[j] => i = j
      BY <2>5, <3>3, <3>4, <3>5, Zenon DEF AtPipe
    <3> QED
      BY <3>6, <3>7 DEF AtPipe
  <2>7. AtRecv(w)'
    BY <2>2, <2>3, Zenon DEF AtRecv
  <2>8. AtAway(w)' /\ AtTun(w)' /\ AtHandle(w)' /\ AtStream(w)' /\ AtGone(w)'
    BY <2>2, <2>5, Kept
  <2>9. Placed(w)'
    BY <2>6, <2>7, <2>8, Zenon DEF Placed
  <2> QED
    BY <2>5, <2>9, Zenon
<1> QED
  BY <1>2, <1>3, <1>4, <1>5, <1>6


(* No stream carries a packet it did not carry.                            *)
NoMore ==
    \A s \in 1 .. Len(streams'), q \in Good :
       Carries(streams'[s], q) => s \in 1 .. Len(streams) /\ Carries(streams[s], q)

(* A packet that is given up, or delivered by a stream that carried it, is *)
(* gone.                                                                   *)
LEMMA SettledPlaced ==
    ASSUME PipeShape, NEW where \in [Packet -> Places], Placed(where),
           NEW p \in Packet, NEW f, fate' = [fate EXCEPT ![p] = f],
           NoMore, \A s \in 1 .. Len(streams') : ~Carries(streams'[s], p),
           UNCHANGED <<arrived, tun, recvPc, recvBuffer, recvFrame, ReceivePipe>>,
           \/ where[p] = "handle" /\ handlePc' = "recv"
           \/ where[p] = "stream" /\ UNCHANGED <<handlePc, handleFrame>>
    PROVE  \E w \in [Packet -> Places] : Placed(w)'
<1> DEFINE w == [where EXCEPT ![p] = "gone"]
<1>1. /\ w \in [Packet -> Places] /\ w[p] = "gone"
      /\ \A q \in Packet : q # p => w[q] = where[q]
      /\ AtAway(w) /\ AtTun(w) /\ AtRecv(w) /\ AtPipe(w) /\ AtGone(w)
      /\ where[p] # "handle" => AtHandle(w)
  <2>1. "gone" \in Places /\ where[p] \in {"handle", "stream"}
    BY DEF Places
  <2>2. where[p] \notin {"away", "tun", "recv", "pipe", "gone"}
    BY <2>1
  <2> QED
    BY <2>1, <2>2, Moved, Zenon
<1> HIDE DEF w
<1>2. AtGone(w)'
  BY <1>1, Settled, Zenon
<1>3. AtHandle(w)'
  BY <1>1, Kept, Zenon DEF AtHandle
<1>4. AtStream(w)'
  <2>0. AtStream(where)
    BY Zenon DEF Placed
  <2>1. ASSUME NEW s \in 1 .. Len(streams'), NEW q \in Good, Carries(streams'[s], q)
        PROVE  w[q] = "stream"
    <3>1. q # p /\ s \in 1 .. Len(streams) /\ Carries(streams[s], q) /\ q \in Packet
      BY <2>1, ZenonT(30) DEF NoMore, Good
    <3>2. where[q] = "stream"
      BY <2>0, <3>1, Zenon DEF AtStream
    <3> QED
      BY <1>1, <3>1, <3>2, Zenon
  <2>2. ASSUME NEW s \in 1 .. Len(streams'), NEW t \in 1 .. Len(streams'), NEW q \in Good,
               Carries(streams'[s], q), Carries(streams'[t], q)
        PROVE  s = t
    <3>1. /\ s \in 1 .. Len(streams) /\ Carries(streams[s], q)
          /\ t \in 1 .. Len(streams) /\ Carries(streams[t], q)
      BY <2>2, Zenon DEF NoMore
    <3> QED
      BY <2>0, <3>1, Zenon DEF AtStream
  <2> QED
    BY <2>1, <2>2 DEF AtStream
<1>5. AtAway(w)' /\ AtTun(w)' /\ AtRecv(w)' /\ AtPipe(w)'
  BY <1>1, Kept, Zenon
<1>6. Placed(w)'
  BY <1>2, <1>3, <1>4, <1>5, Zenon DEF Placed
<1> QED
  BY <1>1, <1>6

(* A step that moves no packet.                                            *)
LEMMA StillPlaced ==
    ASSUME NEW where, Placed(where), NoMore,
           UNCHANGED <<arrived, tun, recvPc, recvBuffer, recvFrame, ReceivePipe, fate>>,
           handlePc' # "recv" => handlePc # "recv" /\ handleFrame' = handleFrame
    PROVE  Placed(where)'
<1>1. AtStream(where)'
  <2>1. \A s \in 1 .. Len(streams'), q \in Good :
           Carries(streams'[s], q) => where[q] = "stream"
    BY Zenon DEF Placed, AtStream, NoMore
  <2>2. ASSUME NEW s \in 1 .. Len(streams'), NEW t \in 1 .. Len(streams'), NEW q \in Good,
               Carries(streams'[s], q), Carries(streams'[t], q)
        PROVE  s = t
    <3>1. /\ s \in 1 .. Len(streams) /\ Carries(streams[s], q)
          /\ t \in 1 .. Len(streams) /\ Carries(streams[t], q)
      BY <2>2 DEF NoMore
    <3> QED
      BY <3>1, ZenonT(30) DEF Placed, AtStream
  <2> QED
    BY <2>1, <2>2, Zenon DEF AtStream
<1>2. AtHandle(where)'
  BY Zenon DEF Placed, AtHandle
<1>3. AtAway(where)' /\ AtTun(where)' /\ AtRecv(where)' /\ AtPipe(where)' /\ AtGone(where)'
  BY Kept DEF Placed
<1> QED
  BY <1>1, <1>2, <1>3 DEF Placed

(* GiveUp, whatever became of the stream.                                  *)
LEMMA GiveUpPlaced ==
    ASSUME PipeShape, NEW where \in [Packet -> Places], Placed(where),
           handlePc # "recv", GiveUp, NoMore
    PROVE  \E w \in [Packet -> Places] : Placed(w)'
<1>1. PICK p \in Packet : p = handleFrame
  BY PlaceTypes
<1>2. where[p] = "handle"
  BY <1>1 DEF Placed, AtHandle
<1>3. fate' = [fate EXCEPT ![p] = "dropped"] /\ handlePc' = "recv"
  BY <1>1 DEF GiveUp
<1>4. UNCHANGED <<arrived, tun, recvPc, recvBuffer, recvFrame, ReceivePipe>>
  BY DEF GiveUp, tunVars, recvVars
<1>5. \A s \in 1 .. Len(streams') : ~Carries(streams'[s], p)
  <2>1. SUFFICES ASSUME NEW s \in 1 .. Len(streams'), Carries(streams'[s], p) PROVE FALSE
    OBVIOUS
  <2>2. p \in Good
    BY <1>1, Zenon DEF PipeShape
  <2>3. s \in 1 .. Len(streams) /\ Carries(streams[s], p)
    BY <2>1, <2>2 DEF NoMore
  <2> QED
    BY <1>2, <2>2, <2>3 DEF Placed, AtStream
<1> QED
  BY <1>2, <1>3, <1>4, <1>5, SettledPlaced, Zenon

(* The steps of HandleReceiveFromTun.                                      *)
LEMMA HandlePlaced ==
    ASSUME PipeShape, InOnePlace,
           HandleTake \/ LookupNode \/ OpenStream \/ Answer \/ WriteFrame
    PROVE  InOnePlace'
<1>1. PICK where \in [Packet -> Places] : Placed(where)
  BY DEF InOnePlace
<1> SUFFICES \E w \in [Packet -> Places] : Placed(w)'
  BY DEF InOnePlace
<1>2. streams' = streams => NoMore
  BY DEF NoMore
<1>3. CASE HandleTake
  <2>1. PICK p \in Good :
              /\ ReceivePipe # <<>> /\ Head(ReceivePipe) = ToBytes(p)
              /\ handlePc' = "lookup" /\ handleFrame' = p /\ handleBuffer' = <<>>
              /\ truncated' = FALSE
    BY <1>3, HandleTakeEffect, Zenon
  <2>2. /\ handlePc = "recv" /\ ReceivePipe' = Tail(ReceivePipe)
        /\ UNCHANGED <<arrived, tun, recvPc, recvBuffer, recvFrame, streams, fate>>
    BY <1>3 DEF HandleTake, tunVars, recvVars
  <2>3. ReceivePipe \in Seq({ToBytes(q) : q \in Good}) /\ p \in Packet
    BY DEF PipeShape, Good
  <2>4. /\ ReceivePipe[1] = ToBytes(p) /\ Len(ReceivePipe) \in Nat \ {0}
        /\ Len(ReceivePipe') = Len(ReceivePipe) - 1
        /\ \A i \in 1 .. Len(ReceivePipe') :
              ReceivePipe'[i] = ReceivePipe[i + 1]
    BY <2>1, <2>2, <2>3
  <2>5. /\ 1 \in 1 .. Len(ReceivePipe)
        /\ \A i \in 1 .. Len(ReceivePipe') :
              i + 1 \in 1 .. Len(ReceivePipe) /\ i + 1 # 1
        /\ \A i, j \in 1 .. Len(ReceivePipe') : i + 1 = j + 1 => i = j
    BY <2>4, SMTT(20)
  <2>6. /\ \A i, j \in 1 .. Len(ReceivePipe) : ReceivePipe[i] = ReceivePipe[j] => i = j
        /\ \A i \in 1 .. Len(ReceivePipe) :
             /\ where[Of(ReceivePipe[i])] = "pipe" /\ Of(ReceivePipe[i]) \in Packet
             /\ ReceivePipe[i] = ToBytes(Of(ReceivePipe[i]))
    BY <1>1, PlaceTypes, Zenon DEF Placed, AtPipe
  <2>7. where[p] = "pipe"
    <3>1. Of(ReceivePipe[1]) = p
      BY <2>3, <2>4, WholeFacts
    <3> QED
      BY <2>5, <2>6, <3>1, Zenon
  <2> DEFINE w == [where EXCEPT ![p] = "handle"]
  <2>8. /\ w \in [Packet -> Places] /\ w[p] = "handle"
        /\ \A q \in Packet : q # p => w[q] = where[q]
        /\ AtAway(w) /\ AtTun(w) /\ AtRecv(w) /\ AtStream(w) /\ AtGone(w)
    <3>1. "handle" \in Places
      BY DEF Places
    <3> QED
      BY <1>1, <2>3, <2>7, <3>1, Moved, Zenon
  <2> HIDE DEF w
  <2>9. AtPipe(w)'
    <3>1. \A i \in 1 .. Len(ReceivePipe') : Of(ReceivePipe'[i]) # p
      <4>1. \A i \in 1 .. Len(ReceivePipe') : ReceivePipe[i + 1] # ToBytes(p)
        BY <2>4, <2>5, <2>6, Zenon
      <4> QED
        BY <2>4, <2>5, <2>6, <4>1
    <3>2. \A i \in 1 .. Len(ReceivePipe') : w[Of(ReceivePipe'[i])] = "pipe"
      BY <2>4, <2>5, <2>6, <2>8, <3>1
    <3>3. \A i, j \in 1 .. Len(ReceivePipe') : ReceivePipe'[i] = ReceivePipe'[j] => i + 1 = j + 1
      BY <2>4, <2>5, <2>6
    <3> QED
      BY <2>5, <3>2, <3>3 DEF AtPipe
  <2>10. AtHandle(w)'
    BY <2>1, <2>8, Zenon DEF AtHandle
  <2>11. AtAway(w)' /\ AtTun(w)' /\ AtRecv(w)' /\ AtStream(w)' /\ AtGone(w)'
    BY <2>2, <2>8, Kept
  <2>12. Placed(w)'
    BY <2>9, <2>10, <2>11, Zenon DEF Placed
  <2> QED
    BY <2>8, <2>12
<1>4. CASE LookupNode
  <2>1. CASE handlePc' = "stream" /\ UNCHANGED <<tunVars, recvVars, ReceivePipe, handleBuffer,
                                       handleFrame, streams, fate, truncated>>
    <3>1. Placed(where)'
      BY <1>1, <1>2, <1>4, <2>1, StillPlaced DEF LookupNode, tunVars, recvVars
    <3> QED
      BY <3>1, Zenon
  <2>2. CASE GiveUp /\ UNCHANGED streams
    <3>1. handlePc # "recv"
      BY <1>4, Zenon DEF LookupNode
    <3> QED
      BY <1>1, <1>2, <2>2, <3>1, GiveUpPlaced, Zenon
  <2> QED
    BY <1>4, <2>1, <2>2 DEF LookupNode
<1>5. CASE OpenStream
  <2>0. handlePc = "stream" /\ handleFrame \in Packet
    BY <1>5, PlaceTypes, Zenon DEF OpenStream
  <2>1. ASSUME NEW st \in {"connect", "reset"},
               streams' = Append(streams, [NewStream(handleFrame.node) EXCEPT !.state = st])
        PROVE  NoMore
    <3>1. /\ Len(streams') = Len(streams) + 1 /\ Len(streams) \in Nat
          /\ Idle(streams'[Len(streams')])
          /\ \A t \in 1 .. Len(streams) : streams'[t] = streams[t]
      BY <2>0, <2>1, StreamOpened
    <3>2. \A t \in 1 .. Len(streams') : t \in 1 .. Len(streams) \/ t = Len(streams')
      BY <3>1
    <3>3. \A q \in Good : ~Carries(streams'[Len(streams')], q)
      BY <3>1, CarriesOne DEF Good
    <3> QED
      BY <3>1, <3>2, <3>3 DEF NoMore
  <2>2. CASE GiveUp /\ UNCHANGED streams
    BY <1>1, <1>2, <2>0, <2>2, GiveUpPlaced, Zenon
  <2>3. CASE GiveUp /\ streams' = Append(streams,
                [NewStream(handleFrame.node) EXCEPT !.state = "reset"])
    BY <1>1, <2>0, <2>1, <2>3, GiveUpPlaced, Zenon
  <2>4. CASE /\ streams' = Append(streams, NewStream(handleFrame.node))
             /\ handlePc' = "answer"
             /\ UNCHANGED <<tunVars, recvVars, ReceivePipe, handleBuffer, handleFrame,
                            fate, truncated>>
    <3>1. NewStream(handleFrame.node)
            = [NewStream(handleFrame.node) EXCEPT !.state = "connect"]
      BY DEF NewStream
    <3>2. NoMore
      BY <2>1, <2>4, <3>1
    <3>3. Placed(where)'
      BY <1>1, <2>0, <2>4, <3>2, StillPlaced DEF tunVars, recvVars
    <3> QED
      BY <3>3
  <2> QED
    BY <1>5, <2>2, <2>3, <2>4, Zenon DEF OpenStream
<1>6. CASE Answer
  <2>1. CASE /\ handlePc' = "write"
             /\ UNCHANGED <<tunVars, recvVars, ReceivePipe, handleBuffer, handleFrame,
                            streams, fate, truncated>>
    <3>1. Placed(where)'
      BY <1>1, <1>2, <1>6, <2>1, StillPlaced DEF Answer, tunVars, recvVars
    <3> QED
      BY <3>1
  <2>2. CASE streams' = [streams EXCEPT ![current].state = "reset"] /\ GiveUp
    <3> DEFINE e == [streams[current] EXCEPT !.state = "reset"]
    <3>1. handlePc # "recv" /\ current \in 1 .. Len(streams) /\ streams[current] \in StreamRec
      BY <1>6 DEF Answer, PipeShape, current
    <3>2. /\ e \in StreamRec /\ e.data = streams[current].data
          /\ e.buffer = streams[current].buffer
      BY <3>1, Zenon DEF StreamRec
    <3>3. streams' = [streams EXCEPT ![current] = e]
      BY <2>2
    <3> HIDE DEF e
    <3>4. /\ Len(streams') = Len(streams) /\ streams'[current] = e
          /\ \A t \in 1 .. Len(streams) : t # current => streams'[t] = streams[t]
      BY <3>1, <3>2, <3>3, StreamUpdate, Zenon
    <3>5. \A q \in Good : Carries(e, q) => Carries(streams[current], q)
      BY <3>2, Zenon DEF Carries
    <3>6. NoMore
      BY <3>1, <3>4, <3>5 DEF NoMore
    <3> QED
      BY <1>1, <2>2, <3>1, <3>6, GiveUpPlaced, Zenon
  <2> QED
    BY <1>6, <2>1, <2>2 DEF Answer
<1>7. CASE WriteFrame
  <2>0. handlePc = "write" /\ current \in 1 .. Len(streams) /\ Idle(streams[current])
        /\ streams[current] \in StreamRec
    BY <1>7 DEF WriteFrame, PipeShape, current
  <2>1. CASE GiveUp /\ UNCHANGED streams
    BY <1>1, <1>2, <2>0, <2>1, GiveUpPlaced, Zenon
  <2>2. CASE /\ streams' = [streams EXCEPT ![current].data = ToBytes(handleFrame)]
             /\ fate' = [fate EXCEPT ![handleFrame] = "written"]
             /\ handlePc' = "recv"
             /\ UNCHANGED <<tunVars, recvVars, ReceivePipe, handleBuffer, truncated>>
    <3>1. PICK p \in Packet : p = handleFrame
      BY <2>0, PlaceTypes
    <3> DEFINE e == [streams[current] EXCEPT !.data = ToBytes(p)]
               w == [where EXCEPT ![p] = "stream"]
    <3>2. p \in Good /\ where[p] = "handle"
      BY <1>1, <2>0, <3>1 DEF PipeShape, Placed, AtHandle
    <3>3. /\ e \in StreamRec /\ e.data = ToBytes(p) /\ e.buffer = <<>>
      BY <2>0, WholeFacts, Zenon DEF StreamRec, Idle
    <3>4. streams' = [streams EXCEPT ![current] = e]
      BY <2>2, <3>1
    <3> HIDE DEF e
    <3>5. /\ Len(streams') = Len(streams) /\ streams'[current] = e
          /\ \A t \in 1 .. Len(streams) : t # current => streams'[t] = streams[t]
      BY <2>0, <3>3, <3>4, StreamUpdate
    <3>6. \A q \in Packet : Carries(e, q) => q = p
      <4>1. Carries(e, p)
        BY <3>3, WholeFacts DEF Carries
      <4> QED
        BY <4>1, CarriesOne, Zenon
    <3>7. /\ w \in [Packet -> Places] /\ w[p] = "stream"
          /\ AtAway(w) /\ AtTun(w) /\ AtRecv(w) /\ AtPipe(w) /\ AtStream(w) /\ AtGone(w)
      <4>1. "stream" \in Places
        BY DEF Places
      <4> QED
        BY <1>1, <3>2, <4>1, Moved, Zenon
    <3> HIDE DEF w
    <3>8. UNCHANGED <<arrived, tun, recvPc, recvBuffer, recvFrame, ReceivePipe>>
      BY <2>2 DEF tunVars, recvVars
    <3>9. AtGone(w)'
      <4>1. fate'[p] = "written" /\ \A q \in Packet : q # p => fate'[q] = fate[q]
        BY <2>2, <3>1 DEF PipeShape
      <4> QED
        BY <3>7, <4>1 DEF AtGone
    <3>10. \A s \in 1 .. Len(streams), q \in Good : Carries(streams[s], q) => q # p
      BY <1>1, <3>2 DEF Placed, AtStream
    <3>11. AtStream(w)'
      <4>1. \A s \in 1 .. Len(streams'), q \in Good : Carries(streams'[s], q) => w[q] = "stream"
        BY <2>0, <3>5, <3>6, <3>7, Zenon DEF Good, AtStream
      <4>2. ASSUME NEW s \in 1 .. Len(streams'), NEW t \in 1 .. Len(streams'), NEW q \in Good,
                   Carries(streams'[s], q), Carries(streams'[t], q)
            PROVE  s = t
        <5>1. CASE q = p
          <6>1. \A u \in 1 .. Len(streams') : Carries(streams'[u], p) => u = current
            BY <3>2, <3>5, <3>10, Zenon
          <6> QED
            BY <4>2, <5>1, <6>1
        <5>2. CASE q # p
          <6>1. \A u \in 1 .. Len(streams') : Carries(streams'[u], q) =>
                   u \in 1 .. Len(streams) /\ Carries(streams[u], q)
            BY <3>5, <3>6, <5>2 DEF Good
          <6> QED
            BY <3>7, <4>2, <6>1, Zenon DEF AtStream
        <5> QED
          BY <5>1, <5>2
      <4> QED
        BY <4>1, <4>2, Zenon DEF AtStream
    <3>12. AtHandle(w)'
      BY <2>2 DEF AtHandle
    <3>13. AtAway(w)' /\ AtTun(w)' /\ AtRecv(w)' /\ AtPipe(w)'
      BY <3>7, <3>8, Kept
    <3>14. Placed(w)'
      BY <3>9, <3>11, <3>12, <3>13 DEF Placed
    <3> QED
      BY <3>7, <3>14, Zenon
  <2> QED
    BY <1>7, <2>1, <2>2 DEF WriteFrame
<1> QED
  BY <1>3, <1>4, <1>5, <1>6, <1>7

(* Every step keeps every packet at one place.                             *)
LEMMA PlacedStep == PipeShape /\ InOnePlace /\ [PipeNext]_pipeVars => InOnePlace'
<1> SUFFICES ASSUME PipeShape, InOnePlace, [PipeNext]_pipeVars PROVE InOnePlace'
  OBVIOUS
<1>0. PICK where \in [Packet -> Places] : Placed(where)
  BY DEF InOnePlace
<1>1. ASSUME Placed(where)' PROVE InOnePlace'
  BY <1>1, Zenon DEF InOnePlace
<1>2. ASSUME SameStreams PROVE NoMore
  BY <1>2 DEF SameStreams, NoMore, Carries
<1>3. FarEnd => UNCHANGED <<arrived, tun, recvPc, recvBuffer, recvFrame, ReceivePipe,
                            handlePc, handleFrame>>
  BY DEF FarEnd, tunVars, recvVars, handleVars
<1>4. ASSUME NEW s \in 1 .. Len(streams), HandlerAccept(s) \/ Break(s) \/ ReadFails(s)
      PROVE  InOnePlace'
  <2>1. SameStreams /\ FarEnd /\ UNCHANGED <<fate, truncated>>
    BY <1>4, StateOnly
  <2> QED
    BY <1>0, <1>1, <1>2, <1>3, <2>1, StillPlaced, Zenon
<1>5. ASSUME NEW s \in 1 .. Len(streams), NEW m \in 1 .. PacketSize, ReadChunk(s, m)
      PROVE  InOnePlace'
  <2>1. /\ Len(streams') = Len(streams)
        /\ \A t \in 1 .. Len(streams) : t # s => streams'[t] = streams[t]
        /\ FarEnd /\ UNCHANGED <<fate, truncated>>
    BY <1>5, ReadEffect, Zenon
  <2>2. PICK p \in Good : Carries(streams[s], p) /\ Carries(streams'[s], p)
    BY <1>5, ReadEffect, Zenon
  <2>3. \A q \in Good : Carries(streams'[s], q) => q = p
    BY <2>2, CarriesOne, Zenon DEF Good
  <2>4. NoMore
    BY <2>1, <2>2, <2>3, Zenon DEF NoMore
  <2> QED
    BY <1>0, <1>1, <1>3, <2>1, <2>4, StillPlaced, Zenon
<1>6. ASSUME NEW s \in 1 .. Len(streams), ParseChunk(s) PROVE InOnePlace'
  <2>1. Len(streams') = Len(streams) /\ FarEnd
    BY <1>6, ParseEffect
  <2>2. CASE SameStreams /\ UNCHANGED fate
    BY <1>0, <1>1, <1>2, <1>3, <2>1, <2>2, StillPlaced, Zenon
  <2>3. CASE /\ \A t \in 1 .. Len(streams) : t # s => streams'[t] = streams[t]
             /\ Idle(streams'[s])
             /\ \E p \in Good : /\ Carries(streams[s], p)
                                /\ fate' = [fate EXCEPT ![p] = "delivered"]
    <3>1. PICK p \in Good : /\ Carries(streams[s], p)
                            /\ fate' = [fate EXCEPT ![p] = "delivered"]
      BY <2>3, Zenon
    <3>2. \A q \in Good : ~Carries(streams'[s], q)
      BY <2>3, CarriesOne, Zenon DEF Good
    <3>3. NoMore
      BY <2>1, <2>3, <3>2 DEF NoMore
    <3>4. where[p] = "stream" /\ p \in Packet
      BY <1>0, <3>1 DEF Placed, AtStream, Good
    <3>5. \A t \in 1 .. Len(streams') : ~Carries(streams'[t], p)
      BY <1>0, <2>1, <2>3, <3>1, <3>2, Zenon DEF Placed, AtStream
    <3>6. \E w \in [Packet -> Places] : Placed(w)'
      BY <1>0, <1>3, <2>1, <3>1, <3>3, <3>4, <3>5, SettledPlaced, Zenon
    <3> QED
      BY <3>6 DEF InOnePlace
  <2> QED
    BY <1>6, <2>2, <2>3, ParseEffect
<1>7. CASE UNCHANGED pipeVars
  <2>1. UNCHANGED <<arrived, tun, recvPc, recvBuffer, recvFrame, ReceivePipe,
                    handlePc, handleFrame, streams, fate>>
    BY <1>7 DEF pipeVars, tunVars, recvVars, handleVars
  <2> QED
    BY <1>0, <1>1, <2>1, Kept, SMTT(20) DEF Placed
<1> QED
  BY <1>4, <1>5, <1>6, <1>7, ReceivePlaced, HandlePlaced DEF PipeNext

LEMMA PipeInitInv == PipeInit => PipeShape /\ InOnePlace
<1> SUFFICES ASSUME PipeInit PROVE PipeShape /\ InOnePlace
  OBVIOUS
<1>1. /\ tun = <<>> /\ ReceivePipe = <<>> /\ streams = <<>>
      /\ Len(tun) = 0 /\ Len(ReceivePipe) = 0 /\ Len(streams) = 0
  BY DEF PipeInit
<1>2. /\ <<>> \in Seq(Packet) /\ <<>> \in Seq({ToBytes(p) : p \in Good})
      /\ <<>> \in Seq(StreamRec)
  OBVIOUS
<1>3. fate \in [Packet -> {"pending", "dropped", "written", "delivered"}]
  BY DEF PipeInit
<1>4. \A i \in 1 .. 0 : FALSE
  OBVIOUS
<1>5. PipeShape
  BY <1>1, <1>2, <1>3, <1>4 DEF PipeInit, PipeShape
<1>6. [p \in Packet |-> "away"] \in [Packet -> Places]
  BY Zenon DEF Places
<1>7. Placed([p \in Packet |-> "away"])
  BY <1>1, <1>4 DEF PipeInit, Placed, AtAway, AtTun, AtRecv, AtPipe, AtHandle, AtStream, AtGone
<1> QED
  BY <1>5, <1>6, <1>7 DEF InOnePlace

(* What HandleReceiveFromTun takes from ReceivePipe is one well-formed     *)
(* frame: it never dereferences a nil frame, for any packets and any       *)
(* capacity of the buffers.                                                *)
THEOREM FrameFound == PipeSpec => []HandleFindsFrame
<1>1. PipeShape => HandleFindsFrame
  BY DEF PipeShape, HandleFindsFrame
<1> QED
  BY <1>1, PipeInitInv, ShapeStep, PTL DEF PipeSpec

(* No Write of the path finds a buffer too full for its bytes, however the *)
(* reads of the far end cut them up.                                       *)
THEOREM NeverTruncated == PipeSpec => []NothingTruncated
<1>1. PipeShape => NothingTruncated
  BY DEF PipeShape, NothingTruncated
<1> QED
  BY <1>1, PipeInitInv, ShapeStep, PTL DEF PipeSpec

(* A packet that was dropped or delivered stays so: none is sent after it  *)
(* was given up, and none reaches the raw socket twice.                    *)
THEOREM PacketSettledOnce == PipeSpec => SettledOnce
<1>1. ASSUME PipeShape, InOnePlace, [PipeNext]_pipeVars, NEW p \in Packet,
             fate[p] \in {"dropped", "delivered"}
      PROVE  fate'[p] = fate[p]
  <2>0. PICK where \in [Packet -> Places] : Placed(where)
    BY <1>1 DEF InOnePlace
  <2>1. where[p] = "gone" /\ fate \in [Packet -> {"pending", "dropped", "written", "delivered"}]
    BY <1>1, <2>0 DEF Placed, AtGone, PipeShape
  <2>2. ASSUME NEW q \in Packet, NEW f, fate' = [fate EXCEPT ![q] = f], where[q] # "gone"
        PROVE  fate'[p] = fate[p]
    BY <2>1, <2>2
  <2>3. CASE TunParse
    <3>1. ASSUME NEW q \in Packet, recvBuffer = ToBytes(q),
                 fate' = [fate EXCEPT ![q] = "dropped"]
          PROVE  fate'[p] = fate[p]
      <4>1. where[q] = "recv"
        BY <2>0, <3>1, WholeFacts DEF Placed, AtRecv
      <4> QED
        BY <2>2, <3>1, <4>1, Zenon
    <3> QED
      BY <1>1, <2>3, <3>1, TunParseEffect
  <2>4. ASSUME handlePc # "recv", NEW f, fate' = [fate EXCEPT ![handleFrame] = f]
        PROVE  fate'[p] = fate[p]
    <3>1. handleFrame \in Packet /\ where[handleFrame] = "handle"
      BY <1>1, <2>0, <2>4, PlaceTypes DEF Placed, AtHandle
    <3> QED
      BY <2>2, <2>4, <3>1, Zenon
  <2>5. CASE LookupNode \/ OpenStream \/ Answer \/ WriteFrame
    <3>1. handlePc # "recv"
      BY <2>5 DEF LookupNode, OpenStream, Answer, WriteFrame
    <3>2. \/ fate' = fate
          \/ fate' = [fate EXCEPT ![handleFrame] = "dropped"]
          \/ fate' = [fate EXCEPT ![handleFrame] = "written"]
      BY <2>5, Zenon DEF LookupNode, OpenStream, Answer, WriteFrame, GiveUp
    <3> QED
      BY <2>4, <3>1, <3>2
  <2>6. ASSUME NEW s \in 1 .. Len(streams), ParseChunk(s) PROVE fate'[p] = fate[p]
    <3>1. ASSUME NEW q \in Good, Carries(streams[s], q),
                 fate' = [fate EXCEPT ![q] = "delivered"]
          PROVE  fate'[p] = fate[p]
      <4>1. where[q] = "stream" /\ q \in Packet
        BY <2>0, <3>1 DEF Placed, AtStream, Good
      <4> QED
        BY <2>2, <3>1, <4>1, Zenon
    <3> QED
      BY <1>1, <2>6, <3>1, ParseEffect
  <2>7. CASE \/ (\E q \in Packet : Arrive(q)) \/ TunRead \/ TunReadFails \/ TunSend \/ HandleTake
             \/ \E s \in 1 .. Len(streams) :
                  \/ HandlerAccept(s) \/ Break(s) \/ ReadFails(s)
                  \/ \E m \in 1 .. PacketSize : ReadChunk(s, m)
             \/ UNCHANGED pipeVars
    BY <2>7, Zenon DEF Arrive, TunRead, TunReadFails, TunSend, HandleTake, HandlerAccept, Break,
                ReadFails, ReadChunk, pipeVars
  <2> QED
    BY <1>1, <2>3, <2>5, <2>6, <2>7 DEF PipeNext
<1>2. PipeShape /\ InOnePlace /\ [PipeNext]_pipeVars =>
        [\A p \in Packet : fate[p] \in {"dropped", "delivered"} => fate'[p] = fate[p]]_pipeVars
  BY <1>1
<1> QED
  BY <1>2, PipeInitInv, ShapeStep, PlacedStep, PTL DEF PipeSpec, SettledOnce

=============================================================================
