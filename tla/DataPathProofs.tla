--------------------------- MODULE DataPathProofs ---------------------------
(***************************************************************************)
(* TLAPS proofs about three parts that carry a service's data: TcpProxy,   *)
(* for any ports, connections and number of attempts, UdpProxy, for any    *)
(* clients and any number of connections and datagrams, and the ring       *)
(* buffer of the CNI adapter, for bytes and slices of every length and     *)
(* every capacity.                                                         *)
(***************************************************************************)
EXTENDS TcpProxy, UdpProxy, RecycleByteBuffer, TLAPS

(* TCP                                                                     *)

(* No two accept loops are busy with one connection.                       *)
ServedOnce ==
    \A p, q \in Port : serving[p] = serving[q] /\ serving[p] # Nil => p = q

LoopInv == TcpTypeOK /\ ServedOnce /\ OneAtATime

(* The request that the policy took out of the connection is at hand in    *)
(* the attempt that took it, and before the first one nothing was taken.   *)
RequestAtHand ==
    \A c \in Conn : inbox[c] = "taken" /\ attempt[c] <= 1 =>
       /\ pc[c] \notin {"new", "lock", "pick"}
       /\ pc[c] \in {"dial", "write"} => req[c]

(* Until Dial has succeeded there is no connection to an endpoint.         *)
NoneBeforeDial ==
    \A c \in Conn : pc[c] \in {"new", "lock", "pick", "dial"} => outConn[c] = "none"

(* The attempts are counted from one.                                      *)
Counted ==
    \A c \in Conn : IF pc[c] = "new" THEN attempt[c] = 0 ELSE attempt[c] >= 1

RequestInv == Counted /\ RequestAtHand /\ RequestReturnedAtFirst

OutInv == NoneBeforeDial /\ OutConnsOwned

LEMMA LoopInvInit == TcpInit => LoopInv
<1> SUFFICES ASSUME TcpInit PROVE LoopInv
  OBVIOUS
<1>1. TcpTypeOK
  <2>1. 0 \in 0 .. MaxAttempts
    BY TcpAssumption DEF TcpAssumption
  <2>2. attempt \in [Conn -> 0 .. MaxAttempts]
    BY <2>1 DEF TcpInit
  <2> QED
    BY <2>2, Zenon DEF TcpInit, TcpTypeOK
<1>2. ServedOnce
  BY DEF TcpInit, ServedOnce
<1>3. OneAtATime
  BY TcpAssumption DEF TcpAssumption, TcpInit, OneAtATime
<1> QED
  BY <1>1, <1>2, <1>3 DEF LoopInv

(* portOf is the port of the one loop that serves the connection.          *)
LEMMA PortServes ==
    ASSUME LoopInv, NEW c \in Conn, pc[c] \in {"lock", "pick", "dial", "write"}
    PROVE  portOf(c) \in Port /\ \A p \in Port : serving[p] = c <=> p = portOf(c)
<1>1. \E p \in Port : serving[p] = c
  BY DEF LoopInv, OneAtATime
<1>2. portOf(c) \in Port /\ serving[portOf(c)] = c
  BY <1>1 DEF portOf
<1> QED
  BY <1>2, TcpAssumption DEF TcpAssumption, LoopInv, ServedOnce

(* A connection leaves TryConnectEndpoints without the lock.               *)
LEMMA LeaveKeeps ==
    ASSUME LoopInv, NEW c \in Conn, NEW to \in {"copy", "failed"},
           pc[c] \in {"lock", "dial", "write"},
           pc' = [pc EXCEPT ![c] = to], serving' = [serving EXCEPT ![portOf(c)] = Nil], lock' = lock
    PROVE  ServedOnce' /\ OneAtATime'
<1>1. portOf(c) \in Port /\ \A p \in Port : serving[p] = c <=> p = portOf(c)
  BY PortServes
<1>2. \A p \in Port : serving'[p] = IF p = portOf(c) THEN Nil ELSE serving[p]
  BY DEF LoopInv, TcpTypeOK
<1>3. \A d \in Conn : pc'[d] = IF d = c THEN to ELSE pc[d]
  BY DEF LoopInv, TcpTypeOK
<1>4. ServedOnce'
  BY <1>1, <1>2 DEF LoopInv, ServedOnce
<1>5. ASSUME NEW d \in Conn
      PROVE  pc'[d] \in {"lock", "pick", "dial", "write"} <=> (\E p \in Port : serving'[p] = d)
  <2>1. CASE d = c
    BY <1>1, <1>2, <1>3, <2>1, TcpAssumption DEF TcpAssumption
  <2>2. CASE d # c
    <3>1. \A p \in Port : serving'[p] = d <=> serving[p] = d
      BY <1>1, <1>2, <2>2, TcpAssumption DEF TcpAssumption
    <3> QED
      BY <1>3, <2>2, <3>1 DEF LoopInv, OneAtATime
  <2> QED
    BY <2>1, <2>2
<1>6. \A d \in Conn : pc'[d] = "pick" <=> lock' = d
  BY <1>3 DEF LoopInv, OneAtATime
<1> QED
  BY <1>4, <1>5, <1>6 DEF OneAtATime

(* A connection goes on inside TryConnectEndpoints, and holds the lock     *)
(* exactly while it picks.                                                 *)
LEMMA StayKeeps ==
    ASSUME LoopInv, NEW c \in Conn, NEW to \in {"lock", "pick", "dial", "write"},
           pc[c] \in {"lock", "pick", "dial", "write"}, pc' = [pc EXCEPT ![c] = to],
           serving' = serving,
           lock' = IF to = "pick" THEN c ELSE IF pc[c] = "pick" THEN Nil ELSE lock,
           to = "pick" => lock = Nil
    PROVE  ServedOnce' /\ OneAtATime'
<1>1. \A d \in Conn : pc'[d] = IF d = c THEN to ELSE pc[d]
  BY DEF LoopInv, TcpTypeOK
<1>2. \A d \in Conn : pc'[d] = "pick" <=> lock' = d
  BY <1>1, TcpAssumption DEF TcpAssumption, LoopInv, OneAtATime
<1> QED
  BY <1>1, <1>2 DEF LoopInv, ServedOnce, OneAtATime

LEMMA AcceptKeeps ==
    ASSUME LoopInv, NEW c \in Conn, NEW p \in Port, Accept(c, p)
    PROVE  ServedOnce' /\ OneAtATime'
<1>1. \A q \in Port : serving[q] # c
  BY DEF Accept, LoopInv, OneAtATime
<1>2. \A q \in Port : serving'[q] = IF q = p THEN c ELSE serving[q]
  BY DEF Accept, LoopInv, TcpTypeOK
<1>3. \A d \in Conn : pc'[d] = IF d = c THEN "lock" ELSE pc[d]
  BY DEF Accept, LoopInv, TcpTypeOK
<1>4. ServedOnce'
  BY <1>1, <1>2 DEF LoopInv, ServedOnce
<1>5. ASSUME NEW d \in Conn
      PROVE  pc'[d] \in {"lock", "pick", "dial", "write"} <=> (\E q \in Port : serving'[q] = d)
  <2>1. CASE d = c
    BY <1>2, <1>3, <2>1
  <2>2. CASE d # c
    <3>1. \A q \in Port : serving'[q] = d <=> serving[q] = d
      BY <1>2, <2>2, TcpAssumption DEF TcpAssumption, Accept
    <3> QED
      BY <1>3, <2>2, <3>1 DEF LoopInv, OneAtATime
  <2> QED
    BY <2>1, <2>2
<1>6. \A d \in Conn : pc'[d] = "pick" <=> lock' = d
  BY <1>3 DEF Accept, LoopInv, OneAtATime
<1> QED
  BY <1>4, <1>5, <1>6 DEF OneAtATime

LEMMA TypeKept == TcpTypeOK /\ [TcpNext]_proxyVars => TcpTypeOK'
<1> SUFFICES ASSUME TcpTypeOK, [TcpNext]_proxyVars PROVE TcpTypeOK'
  OBVIOUS
<1>1. CASE UNCHANGED proxyVars
  BY <1>1 DEF proxyVars, TcpTypeOK
<1>2. ASSUME NEW p \in Port, StopPort(p) PROVE TcpTypeOK'
  BY <1>2 DEF StopPort, TcpTypeOK
<1>3. CASE Exhausted
  BY <1>3 DEF Exhausted, TcpTypeOK
<1>4. ASSUME NEW c \in Conn, Run(c) PROVE TcpTypeOK'
  <2>1. CASE ClientSends(c)
    BY <2>1 DEF ClientSends, TcpTypeOK
  <2>2. CASE ClientCloses(c)
    BY <2>2 DEF ClientCloses, TcpTypeOK
  <2>3. ASSUME NEW p \in Port, Accept(c, p) PROVE TcpTypeOK'
    BY <2>3, TcpAssumption DEF TcpAssumption, Accept, TcpTypeOK
  <2>4. CASE LockLB(c)
    BY <2>4 DEF LockLB, TcpTypeOK
  <2>5. CASE NoEndpoint(c)
    BY <2>5, Zenon DEF NoEndpoint, Fail, TcpTypeOK
  <2>6. CASE PickWithoutRequest(c)
    BY <2>6, Zenon DEF PickWithoutRequest, Picked, TcpTypeOK
  <2>7. CASE PickByHeader(c)
    BY <2>7 DEF PickByHeader, Picked, TcpTypeOK
  <2>8. CASE PickAfterReadError(c)
    BY <2>8 DEF PickAfterReadError, Picked, TcpTypeOK
  <2>9. CASE DialOK(c)
    BY <2>9 DEF DialOK, TcpTypeOK
  <2>10. CASE DialFails(c)
    <3>1. CASE attempt[c] < MaxAttempts
      <4>1. attempt[c] + 1 \in 0 .. MaxAttempts
        BY <3>1, TcpAssumption DEF TcpAssumption, TcpTypeOK
      <4> QED
        BY <2>10, <3>1, <4>1 DEF DialFails, TcpTypeOK
    <3>2. CASE ~(attempt[c] < MaxAttempts)
      BY <2>10, <3>2 DEF DialFails, Fail, TcpTypeOK
    <3> QED
      BY <3>1, <3>2, Zenon
  <2>11. CASE Connected(c)
    BY <2>11, Zenon DEF Connected, TcpTypeOK
  <2>12. CASE WriteFails(c)
    BY <2>12, Zenon DEF WriteFails, Fail, TcpTypeOK
  <2>13. CASE CopyRequest(c)
    BY <2>13 DEF CopyRequest, TcpTypeOK
  <2>14. CASE CopyEnds(c)
    BY <2>14, Zenon DEF CopyEnds, TcpTypeOK
  <2> QED
    BY SMTT(20), <1>4, <2>1, <2>2, <2>3, <2>4, <2>5, <2>6, <2>7, <2>8, <2>9, <2>10, <2>11,
       <2>12, <2>13, <2>14 DEF Run, Serve
<1> QED
  BY <1>1, <1>2, <1>3, <1>4 DEF TcpNext

LEMMA LoopKept == LoopInv /\ [TcpNext]_proxyVars => LoopInv'
<1> SUFFICES ASSUME LoopInv, [TcpNext]_proxyVars PROVE ServedOnce' /\ OneAtATime'
  BY TypeKept DEF LoopInv
<1>1. CASE UNCHANGED <<serving, pc, lock>>
  <2>1. ServedOnce'
    BY <1>1 DEF LoopInv, ServedOnce
  <2>2. OneAtATime'
    BY <1>1, Zenon DEF LoopInv, OneAtATime
  <2> QED
    BY <2>1, <2>2
<1>2. ASSUME NEW c \in Conn, Run(c) PROVE ServedOnce' /\ OneAtATime'
  <2>1. ASSUME NEW p \in Port, Accept(c, p) PROVE ServedOnce' /\ OneAtATime'
    BY <2>1, AcceptKeeps
  <2>2. CASE LockLB(c)
    BY <2>2, StayKeeps, Zenon DEF LockLB
  <2>3. CASE NoEndpoint(c)
    BY <2>3, LeaveKeeps, Zenon DEF NoEndpoint, Fail
  <2>4. CASE PickWithoutRequest(c) \/ PickByHeader(c) \/ PickAfterReadError(c)
    BY <2>4, StayKeeps DEF PickWithoutRequest, PickByHeader, PickAfterReadError, Picked
  <2>5. CASE DialOK(c)
    BY <2>5, StayKeeps, Zenon DEF DialOK
  <2>6. CASE DialFails(c)
    <3>1. CASE attempt[c] < MaxAttempts
      BY <2>6, <3>1, StayKeeps DEF DialFails
    <3>2. CASE ~(attempt[c] < MaxAttempts)
      BY <2>6, <3>2, LeaveKeeps DEF DialFails, Fail
    <3> QED
      BY <3>1, <3>2
  <2>7. CASE Connected(c)
    BY <2>7, LeaveKeeps, Zenon DEF Connected
  <2>8. CASE WriteFails(c)
    BY <2>8, LeaveKeeps, Zenon DEF WriteFails, Fail
  <2>9. CASE CopyEnds(c)
    <3>1. \A d \in Conn : pc'[d] = IF d = c THEN "done" ELSE pc[d]
      BY <2>9, Zenon DEF CopyEnds, LoopInv, TcpTypeOK
    <3> QED
      BY <2>9, <3>1 DEF CopyEnds, LoopInv, ServedOnce, OneAtATime
  <2> QED
    BY <1>1, <1>2, <2>1, <2>2, <2>3, <2>4, <2>5, <2>6, <2>7, <2>8, <2>9, Zenon
    DEF Run, Serve, ClientSends, ClientCloses, CopyRequest
<1> QED
  BY <1>1, <1>2 DEF TcpNext, proxyVars, StopPort, Exhausted

(* One step per action that changes what the two invariants read.          *)
LEMMA RequestKept ==
    TcpTypeOK /\ RequestInv /\ OutInv /\ [TcpNext]_proxyVars => RequestInv' /\ OutInv'
<1> SUFFICES ASSUME TcpTypeOK, RequestInv, OutInv, [TcpNext]_proxyVars
             PROVE  RequestInv' /\ OutInv'
  BY Zenon
<1> USE DEF RequestInv, Counted, RequestAtHand, RequestReturnedAtFirst, OutInv,
         NoneBeforeDial, OutConnsOwned
<1>1. CASE UNCHANGED <<pc, attempt, inbox, req, outConn, forwarded>>
  BY <1>1, Zenon
<1>2. ASSUME NEW c \in Conn, Run(c) PROVE RequestInv' /\ OutInv'
  <2>1. CASE ClientSends(c)
    BY <2>1, SMTT(20) DEF ClientSends, TcpTypeOK
  <2>2. ASSUME NEW p \in Port, Accept(c, p) PROVE RequestInv' /\ OutInv'
    <3>1. inbox[c] # "taken"
      BY <2>2, SMTT(20) DEF Accept, TcpTypeOK
    <3> QED
      BY <2>2, <3>1, SMTT(20) DEF Accept, TcpTypeOK
  <2>3. CASE LockLB(c)
    BY <2>3, SMTT(20) DEF LockLB, TcpTypeOK
  <2>4. CASE NoEndpoint(c)
    BY <2>4 DEF NoEndpoint, Fail, TcpTypeOK
  <2>5. CASE PickWithoutRequest(c)
    BY <2>5 DEF PickWithoutRequest, Picked, TcpTypeOK
  <2>6. CASE PickByHeader(c)
    BY <2>6, SMTT(20) DEF PickByHeader, Picked, TcpTypeOK
  <2>7. CASE PickAfterReadError(c)
    BY <2>7, SMTT(20) DEF PickAfterReadError, Picked, TcpTypeOK
  <2>8. CASE DialOK(c)
    BY <2>8, SMTT(20) DEF DialOK, TcpTypeOK
  <2>9. CASE DialFails(c)
    <3>1. CASE attempt[c] < MaxAttempts
      <4>1. attempt'[c] > 1
        BY <2>9, <3>1, SMTT(20) DEF DialFails, TcpTypeOK
      <4> QED
        BY <2>9, <3>1, <4>1 DEF DialFails, TcpTypeOK
    <3>2. CASE ~(attempt[c] < MaxAttempts)
      BY <2>9, <3>2, SMTT(20) DEF DialFails, Fail, TcpTypeOK
    <3> QED
      BY <3>1, <3>2, Zenon
  <2>10. CASE Connected(c)
    BY <2>10 DEF Connected, TcpTypeOK
  <2>11. CASE WriteFails(c)
    BY <2>11, ZenonT(30) DEF WriteFails, Fail, TcpTypeOK
  <2>12. CASE CopyRequest(c)
    BY <2>12, Zenon DEF CopyRequest, TcpTypeOK
  <2>13. CASE CopyEnds(c)
    BY <2>13 DEF CopyEnds, TcpTypeOK
  <2> QED
    BY Zenon, <1>1, <1>2, <2>1, <2>2, <2>3, <2>4, <2>5, <2>6, <2>7, <2>8, <2>9, <2>10,
       <2>11, <2>12, <2>13 DEF Run, Serve, ClientCloses
<1> QED
  BY <1>1, <1>2, Zenon DEF TcpNext, proxyVars, StopPort, Exhausted

(* The accept loop of a port handles one connection at a time, and only    *)
(* the connection that is inside nextEndpointWithConn has lb.lock.         *)
THEOREM LoopsAlone == TcpSpec => []OneAtATime
<1>1. LoopInv => OneAtATime
  BY DEF LoopInv
<1> QED
  BY <1>1, LoopInvInit, LoopKept, PTL DEF TcpSpec

LEMMA RequestInvAlways == TcpSpec => [](TcpTypeOK /\ RequestInv /\ OutInv)
<1>1. TcpInit => TcpTypeOK /\ RequestInv /\ OutInv
  <2> SUFFICES ASSUME TcpInit PROVE TcpTypeOK /\ RequestInv /\ OutInv
    OBVIOUS
  <2>1. TcpTypeOK
    BY LoopInvInit DEF LoopInv
  <2>2. RequestInv
    BY DEF TcpInit, RequestInv, Counted, RequestAtHand, RequestReturnedAtFirst
  <2>3. OutInv
    BY DEF TcpInit, OutInv, NoneBeforeDial, OutConnsOwned
  <2> QED
    BY <2>1, <2>2, <2>3
<1> QED
  BY <1>1, TypeKept, RequestKept, PTL DEF TcpSpec

(* Every connection that Dial opened is being copied, closed, or the one   *)
(* TryConnectEndpoints forgets when it cannot write the request.           *)
THEOREM OutsOwned == TcpSpec => []OutConnsOwned
<1>1. OutInv => OutConnsOwned
  BY DEF OutInv
<1> QED
  BY <1>1, RequestInvAlways, PTL

(* A request that the hash policy read is written to the endpoint when the *)
(* first attempt of TryConnectEndpoints connects.                          *)
THEOREM RequestNotLost == TcpSpec => []RequestReturnedAtFirst
<1>1. RequestInv => RequestReturnedAtFirst
  BY Zenon DEF RequestInv
<1> QED
  BY <1>1, RequestInvAlways, PTL

-----------------------------------------------------------------------------
(* UDP                                                                     *)

(* What the cache needs of the types.                                      *)
CacheTypeOK ==
    /\ Clients \in [Client -> BackendConn \cup {None}]
    /\ loop \in [pc : {"read", "get", "dial", "write", "exited"},
                 client : Client \cup {None}, conn : BackendConn \cup {None}]
    /\ conn \in [BackendConn -> [state : {"unused", "open", "closed"},
                                 client : Client \cup {None}, far : BOOLEAN]]
    /\ reader \in [BackendConn -> {"none", "reading", "delete", "close"}]

(* Mu keeps the client without a connection while the loop opens one.      *)
LoopOK ==
    /\ loop.pc \in {"get", "dial"} => loop.client \in Client
    /\ loop.pc = "dial" => Clients[loop.client] = None

(* proxyClient closes its connection last.                                 *)
ReaderOK ==
    \A c \in BackendConn :
        reader[c] # "none" => conn[c].state = "open" /\ conn[c].client \in Client

CacheInv == CacheTypeOK /\ LoopOK /\ ReaderOK /\ CachedIffServed

-----------------------------------------------------------------------------
LEMMA CacheInvInit == UdpInit => CacheInv
BY UdpAssumption DEF UdpAssumption, UdpInit, Idle, CacheInv, CacheTypeOK, LoopOK, ReaderOK, CachedIffServed

(* Steps of the far end, of the endpoints and of the proxier.              *)
LEMMA CacheInvStutters ==
    ASSUME CacheInv, UNCHANGED <<Clients, loop, conn, reader>>
    PROVE  CacheInv'
BY DEF CacheInv, CacheTypeOK, LoopOK, ReaderOK, CachedIffServed

(* The loop goes on without touching the cache.                            *)
LEMMA LoopKeeps ==
    ASSUME CacheInv, UNCHANGED <<Clients, conn, reader>>,
           loop' \in [pc : {"read", "get", "dial", "write", "exited"},
                      client : Client \cup {None}, conn : BackendConn \cup {None}],
           LoopOK'
    PROVE  CacheInv'
BY DEF CacheInv, CacheTypeOK, ReaderOK, CachedIffServed

(* A connection that was never used goes to a client that has none.        *)
LEMMA ConnectKeeps ==
    ASSUME CacheInv, NEW c \in BackendConn, NEW isFar \in BOOLEAN, Connect(c, isFar)
    PROVE  CacheInv'
<1> DEFINE a == loop.client
<1>1. a \in Client /\ Clients[a] = None /\ loop.pc = "dial"
  BY DEF Connect, CacheInv, LoopOK
<1>2. reader[c] = "none"
  BY DEF Connect, CacheInv, ReaderOK
<1>3. \A b \in Client : Clients[b] # c
  BY DEF Connect, CacheInv, CachedIffServed
<1>4. CacheTypeOK'
  BY <1>1, Zenon DEF Connect, CacheInv, CacheTypeOK
<1>5. LoopOK'
  BY DEF Connect, CacheInv, CacheTypeOK, LoopOK
<1>6. ReaderOK'
  BY <1>1 DEF Connect, CacheInv, CacheTypeOK, ReaderOK
<1>7. CachedIffServed'
  <2> SUFFICES ASSUME NEW b \in Client, NEW d \in BackendConn
               PROVE  Clients'[b] = d <=> /\ conn'[d].state = "open" /\ conn'[d].client = b
                                          /\ reader'[d] \in {"reading", "delete"}
    BY DEF CachedIffServed
  <2>1. CASE d = c
    BY <1>1, <1>3, <2>1, Zenon DEF Connect, CacheInv, CacheTypeOK
  <2>2. CASE d # c
    <3>1. conn'[d] = conn[d] /\ reader'[d] = reader[d]
      BY <2>2, SMTT(20) DEF Connect, CacheInv, CacheTypeOK
    <3>2. CASE b = a
      <4>1. Clients'[b] = c
        BY <1>1, <3>2, Zenon DEF Connect, CacheInv, CacheTypeOK
      <4>2. Clients[b] # d
        BY <1>1, <3>2, UdpAssumption, Zenon DEF UdpAssumption
      <4> QED
        BY <2>2, <3>1, <4>1, <4>2 DEF CacheInv, CachedIffServed
    <3>3. CASE b # a
      BY <3>1, <3>3 DEF Connect, CacheInv, CacheTypeOK, CachedIffServed
    <3> QED
      BY <3>2, <3>3
  <2> QED
    BY <2>1, <2>2, Zenon
<1> QED
  BY <1>4, <1>5, <1>6, <1>7 DEF CacheInv

(* The entry proxyClient deletes is its own: by CachedIffServed the client *)
(* has no other.                                                           *)
LEMMA DeleteKeeps ==
    ASSUME CacheInv, NEW c \in BackendConn, DeleteClient(c)
    PROVE  CacheInv'
<1> DEFINE a == conn[c].client
<1>1. a \in Client /\ conn[c].state = "open" /\ Clients[a] = c
  BY DEF DeleteClient, CacheInv, ReaderOK, CachedIffServed
<1>2. CacheTypeOK'
  BY Zenon DEF DeleteClient, CacheInv, CacheTypeOK
<1>3. LoopOK' /\ ReaderOK'
  BY <1>1, Zenon DEF DeleteClient, MuFree, CacheInv, CacheTypeOK, LoopOK, ReaderOK
<1>4. CachedIffServed'
  <2> SUFFICES ASSUME NEW b \in Client, NEW d \in BackendConn
               PROVE  Clients'[b] = d <=> /\ conn'[d].state = "open" /\ conn'[d].client = b
                                          /\ reader'[d] \in {"reading", "delete"}
    BY Zenon DEF CachedIffServed
  <2>1. CASE b = a
    BY <1>1, <2>1, UdpAssumption DEF UdpAssumption, DeleteClient, CacheInv, CacheTypeOK, CachedIffServed
  <2>2. CASE b # a
    BY <1>1, <2>2 DEF DeleteClient, CacheInv, CacheTypeOK, CachedIffServed
  <2> QED
    BY <2>1, <2>2, Zenon
<1> QED
  BY <1>2, <1>3, <1>4, Zenon DEF CacheInv

LEMMA CacheInvNext == CacheInv /\ [UdpNext]_udpVars => CacheInv'
<1> SUFFICES ASSUME CacheInv, [UdpNext]_udpVars PROVE CacheInv'
  OBVIOUS
<1>1. CASE StopProxy
  BY <1>1, CacheInvStutters, Zenon DEF StopProxy
<1>2. ASSUME NEW a \in Client, ReadFrom(a) PROVE CacheInv'
  BY <1>2, LoopKeeps DEF ReadFrom, CacheInv, CacheTypeOK, LoopOK
<1>3. CASE LoopExits
  BY <1>3, LoopKeeps, Zenon DEF LoopExits, CacheInv, CacheTypeOK, LoopOK
<1>4. CASE Lookup
  BY <1>4, LoopKeeps, Zenon DEF Lookup, CacheInv, CacheTypeOK, LoopOK
<1>5. ASSUME NEW c \in BackendConn, NEW isFar \in BOOLEAN, Connect(c, isFar) PROVE CacheInv'
  BY <1>5, ConnectKeeps, ZenonT(30)
<1>6. CASE ConnectFails \/ WriteOK \/ WriteErr
  BY <1>6, LoopKeeps, SMTT(20) DEF ConnectFails, WriteOK, WriteErr, Idle, LoopOK
<1>7. ASSUME NEW c \in BackendConn, ReturnAnswer(c) \/ ReadFails(c) PROVE CacheInv'
  BY <1>7 DEF ReturnAnswer, ReadFails, CacheInv, CacheTypeOK, LoopOK, ReaderOK, CachedIffServed
<1>8. ASSUME NEW c \in BackendConn, DeleteClient(c) PROVE CacheInv'
  BY <1>8, DeleteKeeps, Zenon
<1>9. ASSUME NEW c \in BackendConn, CloseConn(c) PROVE CacheInv'
  BY <1>9, SMTT(20) DEF CloseConn, CacheInv, CacheTypeOK, LoopOK, ReaderOK, CachedIffServed
<1>10. ASSUME NEW c \in BackendConn, LocalAnswer(c) \/ ProxyConnUDP(c) PROVE CacheInv'
  BY <1>10, CacheInvStutters
     DEF LocalAnswer, ProxyConnUDP, ForwardDatagram, StreamEnds, StreamReset, CopyAnswer, CopyDatagramEnds
<1>11. CASE UNCHANGED udpVars
  BY <1>11, CacheInvStutters DEF udpVars
<1> QED
  BY <1>1, <1>2, <1>3, <1>4, <1>5, <1>6, <1>7, <1>8, <1>9, <1>10, <1>11, ZenonT(30) DEF UdpNext, ProxyLoop, proxyClient

(* getBackendConn and proxyClient: a client's entry in the cache is its    *)
(* one connection that is open and served, whatever timeouts, answers and  *)
(* datagrams race, and however often the client comes back.                *)
THEOREM CacheExact == UdpSpec => []CachedIffServed
<1>1. UdpSpec => []CacheInv
  BY CacheInvInit, CacheInvNext, PTL DEF UdpSpec
<1>2. CacheInv => CachedIffServed
  BY Zenon DEF CacheInv
<1> QED
  BY <1>1, <1>2, PTL

-----------------------------------------------------------------------------
(* ProxyConnUDP runs only for a connection that was opened, and has read   *)
(* nothing before.                                                         *)
FarInv ==
    /\ conn \in [BackendConn -> [state : {"unused", "open", "closed"},
                                 client : Client \cup {None}, far : BOOLEAN]]
    /\ far \in [BackendConn -> [loop : {"none", "run", "done"}, udp : {"none", "open", "closed"},
                                readers : Nat, got : Nat]]
    /\ \A c \in BackendConn :
          /\ conn[c].state = "unused" => far[c].got = 0
          /\ far[c].loop = "run" => conn[c].state # "unused"
    /\ FarSocketClosed

LEMMA FarInvNext == CacheInv /\ FarInv /\ [UdpNext]_udpVars => FarInv'
<1> SUFFICES ASSUME CacheInv, FarInv, [UdpNext]_udpVars PROVE FarInv'
  OBVIOUS
<1>1. ASSUME UNCHANGED <<conn, far>> PROVE FarInv'
  BY <1>1, Zenon DEF FarInv, FarSocketClosed
<1>2. ASSUME NEW c \in BackendConn, NEW isFar \in BOOLEAN, Connect(c, isFar) PROVE FarInv'
  <2>1. far' \in [BackendConn -> [loop : {"none", "run", "done"}, udp : {"none", "open", "closed"},
                                  readers : Nat, got : Nat]]
    <3>1. CASE isFar
      <4>1. far' = [far EXCEPT ![c] = [far[c] EXCEPT !.loop = "run", !.udp = "open"]]
        BY <1>2, <3>1, Zenon DEF Connect, FarInv
      <4>2. [far[c] EXCEPT !.loop = "run", !.udp = "open"] \in
               [loop : {"none", "run", "done"}, udp : {"none", "open", "closed"}, readers : Nat, got : Nat]
        BY Zenon DEF FarInv
      <4> QED
        BY <4>1, <4>2 DEF FarInv
    <3>2. CASE ~isFar
      BY <1>2, <3>2 DEF Connect, FarInv
    <3> QED
      BY <3>1, <3>2
  <2>2. conn' \in [BackendConn -> [state : {"unused", "open", "closed"},
                                   client : Client \cup {None}, far : BOOLEAN]]
    BY <1>2 DEF Connect, FarInv, CacheInv, CacheTypeOK
  <2>3. \A d \in BackendConn \ {c} : conn'[d] = conn[d] /\ far'[d] = far[d]
    BY <1>2 DEF Connect, FarInv
  <2>4. conn'[c].state = "open" /\ far'[c].got = 0
    BY <1>2, ZenonT(30) DEF Connect, FarInv
  <2>5. \A d \in BackendConn :
           /\ conn'[d].state = "unused" => far'[d].got = 0
           /\ far'[d].loop = "run" => conn'[d].state # "unused"
    BY <2>3, <2>4, Zenon DEF FarInv
  <2>6. FarSocketClosed'
    BY <2>3, <2>4 DEF FarInv, FarSocketClosed
  <2> QED
    BY <2>1, <2>2, <2>5, <2>6 DEF FarInv
<1>3. ASSUME NEW c \in BackendConn, CloseConn(c) PROVE FarInv'
  <2>1. /\ conn[c].state = "open" /\ conn'[c].state = "closed" /\ far' = far
        /\ \A d \in BackendConn : d # c => conn'[d] = conn[d]
    BY <1>3 DEF CloseConn, FarInv, CacheInv, ReaderOK
  <2>2. conn' \in [BackendConn -> [state : {"unused", "open", "closed"},
                                   client : Client \cup {None}, far : BOOLEAN]]
    BY <1>3 DEF CloseConn, FarInv
  <2>3. \A d \in BackendConn :
           /\ conn'[d].state = "unused" => far'[d].got = 0
           /\ far'[d].loop = "run" => conn'[d].state # "unused"
    BY <2>1, Zenon DEF FarInv
  <2> QED
    BY <2>1, <2>2, <2>3 DEF FarInv, FarSocketClosed
<1>4. ASSUME NEW c \in BackendConn, ForwardDatagram(c) PROVE FarInv'
  BY <1>4 DEF ForwardDatagram, FarInv, FarSocketClosed
<1>5. ASSUME NEW c \in BackendConn, StreamEnds(c) \/ StreamReset(c) PROVE FarInv'
  <2>1. far' = [far EXCEPT ![c].loop = "done"] /\ conn' = conn
    BY <1>5 DEF StreamEnds, StreamReset
  <2> QED
    BY <2>1, SMTT(20) DEF FarInv, FarSocketClosed
<1>6. ASSUME NEW c \in BackendConn,
             ReturnAnswer(c) \/ ReadFails(c) \/ DeleteClient(c) \/ LocalAnswer(c) \/ CopyAnswer(c)
      PROVE  UNCHANGED <<conn, far>>
  BY <1>6 DEF ReturnAnswer, ReadFails, DeleteClient, LocalAnswer, CopyAnswer
<1>7. ASSUME NEW a \in Client, ReadFrom(a) PROVE UNCHANGED <<conn, far>>
  BY <1>7 DEF ReadFrom
<1>8. ASSUME StopProxy \/ LoopExits \/ Lookup \/ ConnectFails \/ WriteOK \/ WriteErr \/ UNCHANGED udpVars
      PROVE  UNCHANGED <<conn, far>>
  BY <1>8, Zenon DEF StopProxy, LoopExits, Lookup, ConnectFails, WriteOK, WriteErr, udpVars
<1>9. ASSUME NEW c \in BackendConn, CopyDatagramEnds(c) PROVE FarInv'
  <2>1. far[c].readers - 1 \in Nat
    BY <1>9 DEF CopyDatagramEnds, FarInv
  <2>2. [far[c] EXCEPT !.readers = @ - 1, !.udp = "closed"] \in
           [loop : {"none", "run", "done"}, udp : {"none", "open", "closed"}, readers : Nat, got : Nat]
    BY <2>1, Zenon DEF FarInv
  <2>3. far' = [far EXCEPT ![c] = [far[c] EXCEPT !.readers = @ - 1, !.udp = "closed"]]
    BY <1>9, Zenon DEF CopyDatagramEnds, FarInv
  <2> QED
    BY <1>9, <2>2, <2>3 DEF CopyDatagramEnds, FarInv, FarSocketClosed
<1> QED
  BY <1>1, <1>2, <1>3, <1>4, <1>5, <1>6, <1>7, <1>8, <1>9 DEF UdpNext, ProxyLoop, proxyClient, ProxyConnUDP

(* ProxyConnUDP never closes udpConn itself, and still no socket is left   *)
(* open: when the last of its copyDatagram goroutines has ended it is      *)
(* closed, for any number of datagrams.                                    *)
THEOREM FarClosed == UdpSpec => []FarSocketClosed
<1>1. UdpInit => FarInv
  BY DEF UdpInit, FarInv, FarSocketClosed
<1>2. UdpSpec => []FarInv
  BY <1>1, CacheInvInit, CacheInvNext, FarInvNext, PTL DEF UdpSpec
<1>3. FarInv => FarSocketClosed
  BY DEF FarInv
<1> QED
  BY <1>2, <1>3, PTL

-----------------------------------------------------------------------------
(* The ring buffer: its indexes stay consistent, and it is a byte queue.   *)

BInv == BufferTypeOK /\ IndexesAgree

-----------------------------------------------------------------------------
(* A slice has a length of at most MaxLen and bytes as elements.           *)
LEMMA ChunkFacts ==
    ASSUME NEW src \in Chunk
    PROVE  /\ src \in Seq(Byte)
           /\ Len(src) \in 0 .. MaxLen
           /\ \A i \in 1 .. Len(src) : src[i] \in Byte
<1>1. PICK n \in 0 .. MaxLen : src \in [1 .. n -> Byte]
  BY DEF Chunk
<1>2. n \in Nat
  BY <1>1, BufferAssumption
<1> QED
  BY <1>1, <1>2

(* Write stores no more than there is room for.                            *)
LEMMA WritableFacts ==
    ASSUME BInv, NEW src \in Chunk
    PROVE  /\ writableLen(src) \in 0 .. (Capacity - readableBytes)
           /\ writableLen(src) <= Len(src)
BY ChunkFacts, BufferAssumption DEF BInv, BufferTypeOK, writableLen

(* The constructor establishes the invariant.                              *)
LEMMA BufferInitInv == BufferInit => BInv
BY BufferAssumption DEF BufferInit, BInv, BufferTypeOK, IndexesAgree, Index, Place

(* Write keeps the invariant, on either side of the wrap-around.           *)
LEMMA WriteInv ==
    ASSUME BInv, NEW src \in Chunk, Write(src)
    PROVE  BInv'
<1> DEFINE len == writableLen(src)
           tailLen == Capacity - writeIndex
<1>1. /\ len \in 0 .. (Capacity - readableBytes)
      /\ len <= Len(src)
  BY WritableFacts
<1>2. /\ Len(src) \in Nat
      /\ \A i \in 1 .. Len(src) : src[i] \in Byte
  BY ChunkFacts, BufferAssumption, SMTT(20)
<1> HIDE DEF len
<1>3. CASE tailLen <= len
  <2>1. /\ mem' = [i \in Index |->
                     IF i >= writeIndex THEN src[i - writeIndex + 1]
                     ELSE IF i < len - tailLen THEN src[tailLen + i + 1]
                     ELSE mem[i]]
        /\ writeIndex' = len - tailLen
        /\ readableBytes' = readableBytes + len
        /\ out' = <<>>
        /\ UNCHANGED <<readIndex, markVars>>
        /\ ~marked
    BY <1>3, Zenon DEF Write, len
  <2>2. mem' \in [Index -> Byte]
    BY <2>1, <1>1, <1>2, <1>3, BufferAssumption, SMTT(20) DEF BInv, BufferTypeOK, Index
  <2> QED
    BY <2>1, <2>2, <1>1, <1>3, BufferAssumption, SMTT(20)
       DEF BInv, BufferTypeOK, IndexesAgree, Index, Place, markVars
<1>4. CASE ~ (tailLen <= len)
  <2>1. /\ mem' = [i \in Index |->
                     IF writeIndex <= i /\ i < writeIndex + len
                     THEN src[i - writeIndex + 1] ELSE mem[i]]
        /\ writeIndex' = writeIndex + len
        /\ readableBytes' = readableBytes + len
        /\ out' = <<>>
        /\ UNCHANGED <<readIndex, markVars>>
        /\ ~marked
    BY <1>4, Zenon DEF Write, len
  <2>2. mem' \in [Index -> Byte]
    BY <2>1, <1>1, <1>2, <1>4, BufferAssumption DEF BInv, BufferTypeOK, Index
  <2> QED
    BY <2>1, <2>2, <1>1, <1>4, BufferAssumption
       DEF BInv, BufferTypeOK, IndexesAgree, Index, Place, markVars
<1> QED
  BY <1>3, <1>4

(* What Read(k) does, as one fact about Place.                             *)
LEMMA ReadFacts ==
    ASSUME BInv, NEW k \in 0 .. MaxLen, Read(k)
    PROVE  /\ readLen(k) \in 0 .. readableBytes
           /\ out' = [i \in 1 .. readLen(k) |-> mem[Place(readIndex, i - 1)]]
           /\ readIndex' = Place(readIndex, readLen(k))
           /\ readableBytes' = readableBytes - readLen(k)
           /\ UNCHANGED <<mem, writeIndex, markVars>>
<1> DEFINE len == readLen(k)
           tailLen == Capacity - readIndex
<1>1. len \in 0 .. readableBytes
  BY BufferAssumption DEF BInv, BufferTypeOK, readLen
<1> HIDE DEF len
<1>2. CASE tailLen <= len
  <2>1. /\ out' = [i \in 1 .. len |->
                     IF i <= tailLen THEN mem[readIndex + i - 1]
                     ELSE mem[i - tailLen - 1]]
        /\ readIndex' = len - tailLen
        /\ readableBytes' = readableBytes - len
        /\ UNCHANGED <<mem, writeIndex, markVars>>
    BY <1>2, Zenon DEF Read, len
  <2>2. \A i \in 1 .. len : out'[i] = mem[Place(readIndex, i - 1)]
    BY <2>1, <1>1, BufferAssumption DEF BInv, BufferTypeOK, Index, Place
  <2>3. readIndex' = Place(readIndex, len)
    BY <2>1, <1>1, <1>2, BufferAssumption DEF BInv, BufferTypeOK, Index, Place
  <2> QED
    BY <2>1, <2>2, <2>3, <1>1, Zenon DEF len
<1>3. CASE ~ (tailLen <= len)
  <2>1. /\ out' = [i \in 1 .. len |-> mem[readIndex + i - 1]]
        /\ readIndex' = readIndex + len
        /\ readableBytes' = readableBytes - len
        /\ UNCHANGED <<mem, writeIndex, markVars>>
    BY <1>3, Zenon DEF Read, len
  <2>2. \A i \in 1 .. len : out'[i] = mem[Place(readIndex, i - 1)]
    BY <2>1, <1>1, <1>3, BufferAssumption DEF BInv, BufferTypeOK, Index, Place
  <2>3. readIndex' = Place(readIndex, len)
    BY <2>1, <1>1, <1>3, BufferAssumption, SMTT(20) DEF BInv, BufferTypeOK, Index, Place
  <2> QED
    BY <2>1, <2>2, <2>3, <1>1, Zenon DEF len
<1> QED
  BY <1>2, <1>3

(* The bytes found from a place on, in any memory, are a sequence.         *)
LEMMA ContentsFacts ==
    ASSUME NEW m \in [Index -> Byte], NEW i \in Index, NEW n \in 0 .. Capacity
    PROVE  LET c == [j \in 1 .. n |-> m[Place(i, j - 1)]]
           IN  /\ c \in Seq(Byte)
               /\ Len(c) = n
               /\ \A j \in 1 .. n : c[j] = m[Place(i, j - 1)] /\ c[j] \in Byte
<1>1. \A j \in 1 .. n : Place(i, j - 1) \in Index
  BY BufferAssumption DEF Place, Index
<1>2. [j \in 1 .. n |-> m[Place(i, j - 1)]] \in [1 .. n -> Byte] /\ n \in Nat
  BY <1>1, BufferAssumption, SMTT(20)
<1> QED
  BY <1>2

(* Read keeps the invariant.                                               *)
LEMMA ReadInv ==
    ASSUME BInv, NEW k \in 0 .. MaxLen, Read(k)
    PROVE  BInv'
<1> DEFINE len == readLen(k)
<1>1. /\ len \in 0 .. readableBytes
      /\ out' = Contents(readIndex, len)
      /\ readIndex' = Place(readIndex, len)
      /\ readableBytes' = readableBytes - len
      /\ UNCHANGED <<mem, writeIndex, markVars>>
  BY ReadFacts, Zenon DEF Contents
<1> HIDE DEF len
<1>2. mem \in [Index -> Byte] /\ readIndex \in Index /\ len \in 0 .. Capacity
  BY <1>1, BufferAssumption DEF BInv, BufferTypeOK
<1>3. out' \in Seq(Byte)
  BY <1>1, <1>2, ContentsFacts DEF Contents
<1> QED
  BY <1>1, <1>3, BufferAssumption
     DEF BInv, BufferTypeOK, IndexesAgree, Index, Place, markVars

(* Every operation keeps the invariant.                                    *)
LEMMA BufferNextInv == BInv /\ [BufferNext]_bufferVars => BInv'
<1> SUFFICES ASSUME BInv, [BufferNext]_bufferVars PROVE BInv'
  OBVIOUS
<1>1. ASSUME NEW src \in Chunk, Write(src) PROVE BInv'
  BY <1>1, WriteInv
<1>2. ASSUME NEW k \in 0 .. MaxLen, Read(k) PROVE BInv'
  BY <1>2, ReadInv, Zenon
<1>3. CASE Mark
  BY <1>3, BufferAssumption DEF Mark, BInv, BufferTypeOK, IndexesAgree, Index, Place
<1>4. CASE Recover
  <2>1. BufferTypeOK'
    <3>1. out' = <<>> /\ marked' = FALSE
      BY <1>4 DEF Recover
    <3>2. out' \in Seq(Byte)
      BY <3>1
    <3>3. marked' \in BOOLEAN
      BY <3>1, Zenon
    <3> QED
      BY <1>4, <3>2, <3>3, Zenon DEF Recover, BInv, BufferTypeOK
  <2>2. IndexesAgree'
    BY <1>4, Zenon DEF Recover, BInv, IndexesAgree, Place
  <2> QED
    BY <2>1, <2>2, Zenon DEF BInv
<1>5. CASE Clean
  BY <1>5, BufferAssumption, SMTT(20)
     DEF Clean, BInv, BufferTypeOK, IndexesAgree, Index, Place, markVars
<1>6. CASE UNCHANGED bufferVars
  BY <1>6 DEF bufferVars, markVars, BInv, BufferTypeOK, IndexesAgree, Place
<1> QED
  BY <1>1, <1>2, <1>3, <1>4, <1>5, <1>6 DEF BufferNext

(* Type correctness: no index ever leaves the memory of the buffer, so     *)
(* neither copy nor a slice expression of Write and Read can fail.         *)
THEOREM BufferTypeCorrect == BufferSpec => []BufferTypeOK
<1>1. BInv => BufferTypeOK
  BY DEF BInv
<1> QED
  BY <1>1, BufferInitInv, BufferNextInv, PTL DEF BufferSpec

(* The indexes of Write and Read always agree with readableBytes.          *)
THEOREM BufferIndexesAgree == BufferSpec => []IndexesAgree
<1>1. BInv => IndexesAgree
  BY DEF BInv
<1> QED
  BY <1>1, BufferInitInv, BufferNextInv, PTL DEF BufferSpec

-----------------------------------------------------------------------------
(* The implementation of ByteQueue, operation by operation.                *)

(* Two slices with the same elements are the same.                         *)
LEMMA SameElements ==
    ASSUME NEW S, NEW s \in Seq(S), NEW t \in Seq(S), Len(s) = Len(t),
           \A i \in 1 .. Len(s) : s[i] = t[i]
    PROVE  s = t
OBVIOUS

(* What append makes of two slices.                                        *)
LEMMA JoinedFacts ==
    ASSUME NEW S, NEW s \in Seq(S), NEW t \in Seq(S)
    PROVE  /\ s \o t \in Seq(S)
           /\ Len(s \o t) = Len(s) + Len(t)
           /\ \A i \in 1 .. Len(s) + Len(t) :
                 (s \o t)[i] = IF i <= Len(s) THEN s[i] ELSE t[i - Len(s)]
OBVIOUS

(* A sequence cut in two.                                                  *)
LEMMA SplitSeq ==
    ASSUME NEW S, NEW q \in Seq(S), NEW m \in 0 .. Len(q)
    PROVE  /\ SubSeq(q, 1, m) \in Seq(S) /\ Len(SubSeq(q, 1, m)) = m
           /\ \A i \in 1 .. m : SubSeq(q, 1, m)[i] = q[i]
           /\ SubSeq(q, m + 1, Len(q)) \in Seq(S)
           /\ Len(SubSeq(q, m + 1, Len(q))) = Len(q) - m
           /\ \A i \in 1 .. Len(q) - m : SubSeq(q, m + 1, Len(q))[i] = q[m + i]
  OBVIOUS

(* Write appends to the readable bytes the part of src there is room for.  *)
LEMMA WriteAppends ==
    ASSUME BInv, BInv', NEW src \in Chunk, Write(src)
    PROVE  Contents(readIndex, readableBytes)'
             = Contents(readIndex, readableBytes) \o SubSeq(src, 1, writableLen(src))
<1> DEFINE len == writableLen(src)
           old == Contents(readIndex, readableBytes)
           new == [j \in 1 .. readableBytes' |-> mem'[Place(readIndex', j - 1)]]
           sub == SubSeq(src, 1, len)
<1>1. /\ len \in 0 .. (Capacity - readableBytes)
      /\ len <= Len(src)
  BY WritableFacts
<1>2. /\ Len(src) \in Nat
      /\ \A i \in 1 .. Len(src) : src[i] \in Byte
  BY ChunkFacts, BufferAssumption
<1> HIDE DEF len
<1>3. /\ mem \in [Index -> Byte] /\ readIndex \in Index
      /\ readableBytes \in 0 .. Capacity /\ writeIndex \in Index
      /\ mem' \in [Index -> Byte] /\ readIndex' \in Index
      /\ readableBytes' \in 0 .. Capacity
      /\ writeIndex = Place(readIndex, readableBytes)
  BY Zenon DEF BInv, BufferTypeOK, IndexesAgree
<1>4. /\ old \in Seq(Byte) /\ Len(old) = readableBytes
      /\ \A j \in 1 .. readableBytes : old[j] = mem[Place(readIndex, j - 1)]
  BY <1>3, ContentsFacts DEF Contents
<1>5. /\ new \in Seq(Byte) /\ Len(new) = readableBytes'
      /\ \A j \in 1 .. readableBytes' : new[j] = mem'[Place(readIndex', j - 1)]
  <2>1. \A m \in [Index -> Byte], i \in Index, n \in 0 .. Capacity :
          LET c == [j \in 1 .. n |-> m[Place(i, j - 1)]]
          IN  c \in Seq(Byte) /\ Len(c) = n
    BY ContentsFacts
  <2> QED
    BY <2>1, <1>3, ZenonT(30)
<1>6. /\ sub \in Seq(Byte) /\ Len(sub) = len
      /\ \A j \in 1 .. len : sub[j] = src[j]
  <2>1. src \in Seq(Byte) /\ len \in 0 .. Len(src)
    BY <1>1, <1>2, ChunkFacts
  <2> QED
    BY <2>1, SplitSeq, ZenonT(30)
<1>7. /\ readIndex' = readIndex
      /\ readableBytes' = readableBytes + len
  BY Zenon DEF Write, len
<1> HIDE DEF old, new, sub
<1>8. ASSUME NEW j \in 1 .. readableBytes
      PROVE  new[j] = old[j]
  <2> DEFINE p == Place(readIndex, j - 1)
  <2>1. /\ p \in Index
        /\ IF Capacity - writeIndex <= len
           THEN p < writeIndex /\ ~ (p < len - (Capacity - writeIndex))
           ELSE ~ (writeIndex <= p /\ p < writeIndex + len)
    BY <1>1, <1>3, BufferAssumption, SMTT(20) DEF Index, Place
  <2> HIDE DEF p
  <2>2. mem'[p] = mem[p]
    BY <2>1, <1>1, <1>3, BufferAssumption, SMTT(20) DEF Write, len, Index
  <2>3. j \in 1 .. readableBytes'
    BY <1>1, <1>3, <1>7, BufferAssumption, SMTT(20)
  <2> QED
    BY <2>2, <2>3, <1>4, <1>5, <1>7, ZenonT(30) DEF p
<1>9. ASSUME NEW j \in 1 .. len
      PROVE  new[readableBytes + j] = src[j]
  <2> DEFINE p == Place(readIndex, (readableBytes + j) - 1)
  <2>1. /\ p \in Index
        /\ IF Capacity - writeIndex <= len
           THEN IF p >= writeIndex THEN p - writeIndex + 1 = j
                ELSE /\ p < len - (Capacity - writeIndex)
                     /\ Capacity - writeIndex + p + 1 = j
           ELSE writeIndex <= p /\ p < writeIndex + len /\ p - writeIndex + 1 = j
    BY <1>1, <1>3, BufferAssumption DEF Index, Place
  <2> HIDE DEF p
  <2>2. mem'[p] = src[j]
    BY <2>1, <1>1, <1>3, BufferAssumption, Zenon DEF Write, len, Index
  <2>3. readableBytes + j \in 1 .. readableBytes'
    BY <1>1, <1>3, <1>7, BufferAssumption
  <2>4. new[readableBytes + j] = mem'[Place(readIndex, (readableBytes + j) - 1)]
    BY <2>3, <1>5, <1>7, Zenon
  <2> QED
    BY <2>2, <2>4, Zenon DEF p
<1>10. /\ old \o sub \in Seq(Byte)
       /\ Len(old \o sub) = readableBytes + len
       /\ \A i \in 1 .. readableBytes + len :
             (old \o sub)[i] = IF i <= readableBytes THEN old[i] ELSE sub[i - readableBytes]
  BY <1>4, <1>6, JoinedFacts, ZenonT(30)
<1>11. \A i \in 1 .. Len(new) : new[i] = (old \o sub)[i]
  <2> SUFFICES ASSUME NEW i \in 1 .. readableBytes + len
               PROVE  new[i] = (old \o sub)[i]
    BY <1>5, <1>7, Zenon
  <2>1. CASE i <= readableBytes
    BY <2>1, <1>8, <1>10, <1>3
  <2>2. CASE ~ (i <= readableBytes)
    <3>1. i - readableBytes \in 1 .. len /\ readableBytes + (i - readableBytes) = i
      BY <2>2, <1>1, <1>3, BufferAssumption
    <3>2. new[readableBytes + (i - readableBytes)] = src[i - readableBytes]
      BY <3>1, <1>9
    <3> QED
      BY <3>1, <3>2, <2>2, <1>6, <1>10, Zenon
  <2> QED
    BY <2>1, <2>2, Zenon
<1>12. new = old \o sub
  <2>1. Len(new) = Len(old \o sub)
    BY <1>5, <1>7, <1>10
  <2> QED
    BY <2>1, <1>5, <1>10, <1>11, SameElements, Zenon
<1> QED
  BY <1>12, Zenon DEF Contents, new, old, sub, len

(* Read returns the oldest bytes and leaves the others.                    *)
LEMMA ReadTakes ==
    ASSUME BInv, BInv', NEW k \in 0 .. MaxLen, Read(k)
    PROVE  LET queue == Contents(readIndex, readableBytes)
           IN  /\ out' = SubSeq(queue, 1, readLen(k))
               /\ Contents(readIndex, readableBytes)'
                    = SubSeq(queue, readLen(k) + 1, Len(queue))
<1> DEFINE len == readLen(k)
           queue == Contents(readIndex, readableBytes)
           first == SubSeq(queue, 1, len)
           rest == SubSeq(queue, len + 1, Len(queue))
           new == [j \in 1 .. readableBytes' |-> mem'[Place(readIndex', j - 1)]]
<1>1. /\ len \in 0 .. readableBytes
      /\ out' = [i \in 1 .. len |-> mem[Place(readIndex, i - 1)]]
      /\ readIndex' = Place(readIndex, len)
      /\ readableBytes' = readableBytes - len
      /\ mem' = mem
  BY ReadFacts, Zenon
<1> HIDE DEF len
<1>2. /\ mem \in [Index -> Byte] /\ readIndex \in Index
      /\ readableBytes \in 0 .. Capacity /\ len \in 0 .. Capacity
      /\ mem' \in [Index -> Byte] /\ readIndex' \in Index
      /\ readableBytes' \in 0 .. Capacity
  BY <1>1, BufferAssumption DEF BInv, BufferTypeOK
<1>3. \A m \in [Index -> Byte], i \in Index, n \in 0 .. Capacity :
        LET c == [j \in 1 .. n |-> m[Place(i, j - 1)]]
        IN  c \in Seq(Byte) /\ Len(c) = n
  BY ContentsFacts, ZenonT(30)
<1>4. /\ queue \in Seq(Byte) /\ Len(queue) = readableBytes
      /\ \A j \in 1 .. readableBytes : queue[j] = mem[Place(readIndex, j - 1)]
  BY <1>2, <1>3, ZenonT(30) DEF Contents
<1>5. /\ new \in Seq(Byte) /\ Len(new) = readableBytes'
      /\ \A j \in 1 .. readableBytes' : new[j] = mem'[Place(readIndex', j - 1)]
  BY <1>2, <1>3
<1>6. /\ out' \in Seq(Byte) /\ Len(out') = len
      /\ \A j \in 1 .. len : out'[j] = mem[Place(readIndex, j - 1)]
  BY <1>1, <1>2, <1>3
<1> HIDE DEF queue, new
<1>7. \A j \in 1 .. readableBytes : queue[j] \in Byte
  BY <1>4
<1>8. /\ first \in Seq(Byte) /\ Len(first) = len
      /\ \A j \in 1 .. len : first[j] = queue[j]
  BY <1>1, <1>2, <1>7, BufferAssumption, SMTT(20)
<1>9. /\ rest \in Seq(Byte) /\ Len(rest) = readableBytes - len
      /\ \A j \in 1 .. readableBytes - len : rest[j] = queue[len + j]
  BY <1>1, <1>2, <1>4, <1>7, BufferAssumption, SMTT(20)
<1> HIDE DEF first, rest
<1>10. out' = first
  <2>1. len \in 0 .. readableBytes
    BY <1>1, <1>2, BufferAssumption, Zenon
  <2>2. \A j \in 1 .. len : queue[j] = mem[Place(readIndex, j - 1)]
    BY <1>2, <1>4, <2>1, SMTT(20)
  <2>3. \A j \in 1 .. len : out'[j] = first[j]
    BY <1>6, <1>8, <2>2, Zenon
  <2> QED
    BY <2>3, <1>6, <1>8
<1>11. new = rest
  <2>1. \A j \in 1 .. Len(new) : new[j] = rest[j]
    <3> SUFFICES ASSUME NEW j \in 1 .. readableBytes - len PROVE new[j] = rest[j]
      BY <1>1, <1>5, ZenonT(30)
    <3>1. Place(Place(readIndex, len), j - 1) = Place(readIndex, (len + j) - 1)
      BY <1>1, <1>2, BufferAssumption DEF Place, Index
    <3>2. len + j \in 1 .. readableBytes /\ j \in 1 .. readableBytes'
      BY <1>1, <1>2, BufferAssumption, SMTT(20)
    <3>3. queue[len + j] = mem[Place(readIndex, (len + j) - 1)]
      BY <3>2, <1>4, Zenon
    <3>4. new[j] = mem[Place(Place(readIndex, len), j - 1)]
      BY <3>2, <1>5, <1>1, Zenon
    <3> QED
      BY <3>1, <3>3, <3>4, <1>9, Zenon
  <2> QED
    BY <2>1, <1>1, <1>5, <1>9
<1> QED
  BY <1>10, <1>11, Zenon DEF Contents, new, queue, first, rest, len

(* Every operation of the buffer is the operation of the queue.            *)
LEMMA QueueStep ==
    BInv /\ BInv' /\ [BufferNext]_bufferVars => [Q!QueueNext]_(Q!queueVars)
<1> SUFFICES ASSUME BInv, BInv', [BufferNext]_bufferVars
             PROVE  [Q!QueueNext]_(Q!queueVars)
  OBVIOUS
<1> DEFINE queue == Contents(readIndex, readableBytes)
           saved == IF marked THEN Contents(markReadIndex, markReadableBytes) ELSE NoMark
<1>t. /\ mem \in [Index -> Byte] /\ readIndex \in Index
      /\ readableBytes \in 0 .. Capacity /\ marked \in BOOLEAN
      /\ markReadIndex \in Index /\ markReadableBytes \in 0 .. Capacity
  BY Zenon DEF BInv, BufferTypeOK
<1>q. queue \in Seq(Byte) /\ Len(queue) = readableBytes
  BY <1>t, ContentsFacts DEF Contents
<1>m. Contents(markReadIndex, markReadableBytes) # NoMark
  <2>1. Contents(markReadIndex, markReadableBytes) \in Seq(Byte)
    BY <1>t, ContentsFacts, Zenon DEF Contents
  <2> QED
    BY <2>1, BufferAssumption, Zenon
<1>c. Chunk = Q!Chunks
  BY DEF Chunk, Q!Chunks
<1>1. ASSUME NEW src \in Chunk, Write(src) PROVE Q!QueueNext
  <2>1. queue' = queue \o SubSeq(src, 1, writableLen(src))
    BY <1>1, WriteAppends, Zenon
  <2>2. writableLen(src) = Q!Smaller(Len(src), Capacity - Len(queue))
    <3> HIDE DEF queue
    <3>1. Len(src) \in Nat
      BY ChunkFacts, BufferAssumption, SMTT(20)
    <3> QED
      BY <3>1, <1>q, <1>t, BufferAssumption DEF writableLen, Q!Smaller
  <2>3. saved = NoMark /\ saved' = NoMark /\ out' = <<>>
    BY <1>1, Zenon DEF Write, markVars
  <2>4. Q!QueueWrite(src)
    BY <2>1, <2>2, <2>3 DEF Q!QueueWrite
  <2> QED
    BY <2>4, <1>c DEF Q!QueueNext
<1>2. ASSUME NEW k \in 0 .. MaxLen, Read(k) PROVE Q!QueueNext
  <2>1. /\ out' = SubSeq(queue, 1, readLen(k))
        /\ queue' = SubSeq(queue, readLen(k) + 1, Len(queue))
    BY <1>2, ReadTakes, Zenon
  <2>2. readLen(k) = Q!Smaller(k, Len(queue))
    BY <1>q, <1>t, BufferAssumption DEF readLen, Q!Smaller
  <2>3. saved' = saved
    <3>1. UNCHANGED <<mem, markReadIndex, markReadableBytes, marked>>
      BY <1>2, ReadFacts, Zenon DEF markVars
    <3> QED
      BY <3>1, Zenon DEF Contents
  <2>4. Q!QueueRead(k)
    BY <2>1, <2>2, <2>3, Zenon DEF Q!QueueRead
  <2> QED
    BY <2>4 DEF Q!QueueNext
<1>3. ASSUME Mark PROVE Q!QueueMark
  BY <1>3, Zenon DEF Mark, Q!QueueMark, Contents
<1>4. ASSUME Recover PROVE Q!QueueRecover
  <2>1. saved # NoMark /\ saved' = NoMark /\ out' = <<>>
    BY <1>4, <1>m DEF Recover
  <2>2. queue' = saved
    BY <1>4, Zenon DEF Recover, Contents
  <2> QED
    BY <2>1, <2>2, Zenon DEF Q!QueueRecover
<1>5. ASSUME Clean PROVE Q!QueueClean
  <2>1. saved = NoMark /\ saved' = NoMark /\ out' = <<>>
    BY <1>5 DEF Clean, markVars
  <2>2. queue' = <<>>
    BY <1>5 DEF Clean, Contents
  <2> QED
    BY <2>1, <2>2 DEF Q!QueueClean
<1>6. ASSUME UNCHANGED bufferVars PROVE UNCHANGED Q!queueVars
  BY <1>6 DEF bufferVars, markVars, Q!queueVars, Contents
<1> QED
  BY <1>1, <1>2, <1>3, <1>4, <1>5, <1>6 DEF BufferNext, Q!QueueNext

(* The ring buffer implements the byte queue: initial states map to        *)
(* initial states and every operation to the same operation of the queue.  *)
THEOREM BufferIsQueue == BufferSpec => IsByteQueue
<1>1. BufferInit => Q!QueueInit
  BY DEF BufferInit, Q!QueueInit, Contents
<1> QED
  BY <1>1, BufferInitInv, BufferNextInv, QueueStep, PTL
     DEF BufferSpec, IsByteQueue, Q!QueueSpec

=============================================================================
