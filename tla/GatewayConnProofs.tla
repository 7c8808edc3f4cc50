--------------------------- MODULE GatewayConnProofs ---------------------------
(***************************************************************************)
(* TLAPS proofs about a client's connection to a server of the edge        *)
(* gateway, for any virtual services, options, services and sequence of    *)
(* requests.                                                               *)
(***************************************************************************)
EXTENDS GatewayConn, TLAPS

(* The shapes the proofs need.                                             *)
Out == [svc : Services, got : Seq(Nat), open : BOOLEAN]

ConnShape ==
    /\ DOMAIN cache = Obj /\ DOMAIN told = Obj /\ DOMAIN objects = Obj
    /\ DOMAIN proto = {"pc", "vs", "req", "svc"} /\ proto.req \in Nat
    /\ inbox \in Seq(Nat) /\ sent \in Nat
    /\ outs \in Seq(Out)
    /\ closed \in BOOLEAN

(* A handler leaves the cache behind the informer only between its delete  *)
(* and its store.                                                          *)
CacheBehind == \A o \in Obj : o \notin storing => cache[o] = told[o]

(* The service HTTP.Process connects to is the one of the request it has   *)
(* read, which becomes the first the backend gets; there is no backend     *)
(* before there is a virtual service.                                      *)
RoutedInv ==
    /\ proto.pc \in {"new", "proto"} => outs = <<>>
    /\ options.protocol = "HTTP" =>
         /\ proto.pc = "connect" =>
              /\ proto.svc = proto.vs.route[Requests[proto.req].uri]
              /\ checkHost(proto.vs, Requests[proto.req].host)
         /\ \A i \in DOMAIN outs : outs[i].got # <<>>
    /\ ReadRequestsRouted

(* Process runs for the protocols newProto supports, its loop for HTTP.    *)
OwnedInv ==
    /\ proto.pc \in {"read", "connect"} => options.protocol \in {"HTTP", "TCP"}
    /\ proto.pc = "read" => options.protocol = "HTTP"
    /\ ConnOwned

(* Where a request is: in the inbox, at hand in HTTP.Process, or with one  *)
(* backend, and nowhere twice.                                             *)
AtHand == options.protocol = "HTTP" /\ proto.pc = "connect"

OnceInv ==
    /\ \A k \in DOMAIN inbox : inbox[k] \in 1..sent
    /\ \A k, l \in DOMAIN inbox : inbox[k] = inbox[l] => k = l
    /\ \A i \in DOMAIN outs : \A k \in DOMAIN outs[i].got :
         /\ outs[i].got[k] \in 1..sent
         /\ \A l \in DOMAIN inbox : outs[i].got[k] # inbox[l]
         /\ AtHand => outs[i].got[k] # proto.req
    /\ AtHand => /\ proto.req \in 1..sent
                 /\ \A k \in DOMAIN inbox : inbox[k] # proto.req
    /\ NoRequestTwice

-----------------------------------------------------------------------------
(* The steps, by what they leave alone *)

(* The informers' handlers do not touch the connection.                    *)
LEMMA HandlersApart ==
    ASSUME NEW o \in Obj,
           \/ \E v \in Versions(o) \cup {None} : Change(o, v)
           \/ handleAdd(o) \/ handleUpdate(o) \/ StoreUpdate(o) \/ handleDelete(o)
    PROVE  UNCHANGED <<options, proto, closed, inbox, sent, answered, outs>>
<1>1. UNCHANGED <<proto, flowVars>>
  BY DEF Change, handleAdd, handleUpdate, StoreUpdate, handleDelete
<1> QED
  BY <1>1 DEF flowVars

LEMMA ShapeInit == ConnInit => ConnShape
<1> SUFFICES ASSUME ConnInit PROVE ConnShape
  OBVIOUS
<1>1. DOMAIN cache = Obj /\ DOMAIN told = Obj /\ DOMAIN objects = Obj
  BY DEF ConnInit
<1>2. DOMAIN proto = {"pc", "vs", "req", "svc"} /\ proto.req \in Nat
  BY DEF ConnInit
<1>3. inbox \in Seq(Nat) /\ sent \in Nat /\ outs \in Seq(Out)
  BY DEF ConnInit
<1>4. closed \in BOOLEAN
  BY Zenon DEF ConnInit
<1> QED
  BY <1>1, <1>2, <1>3, <1>4 DEF ConnShape

LEMMA ShapeStep ==
    ASSUME ConnShape, [ConnNext]_connVars
    PROVE  ConnShape'
<1> USE DEF ConnShape
<1>1. ASSUME NEW o \in Obj,
             \/ \E v \in Versions(o) \cup {None} : Change(o, v)
             \/ handleAdd(o) \/ handleUpdate(o) \/ StoreUpdate(o) \/ handleDelete(o)
      PROVE  ConnShape'
  <2>1. UNCHANGED <<options, proto, closed, inbox, sent, answered, outs>>
    BY <1>1, HandlersApart
  <2>2. DOMAIN cache' = Obj /\ DOMAIN told' = Obj /\ DOMAIN objects' = Obj
    BY <1>1 DEF Change, handleAdd, handleUpdate, StoreUpdate, handleDelete
  <2> QED
    BY <2>1, <2>2
<1>2. CASE serve
  <2>1. CASE Accept \/ NoMatch
    BY <2>1, Zenon DEF Accept, NoMatch, Goto, CloseConn, cacheVars, flowVars
  <2>2. ASSUME NEW n \in VsName, newProto(n)
        PROVE  ConnShape'
    BY <2>2 DEF newProto, cacheVars, flowVars
  <2> QED
    BY <1>2, <2>1, <2>2 DEF serve
<1>3. CASE ReadRequest
  <2>1. inbox' \in Seq(Nat) /\ Head(inbox) \in Nat
    BY <1>3 DEF ReadRequest
  <2> QED
    BY <1>3, <2>1, Zenon DEF ReadRequest, Goto, cacheVars
<1>4. CASE ReadEnds \/ ServiceMissing \/ ConnectFails
  BY <1>4, Zenon DEF ReadEnds, ServiceMissing, ConnectFails, Goto, CloseConn, cacheVars, flowVars
<1>5. CASE Connect
  <2> DEFINE got == IF options.protocol = "HTTP" THEN <<proto.req>> ELSE <<>>
             out == [svc |-> proto.svc, open |-> TRUE, got |-> got]
  <2>1. got \in Seq(Nat)
    BY <1>5 DEF Connect
  <2>2. out \in Out
    BY <1>5, <2>1 DEF Connect, Out
  <2>3. outs' \in Seq(Out)
    BY <1>5, <2>2 DEF Connect
  <2> QED
    BY <1>5, <2>3 DEF Connect, Goto, cacheVars
<1>6. ASSUME NEW i \in DOMAIN outs, CopyIn(i)
      PROVE  ConnShape'
  <2>1. /\ outs[i] \in Out /\ Head(inbox) \in Nat /\ inbox' \in Seq(Nat)
        /\ outs' = [outs EXCEPT ![i].got = Append(outs[i].got, Head(inbox))]
        /\ UNCHANGED <<cacheVars, proto, closed, sent, answered>>
    BY <1>6 DEF CopyIn
  <2>2. Append(outs[i].got, Head(inbox)) \in Seq(Nat)
    BY <2>1 DEF Out
  <2>3. [outs[i] EXCEPT !.got = Append(outs[i].got, Head(inbox))] \in Out
    BY <2>1, <2>2, Zenon DEF Out
  <2>4. outs' \in Seq(Out)
    BY <2>1, <2>3
  <2> QED
    BY <2>1, <2>4 DEF cacheVars
<1>7. ASSUME NEW i \in DOMAIN outs, OutEnds(i)
      PROVE  ConnShape'
  <2>1. /\ outs[i] \in Out
        /\ outs' = [outs EXCEPT ![i].open = FALSE]
        /\ closed' = TRUE /\ UNCHANGED <<cacheVars, proto, inbox, sent, answered>>
    BY <1>7 DEF OutEnds
  <2>2. [outs[i] EXCEPT !.open = FALSE] \in Out
    BY <2>1, Zenon DEF Out
  <2>3. outs' \in Seq(Out)
    BY <2>1, <2>2
  <2> QED
    BY <2>1, <2>3 DEF cacheVars
<1>8. ASSUME NEW i \in DOMAIN outs, ServiceAnswers(i)
      PROVE  ConnShape'
  BY <1>8 DEF ServiceAnswers, cacheVars
<1>9. CASE ClientSends
  <2>1. sent' \in Nat /\ inbox' \in Seq(Nat)
    BY <1>9 DEF ClientSends
  <2> QED
    BY <1>9, <2>1 DEF ClientSends, cacheVars
<1>10. CASE ClientCloses
  BY <1>10 DEF ClientCloses, CloseConn, cacheVars
<1>11. CASE UNCHANGED connVars
  BY <1>11 DEF connVars
<1> QED
  BY <1>1, <1>2, <1>3, <1>4, <1>5, <1>6, <1>7, <1>8, <1>9, <1>10, <1>11 DEF ConnNext, Process

-----------------------------------------------------------------------------
(* The caches *)

LEMMA BehindStep ==
    ASSUME ConnShape, CacheBehind, [ConnNext]_connVars
    PROVE  CacheBehind'
<1>1. ASSUME NEW o \in Obj,
             \/ \E v \in Versions(o) \cup {None} : Change(o, v)
             \/ handleAdd(o) \/ handleUpdate(o) \/ StoreUpdate(o) \/ handleDelete(o)
      PROVE  CacheBehind'
  BY <1>1, Zenon DEF ConnShape, CacheBehind, Change, handleAdd, handleUpdate, StoreUpdate, handleDelete
<1>2. CASE \/ serve \/ Process \/ ClientSends \/ ClientCloses \/ UNCHANGED connVars
           \/ \E i \in DOMAIN outs : CopyIn(i) \/ OutEnds(i) \/ ServiceAnswers(i)
  <2>1. UNCHANGED <<told, cache, storing>>
    BY <1>2, Zenon DEF serve, Accept, newProto, NoMatch, Process, ReadRequest, ReadEnds,
                ServiceMissing, Connect, ConnectFails, CopyIn, OutEnds, ServiceAnswers,
                ClientSends, ClientCloses, cacheVars, connVars
  <2> QED
    BY <2>1 DEF CacheBehind
<1> QED
  BY <1>1, <1>2 DEF ConnNext

(* A connection is refused only by Accept and by newProto.                 *)
LEMMA RefusedBy ==
    ASSUME ConnShape, [ConnNext]_connVars, proto.pc \in {"new", "proto"}, proto'.pc = "over"
    PROVE  \/ proto.pc = "new" /\ cache[Secret] # Certificate
           \/ proto.pc = "proto" /\ \A n \in VsName : ~Usable(cache[n])
<1>1. ASSUME NEW o \in Obj,
             \/ \E v \in Versions(o) \cup {None} : Change(o, v)
             \/ handleAdd(o) \/ handleUpdate(o) \/ StoreUpdate(o) \/ handleDelete(o)
      PROVE  FALSE
  BY <1>1, HandlersApart
<1>2. CASE Process
  BY <1>2 DEF Process, ReadRequest, ReadEnds, ServiceMissing, Connect, ConnectFails
<1>3. CASE \/ ClientSends \/ ClientCloses \/ UNCHANGED connVars
           \/ \E i \in DOMAIN outs : CopyIn(i) \/ OutEnds(i) \/ ServiceAnswers(i)
  BY <1>3 DEF CopyIn, OutEnds, ServiceAnswers, ClientSends, ClientCloses, connVars
<1>4. CASE Accept
  BY <1>4 DEF Accept, Goto, ConnShape
<1>5. ASSUME NEW n \in VsName, newProto(n)
      PROVE  FALSE
  BY <1>5 DEF newProto
<1>6. CASE NoMatch
  BY <1>6 DEF NoMatch
<1> QED
  BY <1>1, <1>2, <1>3, <1>4, <1>5, <1>6 DEF ConnNext, serve

(* A connection is refused for want of a certificate or a virtual service  *)
(* the informer has delivered only in the window of an update, however the *)
(* handlers and the accept loop interleave.                                *)
THEOREM RefusalWindow == ConnSpec => RefusedOnlyInUpdate
<1> DEFINE Inv == ConnShape /\ CacheBehind
           Refused == proto'.pc = "over" =>
             /\ proto.pc = "new" /\ told[Secret] = Certificate => Secret \in storing
             /\ proto.pc = "proto" => \A n \in VsName : Usable(told[n]) => n \in storing
<1>1. ConnInit => Inv
  <2>1. ConnInit => CacheBehind
    BY DEF ConnInit, CacheBehind
  <2> QED
    BY <2>1, ShapeInit
<1>2. Inv /\ [ConnNext]_connVars => Inv'
  BY ShapeStep, BehindStep
<1>3. Inv /\ [ConnNext]_connVars => [Refused]_connVars
  <2> SUFFICES ASSUME Inv, [ConnNext]_connVars, proto'.pc = "over"
               PROVE  /\ proto.pc = "new" /\ told[Secret] = Certificate => Secret \in storing
                      /\ proto.pc = "proto" =>
                           \A n \in VsName : Usable(told[n]) => n \in storing
    OBVIOUS
  <2>1. Secret \in Obj /\ VsName \subseteq Obj
    BY DEF Obj
  <2>2. CASE proto.pc = "new"
    BY <2>1, <2>2, RefusedBy DEF CacheBehind
  <2>3. CASE proto.pc = "proto"
    BY <2>1, <2>3, RefusedBy, Zenon DEF CacheBehind
  <2> QED
    BY <2>2, <2>3
<1> QED
  BY <1>1, <1>2, <1>3, PTL DEF ConnSpec, RefusedOnlyInUpdate

-----------------------------------------------------------------------------
(* Who owns the connection *)

LEMMA OwnedStep ==
    ASSUME ConnShape, OwnedInv, [ConnNext]_connVars
    PROVE  OwnedInv'
<1> USE DEF OwnedInv, ConnOwned
<1>1. ASSUME NEW o \in Obj,
             \/ \E v \in Versions(o) \cup {None} : Change(o, v)
             \/ handleAdd(o) \/ handleUpdate(o) \/ StoreUpdate(o) \/ handleDelete(o)
      PROVE  OwnedInv'
  BY <1>1, HandlersApart
<1>2. CASE Accept \/ NoMatch
  BY <1>2 DEF ConnShape, Accept, NoMatch, Goto, CloseConn, cacheVars, flowVars
<1>3. ASSUME NEW n \in VsName, newProto(n)
      PROVE  OwnedInv'
  BY <1>3 DEF newProto, Usable, cacheVars
<1>4. CASE ReadRequest
  BY <1>4, Zenon DEF ConnShape, ReadRequest, Goto, cacheVars
<1>5. CASE ReadEnds \/ ServiceMissing \/ ConnectFails
  BY <1>5 DEF ConnShape, ReadEnds, ServiceMissing, ConnectFails, Processed, Goto, CloseConn,
              cacheVars, flowVars
<1>6. CASE Connect
  <2>1. /\ outs' # <<>> /\ Len(outs') \in DOMAIN outs' /\ outs'[Len(outs')].open
    BY <1>6, SMTT(20) DEF ConnShape, Connect
  <2>2. proto'.pc = Processed /\ UNCHANGED options
    BY <1>6 DEF ConnShape, Connect, Goto, cacheVars
  <2> QED
    BY <1>6, <2>1, <2>2 DEF Connect, Processed
<1>7. ASSUME NEW i \in DOMAIN outs, CopyIn(i) \/ ServiceAnswers(i)
      PROVE  OwnedInv'
  <2>1. UNCHANGED <<options, proto, closed>>
    BY <1>7 DEF CopyIn, ServiceAnswers, cacheVars
  <2>2. DOMAIN outs' = DOMAIN outs /\ \A j \in DOMAIN outs : outs'[j].open = outs[j].open
    <3>1. \A j \in DOMAIN outs : outs[j] \in Out
      BY DEF ConnShape
    <3> QED
      BY <1>7, <3>1, Zenon DEF ConnShape, CopyIn, ServiceAnswers, Out
  <2> QED
    BY <2>1, <2>2
<1>8. CASE \/ ClientCloses \/ \E i \in DOMAIN outs : OutEnds(i)
  <2>1. UNCHANGED <<options, proto>> /\ closed'
    BY <1>8 DEF ClientCloses, CloseConn, OutEnds, cacheVars
  <2> QED
    BY <2>1
<1>9. CASE ClientSends \/ UNCHANGED connVars
  <2>1. UNCHANGED <<options, proto, closed, outs>>
    BY <1>9 DEF ClientSends, cacheVars, connVars
  <2> QED
    BY <2>1
<1> QED
  BY <1>1, <1>2, <1>3, <1>4, <1>5, <1>6, <1>7, <1>8, <1>9 DEF ConnNext, serve, Process

(* Whatever fails, a connection is closed or in somebody's hands, but for  *)
(* a TCP connection to a service GetServicePortName does not know.         *)
THEOREM Owned == ConnSpec => []ConnOwned
<1>1. ConnInit => ConnShape /\ OwnedInv
  <2>1. ConnInit => OwnedInv
    BY DEF ConnInit, OwnedInv, ConnOwned
  <2> QED
    BY <2>1, ShapeInit
<1>2. ConnShape /\ OwnedInv /\ [ConnNext]_connVars => (ConnShape /\ OwnedInv)'
  BY ShapeStep, OwnedStep
<1>3. OwnedInv => ConnOwned
  BY SMTT(20) DEF OwnedInv
<1> QED
  BY <1>1, <1>2, <1>3, PTL DEF ConnSpec

-----------------------------------------------------------------------------
(* Where requests go *)

(* A step that only closes connections or passes further requests on to a  *)
(* backend that has its first one.                                         *)
LEMMA RoutedKept ==
    ASSUME ConnShape, RoutedInv, UNCHANGED <<options, proto>>, outs' \in Seq(Out),
           DOMAIN outs' = DOMAIN outs,
           \A i \in DOMAIN outs :
              /\ outs'[i].svc = outs[i].svc
              /\ outs[i].got # <<>> => /\ outs'[i].got # <<>>
                                       /\ Head(outs'[i].got) = Head(outs[i].got)
    PROVE  RoutedInv'
<1>1. outs = <<>> => outs' = <<>>
  BY DEF ConnShape
<1> QED
  BY <1>1, ZenonT(30) DEF RoutedInv, ReadRequestsRouted

LEMMA RoutedStep ==
    ASSUME ConnShape, ConnShape', RoutedInv, [ConnNext]_connVars
    PROVE  RoutedInv'
<1>1. CASE \/ UNCHANGED connVars \/ ClientSends \/ ClientCloses
           \/ \E i \in DOMAIN outs : ServiceAnswers(i)
  <2>1. UNCHANGED <<options, proto, outs>>
    BY <1>1, SMTT(20) DEF ClientSends, ClientCloses, CloseConn, ServiceAnswers, cacheVars, connVars
  <2> QED
    BY <2>1, Zenon DEF RoutedInv, ReadRequestsRouted
<1>2. ASSUME NEW o \in Obj,
             \/ \E v \in Versions(o) \cup {None} : Change(o, v)
             \/ handleAdd(o) \/ handleUpdate(o) \/ StoreUpdate(o) \/ handleDelete(o)
      PROVE  RoutedInv'
  BY <1>2, HandlersApart, ZenonT(30) DEF RoutedInv, ReadRequestsRouted
<1>3. CASE \/ Accept \/ NoMatch \/ ReadEnds \/ ServiceMissing \/ ConnectFails
  <2>1. /\ UNCHANGED <<options, outs>>
        /\ \E label \in {"proto", "over", "read"} :
             /\ label = "proto" => proto.pc = "new"
             /\ proto' = [proto EXCEPT !.pc = label]
    BY <1>3, SMTT(20) DEF Accept, NoMatch, ReadEnds, ServiceMissing, ConnectFails, Processed, Goto,
                CloseConn, cacheVars, flowVars
  <2> QED
    BY <2>1, ZenonT(30) DEF ConnShape, RoutedInv, ReadRequestsRouted
<1>4. ASSUME NEW n \in VsName, newProto(n)
      PROVE  RoutedInv'
  <2>1. outs = <<>> /\ outs' = <<>> /\ UNCHANGED options
    BY <1>4 DEF newProto, RoutedInv, flowVars
  <2>2. proto'.pc = IF options.protocol = "HTTP" THEN "read" ELSE "connect"
    BY <1>4 DEF newProto
  <2> QED
    BY <2>1, <2>2 DEF RoutedInv, ReadRequestsRouted
<1>5. CASE ReadRequest
  <2> DEFINE r == Head(inbox)
  <2>1. UNCHANGED <<options, outs>> /\ proto.pc = "read"
    BY <1>5, Zenon DEF ReadRequest, cacheVars
  <2>2. CASE Accepts(proto.vs, Requests[r])
    <3>1. proto' = [proto EXCEPT !.pc = "connect", !.req = r,
                                 !.svc = proto.vs.route[Requests[r].uri]]
      BY <1>5, <2>2 DEF ReadRequest
    <3> HIDE DEF r
    <3>2. /\ proto'.pc = "connect" /\ proto'.req = r /\ proto'.vs = proto.vs
          /\ proto'.svc = proto.vs.route[Requests[r].uri]
      BY <3>1, Zenon DEF ConnShape
    <3> QED
      BY <2>1, <2>2, <3>2, Zenon DEF RoutedInv, ReadRequestsRouted, Accepts
  <2>3. CASE ~Accepts(proto.vs, Requests[r])
    <3>1. proto' = [proto EXCEPT !.pc = "over"]
      BY <1>5, <2>3 DEF ReadRequest, Goto
    <3>2. proto'.pc = "over" /\ proto'.vs = proto.vs
      BY <3>1 DEF ConnShape
    <3> QED
      BY <2>1, <3>2, Zenon DEF RoutedInv, ReadRequestsRouted
  <2> QED
    BY <2>2, <2>3
<1>6. CASE Connect
  <2> DEFINE got == IF options.protocol = "HTTP" THEN <<proto.req>> ELSE <<>>
             out == [svc |-> proto.svc, open |-> TRUE, got |-> got]
  <2>1. /\ outs' = Append(outs, out) /\ proto.pc = "connect" /\ UNCHANGED options
        /\ proto' = [proto EXCEPT !.pc = Processed]
    BY <1>6 DEF Connect, Goto, cacheVars
  <2>2. proto'.vs = proto.vs /\ proto'.pc \in {"read", "over"}
    BY <2>1 DEF ConnShape, Processed
  <2>3. options.protocol = "HTTP" =>
          out.got # <<>> /\ Head(out.got) = proto.req /\ out.svc = proto.svc
    OBVIOUS
  <2> HIDE DEF out
  <2>4. /\ DOMAIN outs' = DOMAIN outs \cup {Len(outs) + 1}
        /\ outs'[Len(outs) + 1] = out
        /\ \A i \in DOMAIN outs : outs'[i] = outs[i]
    <3> DEFINE S == Out \cup {out}
    <3>1. outs \in Seq(S) /\ out \in S
      BY DEF ConnShape
    <3> HIDE DEF S
    <3>2. /\ Append(outs, out) \in Seq(S) /\ Len(Append(outs, out)) = Len(outs) + 1
          /\ \A i \in 1..Len(outs) : Append(outs, out)[i] = outs[i]
          /\ Append(outs, out)[Len(outs) + 1] = out
      BY <3>1
    <3>3. Len(outs) \in Nat /\ DOMAIN outs = 1..Len(outs) /\ DOMAIN outs' = 1..(Len(outs) + 1)
      BY <2>1, <3>1, <3>2
    <3> QED
      BY <2>1, <3>2, <3>3
  <2>5. ASSUME options.protocol = "HTTP", NEW i \in DOMAIN outs'
        PROVE  /\ outs'[i].got # <<>>
               /\ outs'[i].svc = proto.vs.route[Requests[Head(outs'[i].got)].uri]
               /\ checkHost(proto.vs, Requests[Head(outs'[i].got)].host)
    <3>1. CASE i \in DOMAIN outs
      <4>1. /\ outs[i].got # <<>>
            /\ outs[i].svc = proto.vs.route[Requests[Head(outs[i].got)].uri]
            /\ checkHost(proto.vs, Requests[Head(outs[i].got)].host)
        BY <2>5, <3>1, ZenonT(30) DEF RoutedInv, ReadRequestsRouted
      <4> QED
        BY <2>4, <3>1, <4>1, Zenon
    <3>2. CASE i = Len(outs) + 1
      BY <2>1, <2>3, <2>4, <2>5, <3>2, Zenon DEF RoutedInv
    <3> QED
      BY <2>4, <3>1, <3>2, Zenon
  <2> QED
    BY <2>1, <2>2, <2>5, Zenon DEF RoutedInv, ReadRequestsRouted
<1>7. ASSUME NEW i \in DOMAIN outs, CopyIn(i)
      PROVE  RoutedInv'
  <2>1. /\ outs' = [outs EXCEPT ![i].got = Append(outs[i].got, Head(inbox))]
        /\ UNCHANGED <<options, proto>> /\ Head(inbox) \in Nat
    BY <1>7, SMTT(20) DEF ConnShape, CopyIn, cacheVars
  <2>2. \A j \in DOMAIN outs : outs[j] \in Out
    BY DEF ConnShape
  <2>3. \A s \in Seq(Nat) : \A x \in Nat :
          s # <<>> => Append(s, x) # <<>> /\ Head(Append(s, x)) = Head(s)
    OBVIOUS
  <2>4. outs'[i].svc = outs[i].svc /\ outs'[i].got = Append(outs[i].got, Head(inbox))
    BY <2>1, <2>2 DEF Out
  <2>5. \A j \in DOMAIN outs \ {i} : outs'[j] = outs[j]
    BY <2>1
  <2>6. outs[i].got \in Seq(Nat)
    BY <2>2 DEF Out
  <2>7. \A j \in DOMAIN outs :
           /\ outs'[j].svc = outs[j].svc
           /\ outs[j].got # <<>> => /\ outs'[j].got # <<>>
                                    /\ Head(outs'[j].got) = Head(outs[j].got)
    BY <2>1, <2>3, <2>4, <2>5, <2>6, Zenon
  <2>8. outs' \in Seq(Out) /\ DOMAIN outs' = DOMAIN outs /\ UNCHANGED <<options, proto>>
    BY <2>1 DEF ConnShape
  <2> QED
    BY <2>7, <2>8, RoutedKept
<1>8. ASSUME NEW i \in DOMAIN outs, OutEnds(i)
      PROVE  RoutedInv'
  <2>1. outs' = [outs EXCEPT ![i].open = FALSE] /\ UNCHANGED <<options, proto>>
    BY <1>8 DEF OutEnds, cacheVars
  <2>2. \A j \in DOMAIN outs : outs'[j].svc = outs[j].svc /\ outs'[j].got = outs[j].got
    <3>1. outs[i] \in Out
      BY DEF ConnShape
    <3> QED
      BY <2>1, <3>1 DEF Out
  <2> QED
    BY <2>1, <2>2, RoutedKept DEF ConnShape
<1> QED
  BY <1>1, <1>2, <1>3, <1>4, <1>5, <1>6, <1>7, <1>8 DEF ConnNext, serve, Process

LEMMA RoutedInit == ConnInit => RoutedInv
BY DEF ConnInit, RoutedInv, ReadRequestsRouted

(* Whatever the other reader of the connection takes from it, a request    *)
(* HTTP.Process reads goes where the virtual service sends its URI, and    *)
(* only if that allows its host.                                           *)
THEOREM Routed == ConnSpec => []ReadRequestsRouted
<1>1. ConnInit => ConnShape /\ RoutedInv
  BY ShapeInit, RoutedInit
<1>2. ConnShape /\ RoutedInv /\ [ConnNext]_connVars => (ConnShape /\ RoutedInv)'
  BY ShapeStep, RoutedStep
<1>3. RoutedInv => ReadRequestsRouted
  BY Zenon DEF RoutedInv
<1> QED
  BY <1>1, <1>2, <1>3, PTL DEF ConnSpec

-----------------------------------------------------------------------------
(* Requests are shared and not duplicated *)

(* A step that moves no request.                                           *)
LEMMA OnceKept ==
    ASSUME OnceInv, UNCHANGED <<inbox, sent>>, AtHand' => AtHand /\ proto'.req = proto.req,
           DOMAIN outs' = DOMAIN outs, \A i \in DOMAIN outs : outs'[i].got = outs[i].got
    PROVE  OnceInv'
BY DEF OnceInv, NoRequestTwice

LEMMA OnceStep ==
    ASSUME ConnShape, ConnShape', OnceInv, [ConnNext]_connVars
    PROVE  OnceInv'
<1> DEFINE first == Head(inbox)
<1>1. ASSUME NEW o \in Obj,
             \/ \E v \in Versions(o) \cup {None} : Change(o, v)
             \/ handleAdd(o) \/ handleUpdate(o) \/ StoreUpdate(o) \/ handleDelete(o)
      PROVE  OnceInv'
  BY <1>1, HandlersApart, OnceKept DEF AtHand
<1>2. CASE \/ Accept \/ NoMatch \/ ReadEnds \/ ServiceMissing \/ ConnectFails \/ ClientCloses
           \/ (\E n \in VsName : newProto(n)) \/ UNCHANGED connVars
  <2>1. /\ UNCHANGED <<options, inbox, sent, outs>>
        /\ \/ UNCHANGED proto
           \/ \E label \in {"proto", "over", "read"} : proto' = [proto EXCEPT !.pc = label]
           \/ \E n \in VsName : newProto(n)
    BY <1>2 DEF Accept, NoMatch, ReadEnds, ServiceMissing, ConnectFails, ClientCloses, newProto,
                Processed, Goto, CloseConn, cacheVars, flowVars, connVars
  <2>2. AtHand' => AtHand /\ proto'.req = proto.req
    BY <2>1 DEF ConnShape, AtHand, newProto
  <2> QED
    BY <2>1, <2>2, OnceKept
<1>3. ASSUME inbox # <<>>, inbox' = Tail(inbox)
      PROVE  /\ first \in 1..sent /\ 1 \in DOMAIN inbox /\ first = inbox[1]
             /\ \A k \in DOMAIN inbox' : k + 1 \in DOMAIN inbox /\ inbox'[k] = inbox[k + 1]
             /\ \A k \in DOMAIN inbox' : inbox'[k] # first
             /\ DOMAIN inbox \subseteq Nat /\ DOMAIN inbox' \subseteq Nat
  <2>1. 1 \in DOMAIN inbox /\ first = inbox[1]
    BY <1>3 DEF ConnShape
  <2>2. \A k \in DOMAIN inbox' :
          k \in Nat \ {0} /\ k + 1 \in DOMAIN inbox /\ inbox'[k] = inbox[k + 1]
    BY <1>3, SMTT(20) DEF ConnShape
  <2>3. DOMAIN inbox \subseteq Nat
    BY SMTT(20) DEF ConnShape
  <2> HIDE DEF first
  <2>4. \A k \in DOMAIN inbox' : inbox'[k] # first
    <3> SUFFICES ASSUME NEW k \in DOMAIN inbox' PROVE inbox'[k] # first
      OBVIOUS
    <3>1. k + 1 # 1
      BY <2>2
    <3> QED
      BY <2>1, <2>2, <3>1 DEF OnceInv
  <2> QED
    BY <2>1, <2>2, <2>3, <2>4 DEF OnceInv
<1>4. CASE ReadRequest
  <2>1. /\ inbox # <<>> /\ inbox' = Tail(inbox) /\ UNCHANGED <<options, sent, outs>>
        /\ \/ proto' = [proto EXCEPT !.pc = "over"]
           \/ proto' = [proto EXCEPT !.pc = "connect", !.req = first,
                                     !.svc = proto.vs.route[Requests[first].uri]]
    BY <1>4 DEF ReadRequest, Goto, cacheVars
  <2> HIDE DEF first
  <2>2. proto'.pc = "over" \/ proto'.req = first
    BY <2>1, Zenon DEF ConnShape
  <2>3. AtHand' => proto'.req = first
    BY <2>2 DEF AtHand
  <2>4. /\ first \in 1..sent /\ 1 \in DOMAIN inbox /\ first = inbox[1]
        /\ \A k \in DOMAIN inbox' : k + 1 \in DOMAIN inbox /\ inbox'[k] = inbox[k + 1]
        /\ \A k \in DOMAIN inbox' : inbox'[k] # first
        /\ DOMAIN inbox' \subseteq Nat
    BY <1>3, <2>1
  <2>5. \A k, l \in DOMAIN inbox' : inbox'[k] = inbox'[l] => k = l
    <3> SUFFICES ASSUME NEW k \in DOMAIN inbox', NEW l \in DOMAIN inbox', inbox'[k] = inbox'[l]
                 PROVE  k = l
      OBVIOUS
    <3>1. k + 1 = l + 1
      BY <2>4 DEF OnceInv
    <3> QED
      BY <2>4, <3>1
  <2> QED
    BY <2>1, <2>3, <2>4, <2>5 DEF OnceInv, NoRequestTwice
<1>5. CASE Connect
  <2> DEFINE got == IF options.protocol = "HTTP" THEN <<proto.req>> ELSE <<>>
  <2>1. /\ outs' = Append(outs, [svc |-> proto.svc, open |-> TRUE, got |-> got])
        /\ UNCHANGED <<options, inbox, sent>> /\ proto.pc = "connect"
        /\ proto' = [proto EXCEPT !.pc = Processed]
    BY <1>5 DEF Connect, Goto, cacheVars
  <2>2. ~AtHand'
    BY <2>1 DEF ConnShape, Processed, AtHand
  <2>3. \A k \in DOMAIN got : AtHand /\ k = 1 /\ got[k] = proto.req
    BY <2>1 DEF AtHand
  <2> HIDE DEF got
  <2>4. /\ DOMAIN outs' = DOMAIN outs \cup {Len(outs) + 1} /\ Len(outs) + 1 \notin DOMAIN outs
        /\ outs'[Len(outs) + 1].got = got
        /\ \A i \in DOMAIN outs : outs'[i] = outs[i]
    BY <2>1, SMTT(20) DEF ConnShape
  <2> QED
    BY <2>1, <2>2, <2>3, <2>4, SMTT(20) DEF OnceInv, NoRequestTwice
<1>6. ASSUME NEW i \in DOMAIN outs, CopyIn(i)
      PROVE  OnceInv'
  <2>1. /\ inbox # <<>> /\ inbox' = Tail(inbox) /\ UNCHANGED <<options, proto, sent>>
        /\ outs' = [outs EXCEPT ![i].got = Append(outs[i].got, first)]
        /\ outs[i] \in Out /\ first \in Nat
    BY <1>6, SMTT(20) DEF ConnShape, CopyIn, cacheVars
  <2> HIDE DEF first
  <2>2. /\ first \in 1..sent /\ 1 \in DOMAIN inbox /\ first = inbox[1]
        /\ \A k \in DOMAIN inbox' : k + 1 \in DOMAIN inbox /\ inbox'[k] = inbox[k + 1]
        /\ \A k \in DOMAIN inbox' : inbox'[k] # first
        /\ DOMAIN inbox' \subseteq Nat
    BY <1>3, <2>1
  <2>3. \A k, l \in DOMAIN inbox' : inbox'[k] = inbox'[l] => k = l
    <3> SUFFICES ASSUME NEW k \in DOMAIN inbox', NEW l \in DOMAIN inbox', inbox'[k] = inbox'[l]
                 PROVE  k = l
      OBVIOUS
    <3>1. k + 1 = l + 1
      BY <2>2 DEF OnceInv
    <3> QED
      BY <2>2, <3>1
  <2>4. /\ DOMAIN outs' = DOMAIN outs /\ \A j \in DOMAIN outs \ {i} : outs'[j] = outs[j]
        /\ outs'[i].got = Append(outs[i].got, first)
    BY <2>1, Zenon DEF Out
  <2> DEFINE last == Len(outs[i].got) + 1
  <2>5. /\ DOMAIN outs'[i].got = DOMAIN outs[i].got \cup {last} /\ last \notin DOMAIN outs[i].got
        /\ outs'[i].got[last] = first
        /\ \A k \in DOMAIN outs[i].got : outs'[i].got[k] = outs[i].got[k]
    <3>1. outs[i].got \in Seq(Nat)
      BY <2>1 DEF Out
    <3>2. \A s \in Seq(Nat), x \in Nat :
            /\ DOMAIN Append(s, x) = DOMAIN s \cup {Len(s) + 1} /\ Len(s) + 1 \notin DOMAIN s
            /\ Append(s, x)[Len(s) + 1] = x
            /\ \A k \in DOMAIN s : Append(s, x)[k] = s[k]
      OBVIOUS
    <3>3. first \in Nat /\ outs'[i].got = Append(outs[i].got, first)
      BY <2>1, <2>4, Zenon
    <3> QED
      BY <3>1, <3>2, <3>3
  <2> HIDE DEF last
  <2>6. \A j \in DOMAIN outs' : \A k \in DOMAIN outs'[j].got :
          \/ j = i /\ k = last /\ outs'[j].got[k] = first
          \/ k \in DOMAIN outs[j].got /\ outs'[j].got[k] = outs[j].got[k]
    BY <2>4, <2>5, Zenon
  <2>7. \A j \in DOMAIN outs : \A k \in DOMAIN outs[j].got : outs[j].got[k] # first
    BY <2>2 DEF OnceInv
  <2>8. AtHand' => AtHand /\ proto'.req = proto.req /\ proto.req # first
    BY <2>1, <2>2, Zenon DEF AtHand, OnceInv
  <2>9. NoRequestTwice'
    BY <2>4, <2>6, <2>7, SMTT(20) DEF OnceInv, NoRequestTwice
  <2>10. \A j \in DOMAIN outs' : \A k \in DOMAIN outs'[j].got :
           /\ outs'[j].got[k] \in 1..sent
           /\ \A l \in DOMAIN inbox' : outs'[j].got[k] # inbox'[l]
           /\ AtHand' => outs'[j].got[k] # proto'.req
    BY <2>2, <2>4, <2>6, <2>8 DEF OnceInv
  <2> QED
    BY <2>1, <2>2, <2>3, <2>8, <2>9, <2>10, SMTT(20) DEF OnceInv
<1>7. ASSUME NEW i \in DOMAIN outs, OutEnds(i) \/ ServiceAnswers(i)
      PROVE  OnceInv'
  <2>1. UNCHANGED <<options, proto, inbox, sent>>
    BY <1>7 DEF OutEnds, ServiceAnswers, cacheVars
  <2>2. DOMAIN outs' = DOMAIN outs /\ \A j \in DOMAIN outs : outs'[j].got = outs[j].got
    <3>1. outs[i] \in Out
      BY DEF ConnShape
    <3> QED
      BY <1>7, <3>1, SMTT(20) DEF OutEnds, ServiceAnswers, Out
  <2> QED
    BY <2>1, <2>2, OnceKept DEF AtHand
<1>8. CASE ClientSends
  <2>1. /\ inbox' = Append(inbox, sent + 1) /\ sent' = sent + 1 /\ sent \in Nat
        /\ UNCHANGED <<options, proto, outs>>
    BY <1>8 DEF ConnShape, ClientSends, cacheVars
  <2> DEFINE last == Len(inbox) + 1
  <2>2. /\ DOMAIN inbox' = DOMAIN inbox \cup {last} /\ last \notin DOMAIN inbox
        /\ inbox'[last] = sent + 1
        /\ \A k \in DOMAIN inbox : inbox'[k] = inbox[k]
    BY <2>1, SMTT(20) DEF ConnShape
  <2> HIDE DEF last
  <2>3. 1..sent \subseteq 1..sent' /\ sent + 1 \notin 1..sent /\ sent + 1 \in 1..sent'
    BY <2>1
  <2> QED
    BY <2>1, <2>2, <2>3, SMTT(20) DEF AtHand, OnceInv, NoRequestTwice
<1> QED
  BY <1>1, <1>2, <1>4, <1>5, <1>6, <1>7, <1>8 DEF ConnNext, serve, Process

LEMMA OnceInit == ConnInit => OnceInv
<1> SUFFICES ASSUME ConnInit PROVE OnceInv
  OBVIOUS
<1>1. DOMAIN inbox = {} /\ DOMAIN outs = {} /\ ~AtHand
  BY DEF ConnInit, AtHand
<1> QED
  BY <1>1 DEF OnceInv, NoRequestTwice

(* HTTP.Process and the ProxyConns it started read the same connection     *)
(* without a lock: no request reaches two services, or one service twice.  *)
THEOREM SharedNotDuplicated == ConnSpec => []NoRequestTwice
<1>1. ConnInit => ConnShape /\ OnceInv
  BY ShapeInit, OnceInit
<1>2. ConnShape /\ OnceInv /\ [ConnNext]_connVars => (ConnShape /\ OnceInv)'
  BY ShapeStep, OnceStep
<1>3. OnceInv => NoRequestTwice
  BY DEF OnceInv
<1> QED
  BY <1>1, <1>2, <1>3, PTL DEF ConnSpec

=============================================================================
