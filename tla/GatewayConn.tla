------------------------------ MODULE GatewayConn ------------------------------
(***************************************************************************)
(* A client's connection to a server of the edge gateway: the accept loop  *)
(* looks its secret and its virtual service up in the caches that the      *)
(* informers keep (pkg/gateway/server.go, cache/cache.go), then TCP.Process*)
(* or the loop of HTTP.Process connects it to a service (tcp.go, http.go). *)
(***************************************************************************)
EXTENDS Naturals, Sequences, Functions

CONSTANTS
    VsName,        \* keys of virtual services
    VsVersions,    \* their specs: [gateway, hosts, route, tcp]
    Secret,        \* the key of the server's secret
    Certificate,   \* a secret with a certificate and its key
    NoCertificate, \* any other secret
    GwName,        \* the key of the gateway
    Options,       \* srv.options of its servers: [protocol, tls, hosts]
    Requests,      \* what the client sends: a sequence of [uri, host]
    Services,      \* the services GetServicePortName knows
    MaxEdits,      \* how often objects change or are resynced
    None

VARIABLES
    objects,       \* those of the API server
    told,          \* the version the handlers were last told of
    cache,         \* virtualServiceCache and secretCache
    storing,       \* update handlers that have deleted and not yet stored
    edits,
    options,       \* srv.options of the server that accepts the connection
    proto,         \* the goroutine of the connection: [pc, vs, req, svc]
    closed,        \* p.Conn is closed
    inbox,         \* requests sent and not read
    sent, answered,
    outs           \* backend connections: [svc, got, open]

connVars == <<objects, told, cache, storing, edits, options, proto, closed, inbox, sent,
              answered, outs>>
cacheVars == <<objects, told, cache, storing, edits, options>>
flowVars == <<options, closed, inbox, sent, answered, outs>>

Obj == VsName \cup {Secret}
Versions(o) == IF o = Secret THEN {Certificate, NoCertificate} ELSE VsVersions

ConnInit ==
    /\ objects \in {f \in [Obj -> (UNION {Versions(o) : o \in Obj}) \cup {None}] :
                  \A o \in Obj : f[o] \in Versions(o) \cup {None}}
    /\ told = objects /\ cache = objects
    /\ storing = {}
    /\ edits = 0
    /\ options \in Options
    /\ proto = [pc |-> "new", vs |-> None, req |-> 0, svc |-> None]
    /\ closed = FALSE
    /\ inbox = <<>>
    /\ sent = 0 /\ answered = 0
    /\ outs = <<>>

-----------------------------------------------------------------------------
(* Objects and caches *)

Change(o, v) ==
    /\ edits < MaxEdits /\ v \in Versions(o) \cup {None} /\ v # objects[o]
    /\ objects' = [objects EXCEPT ![o] = v]
    /\ edits' = edits + 1
    /\ UNCHANGED <<told, cache, storing, proto, flowVars>>

handleAdd(o) ==
    /\ o \notin storing /\ told[o] = None /\ objects[o] # None
    /\ told' = [told EXCEPT ![o] = objects[o]]
    /\ cache' = [cache EXCEPT ![o] = objects[o]]
    /\ UNCHANGED <<objects, storing, edits, proto, flowVars>>

(* handleUpdateVirtualService, handleUpdateSecret: delete the old key ...  *)
handleUpdate(o) ==
    /\ o \notin storing /\ told[o] # None /\ objects[o] # None
    /\ edits < MaxEdits \/ told[o] # objects[o]
    /\ edits' = IF told[o] = objects[o] THEN edits + 1 ELSE edits
    /\ told' = [told EXCEPT ![o] = objects[o]]
    /\ cache' = [cache EXCEPT ![o] = None]
    /\ storing' = storing \cup {o}
    /\ UNCHANGED <<objects, proto, flowVars>>

(* Mutant: the new object is stored first, and the key then deleted.       *)
StoreUpdate_Swapped(o) ==
    /\ o \in storing
    /\ cache' = [cache EXCEPT ![o] = None]
    /\ storing' = storing \ {o}
    /\ UNCHANGED <<objects, told, edits, proto, flowVars>>

(* ... then store the new object.                                          *)
StoreUpdate(o) ==
    /\ o \in storing
    /\ cache' = [cache EXCEPT ![o] = told[o]]
    /\ storing' = storing \ {o}
    /\ UNCHANGED <<objects, told, edits, proto, flowVars>>

handleDelete(o) ==
    /\ o \notin storing /\ told[o] # None /\ objects[o] = None
    /\ told' = [told EXCEPT ![o] = None]
    /\ cache' = [cache EXCEPT ![o] = None]
    /\ UNCHANGED <<objects, storing, edits, proto, flowVars>>

-----------------------------------------------------------------------------
(* The accept loop *)

Goto(label) == proto' = [proto EXCEPT !.pc = label]

CloseConn == closed' = TRUE /\ UNCHANGED <<inbox, sent, answered, outs>>

(* Accept, and the certificate from the secret, if one is required.        *)
Accept ==
    /\ proto.pc = "new"
    /\ IF options.tls => cache[Secret] = Certificate
       THEN Goto("proto") /\ UNCHANGED flowVars
       ELSE Goto("over") /\ CloseConn
    /\ UNCHANGED cacheVars

Bound(vs) == vs # None /\ vs.gateway = GwName /\ vs.hosts = options.hosts

(* newProto takes any bound virtual service: for TCP one with one route.   *)
(* Other protocols are not supported, nor is egress traffic.               *)
Usable(vs) ==
    Bound(vs) /\ (options.protocol = "HTTP" \/ (options.protocol = "TCP" /\ vs.tcp # None))

newProto(n) ==
    /\ proto.pc = "proto" /\ Usable(cache[n])
    /\ proto' = [pc |-> IF options.protocol = "HTTP" THEN "read" ELSE "connect",
                 vs |-> cache[n], req |-> 0, svc |-> cache[n].tcp]
    /\ UNCHANGED <<cacheVars, flowVars>>

NoMatch ==
    /\ proto.pc = "proto" /\ \A n \in VsName : ~Usable(cache[n])
    /\ Goto("over") /\ CloseConn
    /\ UNCHANGED cacheVars

-----------------------------------------------------------------------------
(* HTTP.Process *)

checkHost(vs, host) == "*" \in vs.hosts \/ host = "ip" \/ host \in vs.hosts

(* Mutant: the host of the request is not looked at.                       *)
Accepts_AnyHost(vs, r) == vs.route[r.uri] # None

Accepts(vs, r) == checkHost(vs, r.host) /\ vs.route[r.uri] # None

(* Mutant: a request that is refused does not close the connection.        *)
ReadRequest_LeftOpen ==
    /\ proto.pc = "read" /\ ~closed /\ inbox # <<>>
    /\ LET r == Head(inbox) IN
       IF Accepts(proto.vs, Requests[r])
       THEN proto' = [proto EXCEPT !.pc = "connect", !.req = r,
                                   !.svc = proto.vs.route[Requests[r].uri]]
       ELSE Goto("over")
    /\ inbox' = Tail(inbox)
    /\ UNCHANGED <<cacheVars, closed, sent, answered, outs>>

(* http.ReadRequest, checkHost and route: connect, or close and return.    *)
ReadRequest ==
    /\ proto.pc = "read" /\ ~closed /\ inbox # <<>>
    /\ LET r == Head(inbox) IN
       IF Accepts(proto.vs, Requests[r])
       THEN /\ proto' = [proto EXCEPT !.pc = "connect", !.req = r,
                                      !.svc = proto.vs.route[Requests[r].uri]]
            /\ closed' = closed
       ELSE Goto("over") /\ closed' = TRUE
    /\ inbox' = Tail(inbox)
    /\ UNCHANGED <<cacheVars, sent, answered, outs>>

ReadEnds ==
    /\ proto.pc = "read" /\ closed
    /\ Goto("over")
    /\ UNCHANGED <<cacheVars, flowVars>>

-----------------------------------------------------------------------------
(* TCP.Process *)

Processed == IF options.protocol = "HTTP" THEN "read" ELSE "over"

(* The service is not in the cache: return, and leave the connection open. *)
ServiceMissing ==
    /\ proto.pc = "connect" /\ proto.svc \notin Services
    /\ Goto(Processed)
    /\ UNCHANGED <<cacheVars, flowVars>>

(* TryConnectEndpoints writes the request read before, and ProxyConn runs. *)
Connect ==
    /\ proto.pc = "connect" /\ proto.svc \in Services
    /\ outs' = Append(outs, [svc |-> proto.svc, open |-> TRUE,
                             got |-> IF options.protocol = "HTTP" THEN <<proto.req>> ELSE <<>>])
    /\ Goto(Processed)
    /\ UNCHANGED <<cacheVars, closed, inbox, sent, answered>>

ConnectFails ==
    /\ proto.pc = "connect" /\ proto.svc \in Services
    /\ Goto(Processed) /\ CloseConn
    /\ UNCHANGED cacheVars

-----------------------------------------------------------------------------
(* ProxyConn, and the two ends *)

CopyIn(i) ==
    /\ outs[i].open /\ ~closed /\ inbox # <<>>
    /\ outs' = [outs EXCEPT ![i].got = Append(@, Head(inbox))]
    /\ inbox' = Tail(inbox)
    /\ UNCHANGED <<cacheVars, proto, closed, sent, answered>>

(* Mutant: a copy that finds the client's connection closed leaves the     *)
(* backend's open.                                                         *)
OutEnds_NotWhenClosed(i) ==
    /\ outs[i].open /\ ~closed
    /\ outs' = [outs EXCEPT ![i].open = FALSE]
    /\ closed' = TRUE
    /\ UNCHANGED <<cacheVars, proto, inbox, sent, answered>>

(* Either direction ends, by the service or because p.Conn is closed.      *)
OutEnds(i) ==
    /\ outs[i].open
    /\ outs' = [outs EXCEPT ![i].open = FALSE]
    /\ closed' = TRUE
    /\ UNCHANGED <<cacheVars, proto, inbox, sent, answered>>

ServiceAnswers(i) ==
    /\ outs[i].open /\ ~closed /\ answered < sent /\ sent \in Range(outs[i].got)
    /\ answered' = sent
    /\ UNCHANGED <<cacheVars, proto, closed, inbox, sent, outs>>

ClientSends ==
    /\ ~closed /\ sent = answered /\ sent < Len(Requests)
    /\ sent' = sent + 1
    /\ inbox' = Append(inbox, sent + 1)
    /\ UNCHANGED <<cacheVars, proto, closed, answered, outs>>

ClientCloses == ~closed /\ CloseConn /\ UNCHANGED <<cacheVars, proto>>

serve == Accept \/ (\E n \in VsName : newProto(n)) \/ NoMatch
Process == ReadRequest \/ ReadEnds \/ ServiceMissing \/ Connect \/ ConnectFails

ConnNext ==
    \/ \E o \in Obj : \/ \E v \in Versions(o) \cup {None} : Change(o, v)
                      \/ handleAdd(o) \/ handleUpdate(o) \/ StoreUpdate(o) \/ handleDelete(o)
    \/ serve \/ Process
    \/ \E i \in DOMAIN outs : CopyIn(i) \/ OutEnds(i) \/ ServiceAnswers(i)
    \/ ClientSends \/ ClientCloses

ConnSpec == ConnInit /\ [][ConnNext]_connVars

(* The goroutines run; a copy ends once a connection of the pair is closed.*)
FairConnSpec ==
    /\ ConnSpec
    /\ WF_connVars(serve) /\ WF_connVars(Process)
    /\ \A o \in Obj : WF_connVars(handleAdd(o) \/ StoreUpdate(o) \/ handleDelete(o)
                                  \/ (told[o] # objects[o] /\ handleUpdate(o)))
    /\ \A i \in 1..Len(Requests) : WF_connVars(i \in DOMAIN outs /\ closed /\ OutEnds(i))

-----------------------------------------------------------------------------
(* Properties *)

ConnTypeOK ==
    /\ \A o \in Obj : {objects[o], told[o], cache[o]} \subseteq Versions(o) \cup {None}
    /\ storing \subseteq Obj
    /\ proto.pc \in {"new", "proto", "read", "connect", "over"}
    /\ proto.req \in 0..Len(Requests)
    /\ options \in Options
    /\ closed \in BOOLEAN
    /\ \A i \in DOMAIN outs : outs[i].got \in Seq(1..Len(Requests)) /\ outs[i].open \in BOOLEAN
    /\ answered <= sent /\ sent <= Len(Requests)

(* Every request that HTTP.Process itself reads goes to the service its    *)
(* URI has in the virtual service found when the connection was accepted,  *)
(* and only if that allows its host; it is the first one its backend gets. *)
ReadRequestsRouted ==
    options.protocol = "HTTP" => \A i \in DOMAIN outs :
       LET r == Requests[Head(outs[i].got)] IN
       outs[i].svc = proto.vs.route[r.uri] /\ checkHost(proto.vs, r.host)

(* What the comments in HTTP.Process suggest and the code does not do: the *)
(* ProxyConn of the first request may read the second one, so that it      *)
(* reaches a service its URI does not name.                                *)
EachRequestRouted ==
    options.protocol = "HTTP" => \A i \in DOMAIN outs : \A k \in DOMAIN outs[i].got :
       outs[i].svc = proto.vs.route[Requests[outs[i].got[k]].uri]

(* The two readers of a connection share its requests and duplicate none:  *)
(* no request reaches two services, or one service twice.                  *)
NoRequestTwice ==
    \A i, j \in DOMAIN outs : \A k \in DOMAIN outs[i].got, l \in DOMAIN outs[j].got :
       outs[i].got[k] = outs[j].got[l] => i = j /\ k = l

(* A connection is closed or in somebody's hands: of the accept loop, of   *)
(* Process, or of a ProxyConn; the one exception is a TCP connection whose *)
(* service GetServicePortName does not know.                               *)
ConnOwned ==
    \/ closed
    \/ proto.pc # "over"
    \/ \E i \in DOMAIN outs : outs[i].open
    \/ options.protocol = "TCP" /\ proto.svc \notin Services

(* What newProto's comment says and does not hold, because an update is a  *)
(* delete and a store: a connection is refused for want of a virtual       *)
(* service only if none the informer has delivered is bound.               *)
FindsBound ==
    [][(proto.pc = "proto" /\ proto'.pc = "over") => \A n \in VsName : ~Usable(told[n])]_connVars

(* The window of FindsBound is no wider than the handler: a connection is  *)
(* refused although the informer has delivered a virtual service (or a     *)
(* certificate) for it only while an update of each of these is between    *)
(* its delete and its store.                                               *)
RefusedOnlyInUpdate ==
    [][proto'.pc = "over" =>
         /\ proto.pc = "new" /\ told[Secret] = Certificate => Secret \in storing
         /\ proto.pc = "proto" => \A n \in VsName : Usable(told[n]) => n \in storing]_connVars

(* The caches follow the objects: in the end they hold what the API server *)
(* holds, whatever changed while a handler was between its two steps.      *)
CachesFollow == <>[](cache = objects)

(* Closing a client's connection ends all that was opened for it.          *)
OutsEnd == closed ~> proto.pc \in {"new", "over"} /\ \A i \in DOMAIN outs : ~outs[i].open

=============================================================================
