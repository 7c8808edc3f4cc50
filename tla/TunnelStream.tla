----------------------------- MODULE TunnelStream -----------------------------
(***************************************************************************)
(* The streams of the EdgeTunnel (pkg/tunnel/tunnel.go): discovery, proxy  *)
(* and CNI handshakes between the side that opens a stream and the handler *)
(* on the other node, the endpoint the handler dials, and the map from     *)
(* node names to peer IDs that all of them read and write without a lock.  *)
(***************************************************************************)
EXTENDS Naturals, FiniteSets

CONSTANTS
    Agent,         \* nodes in server and client mode
    Gateway,       \* nodes in client mode, which have no handlers
    Session,       \* calls of discovery, GetProxyStream, GetCNIAdapterStream
    Kinds,         \* what they are for: discovery, cni, or a protocol
    DailRetryTime

ASSUME StreamAssumption == Agent \cap Gateway = {} /\ DailRetryTime \in Nat \ {0}

Node == Agent \cup Gateway

VARIABLES
    nodePeerMap,   \* of each node: the names it has a peer ID for
    session,       \* the two ends of each session and the stream between them
    fatal          \* nodes the Go runtime has ended: concurrent map writes

streamVars == <<nodePeerMap, session, fatal>>

(* The peer ID of a node: its key is generated from its name.              *)
PeerIDFromString(name) == <<"key of", name>>

Unused == [kind |-> "none", from |-> "none", to |-> "none", client |-> "unused", handler |-> "none",
           stream |-> "none", request |-> FALSE, response |-> "none", name |-> "none",
           nodeName |-> "none", conn |-> "none", tries |-> 0]

StreamInit ==
    /\ nodePeerMap = [n \in Node |-> {}]
    /\ session = [s \in Session |-> Unused]
    /\ fatal = {}

ClientAt(s, pc) == session[s].client = pc /\ session[s].from \notin fatal
HandlerAt(s, pc) == session[s].handler = pc /\ session[s].to \notin fatal
Known(n, name) == {e \in nodePeerMap[n] : e.name = name}
Update(s, new) == session' = [session EXCEPT ![s] = new]

-----------------------------------------------------------------------------
(* The side that opens a stream *)

(* mDNS or the DHT finds a peer, or a connection asks for a node's stream. *)
Call(s, n, m, kind) ==
    /\ session[s] = Unused /\ n # m /\ n \notin fatal
    /\ kind # "discovery" => m \in Agent
    /\ Update(s, [Unused EXCEPT !.kind = kind, !.from = n, !.to = m,
                     !.client = IF kind = "discovery" THEN "open" ELSE "lookup"])
    /\ UNCHANGED <<nodePeerMap, fatal>>

(* GetProxyStream: a name that is not in the map gets its generated ID.    *)
Lookup(s) ==
    /\ ClientAt(s, "lookup")
    /\ LET n == session[s].from  m == session[s].to IN
       nodePeerMap' = [nodePeerMap EXCEPT ![n] =
           IF Known(n, m) # {} THEN @ ELSE @ \cup {[name |-> m, id |-> PeerIDFromString(m)]}]
    /\ Update(s, [session[s] EXCEPT !.client = "open"])
    /\ UNCHANGED fatal

(* NewStream reaches a node that has a handler for the protocol, and       *)
(* starts it there.                                                        *)
NewStream(s) ==
    /\ ClientAt(s, "open") /\ session[s].to \in Agent \ fatal
    /\ Update(s, [session[s] EXCEPT !.client = "write", !.stream = "open", !.handler = "read"])
    /\ UNCHANGED <<nodePeerMap, fatal>>

NewStreamFails(s) ==
    /\ ClientAt(s, "open")
    /\ Update(s, [session[s] EXCEPT !.client = "failed"])
    /\ UNCHANGED <<nodePeerMap, fatal>>

WriteConnect(s) ==
    /\ ClientAt(s, "write") /\ session[s].stream = "open"
    /\ Update(s, [session[s] EXCEPT !.client = "read", !.request = TRUE, !.name = session[s].from])
    /\ UNCHANGED <<nodePeerMap, fatal>>

(* A write or a read fails: the stream is reset and an error returned.     *)
ClientFails(s) ==
    /\ ClientAt(s, "write") \/ ClientAt(s, "read")
    /\ session[s].stream = "reset"
    /\ Update(s, [session[s] EXCEPT !.client = "failed"])
    /\ UNCHANGED <<nodePeerMap, fatal>>

ReadSuccess(s) ==
    /\ ClientAt(s, "read") /\ session[s].response = "SUCCESS"
    /\ Update(s, [session[s] EXCEPT !.client = IF session[s].kind = "discovery" THEN "map" ELSE "conn"])
    /\ UNCHANGED <<nodePeerMap, fatal>>

ReadFailed(s) ==
    /\ ClientAt(s, "read") /\ session[s].response = "FAILED"
    /\ Update(s, [session[s] EXCEPT !.client = "failed", !.stream = "reset"])
    /\ UNCHANGED <<nodePeerMap, fatal>>

(* discovery's end: the name in the answer gets the peer's ID, and the     *)
(* deferred Reset runs.                                                    *)
ClientMaps(s) ==
    /\ ClientAt(s, "map")
    /\ nodePeerMap' = [nodePeerMap EXCEPT ![session[s].from] =
           (@ \ Known(session[s].from, session[s].name))
           \cup {[name |-> session[s].name, id |-> PeerIDFromString(session[s].to)]}]
    /\ Update(s, [session[s] EXCEPT !.client = "done", !.stream = "reset"])
    /\ UNCHANGED fatal

(* The caller is done with the connection it got.                          *)
CloseConn(s) ==
    /\ ClientAt(s, "conn")
    /\ Update(s, [session[s] EXCEPT !.client = "done", !.stream = "reset"])
    /\ UNCHANGED <<nodePeerMap, fatal>>

-----------------------------------------------------------------------------
(* discoveryStreamHandler, proxyStreamHandler, CNIAdapterStreamHandler *)

HandlerReads(s) ==
    /\ HandlerAt(s, "read") /\ session[s].request
    /\ Update(s, [session[s] EXCEPT !.nodeName = session[s].name,
                     !.handler = IF session[s].kind \in {"discovery", "cni"} THEN "respond" ELSE "dial"])
    /\ UNCHANGED <<nodePeerMap, fatal>>

HandlerReadFails(s) ==
    /\ HandlerAt(s, "read") /\ session[s].stream = "reset"
    /\ Update(s, [session[s] EXCEPT !.handler = "returned"])
    /\ UNCHANGED <<nodePeerMap, fatal>>

DialOk(s) ==
    /\ HandlerAt(s, "dial") /\ session[s].kind \in {"tcp", "udp"}
    /\ Update(s, [session[s] EXCEPT !.handler = "respond", !.conn = "open"])
    /\ UNCHANGED <<nodePeerMap, fatal>>

(* tryDialEndpoint: up to DailRetryTime attempts.                          *)
DialFails(s) ==
    /\ HandlerAt(s, "dial") /\ session[s].kind \in {"tcp", "udp"}
    /\ LET tries == session[s].tries + 1 IN
       Update(s, [session[s] EXCEPT !.tries = tries,
                     !.handler = IF tries = DailRetryTime THEN "refuse" ELSE "dial"])
    /\ UNCHANGED <<nodePeerMap, fatal>>

DialUnsupported(s) ==
    /\ HandlerAt(s, "dial") /\ session[s].kind \notin {"tcp", "udp"}
    /\ Update(s, [session[s] EXCEPT !.handler = "refuse"])
    /\ UNCHANGED <<nodePeerMap, fatal>>

(* Mutant: the handler returns, and the caller is told nothing.            *)
Refuse_Silent(s) ==
    /\ HandlerAt(s, "refuse")
    /\ Update(s, [session[s] EXCEPT !.handler = "returned"])
    /\ UNCHANGED <<nodePeerMap, fatal>>

(* Mutant: the answer's type is not set, and so is not FAILED.             *)
Refuse_NoType(s) ==
    /\ HandlerAt(s, "refuse")
    /\ Update(s, [session[s] EXCEPT !.handler = "returned",
                     !.response = IF session[s].stream = "open" THEN "SUCCESS" ELSE @])
    /\ UNCHANGED <<nodePeerMap, fatal>>

Refuse(s) ==
    /\ HandlerAt(s, "refuse")
    /\ Update(s, [session[s] EXCEPT !.handler = "returned",
                     !.response = IF session[s].stream = "open" THEN "FAILED" ELSE @])
    /\ UNCHANGED <<nodePeerMap, fatal>>

(* Mutant: the message is read after it was turned into the answer.        *)
Respond_Overwrites(s) ==
    /\ HandlerAt(s, "respond")
    /\ Update(s, [session[s] EXCEPT !.name = session[s].to, !.nodeName = session[s].to,
                     !.response = IF session[s].stream = "open" THEN "SUCCESS" ELSE @,
                     !.handler = IF session[s].kind = "discovery" THEN "map" ELSE "pipe"])
    /\ UNCHANGED <<nodePeerMap, fatal>>

(* The answer; into a stream that is gone it may be written all the same.  *)
Respond(s) ==
    /\ HandlerAt(s, "respond")
    /\ Update(s, [session[s] EXCEPT !.name = session[s].to,
                     !.response = IF session[s].stream = "open" THEN "SUCCESS" ELSE @,
                     !.handler = IF session[s].kind = "discovery" THEN "map" ELSE "pipe"])
    /\ UNCHANGED <<nodePeerMap, fatal>>

(* The answer cannot be written: the handler returns, and the connection   *)
(* it has dialled is neither used nor closed.                              *)
RespondFails(s) ==
    /\ HandlerAt(s, "respond") /\ session[s].stream = "reset"
    /\ Update(s, [session[s] EXCEPT !.handler = "returned"])
    /\ UNCHANGED <<nodePeerMap, fatal>>

(* Mutant: the peer of the answer's name, the handler's own, is recorded.  *)
HandlerMaps_Self(s) ==
    /\ HandlerAt(s, "map")
    /\ nodePeerMap' = [nodePeerMap EXCEPT ![session[s].to] =
           (@ \ Known(session[s].to, session[s].name))
           \cup {[name |-> session[s].name, id |-> PeerIDFromString(session[s].to)]}]
    /\ Update(s, [session[s] EXCEPT !.handler = "returned"])
    /\ UNCHANGED fatal

HandlerMaps(s) ==
    /\ HandlerAt(s, "map")
    /\ nodePeerMap' = [nodePeerMap EXCEPT ![session[s].to] =
           (@ \ Known(session[s].to, session[s].nodeName))
           \cup {[name |-> session[s].nodeName, id |-> PeerIDFromString(session[s].from)]}]
    /\ Update(s, [session[s] EXCEPT !.handler = "returned"])
    /\ UNCHANGED fatal

(* go ProxyConn, ProxyConnUDP or DialTun.                                  *)
Pipe(s) ==
    /\ HandlerAt(s, "pipe")
    /\ Update(s, [session[s] EXCEPT !.handler = "returned", !.conn = "piped"])
    /\ UNCHANGED <<nodePeerMap, fatal>>

(* The pipe between stream and endpoint ends, and ends both.               *)
PipeEnds(s) ==
    /\ session[s].conn = "piped" /\ session[s].kind # "cni" /\ session[s].to \notin fatal
    /\ Update(s, [session[s] EXCEPT !.conn = "closed", !.stream = "reset"])
    /\ UNCHANGED <<nodePeerMap, fatal>>

-----------------------------------------------------------------------------
(* The network resets a stream, or the connection below it is lost.        *)
StreamLost(s) ==
    /\ session[s].stream = "open"
    /\ Update(s, [session[s] EXCEPT !.stream = "reset"])
    /\ UNCHANGED <<nodePeerMap, fatal>>

(* Goroutines of a node that are about to use its nodePeerMap.             *)
MapUsers(n) ==
    {s \in Session : (session[s].from = n /\ session[s].client \in {"lookup", "map"})
                     \/ (session[s].to = n /\ session[s].handler = "map")}
Writes(n, s) == session[s].client = "lookup" => Known(n, session[s].to) = {}

(* Two of them at once, one writing: the Go runtime may notice and end the *)
(* process, and its streams and connections with it.                       *)
ConcurrentMapWrites(n) ==
    /\ n \notin fatal /\ Cardinality(MapUsers(n)) > 1
    /\ \E s \in MapUsers(n) : Writes(n, s)
    /\ fatal' = fatal \cup {n}
    /\ session' = [s \in Session |->
          IF n \notin {session[s].from, session[s].to} THEN session[s]
          ELSE [session[s] EXCEPT !.stream = IF @ = "open" THEN "reset" ELSE @,
                                  !.conn = IF session[s].to = n /\ @ # "none" THEN "closed" ELSE @]]
    /\ UNCHANGED nodePeerMap

Client(s) ==
    \/ Lookup(s) \/ NewStream(s) \/ NewStreamFails(s) \/ WriteConnect(s)
    \/ ClientFails(s) \/ ReadSuccess(s) \/ ReadFailed(s) \/ ClientMaps(s)

Handler(s) ==
    \/ HandlerReads(s) \/ HandlerReadFails(s)
    \/ DialOk(s) \/ DialFails(s) \/ DialUnsupported(s) \/ Refuse(s)
    \/ Respond(s) \/ RespondFails(s) \/ HandlerMaps(s) \/ Pipe(s)

StreamNext ==
    \/ \E s \in Session, n, m \in Node, kind \in Kinds : Call(s, n, m, kind)
    \/ \E s \in Session : Client(s) \/ Handler(s) \/ CloseConn(s) \/ PipeEnds(s) \/ StreamLost(s)
    \/ \E n \in Node : ConcurrentMapWrites(n)

StreamSpec == StreamInit /\ [][StreamNext]_streamVars

(* The goroutines of both ends are scheduled; a pipe whose stream is gone  *)
(* notices it. Callers need not come, and nothing need ever fail.          *)
FairStreamSpec ==
    /\ StreamSpec
    /\ \A s \in Session :
          /\ WF_streamVars(Client(s)) /\ WF_streamVars(Handler(s))
          /\ WF_streamVars(session[s].stream = "reset" /\ PipeEnds(s))

-----------------------------------------------------------------------------
(* Properties *)

(* The two ends have the types the functions give them.                    *)
StreamTypeOK ==
    /\ \A n \in Node : \A e \in nodePeerMap[n] : e.name \in Node
    /\ fatal \subseteq Node
    /\ \A s \in Session :
          /\ session[s].kind \in Kinds \cup {"none"} /\ {session[s].from, session[s].to} \subseteq Node \cup {"none"}
          /\ session[s].client \in {"unused", "lookup", "open", "write", "read", "map", "conn", "done", "failed"}
          /\ session[s].handler \in {"none", "read", "dial", "respond", "refuse", "map", "pipe", "returned"}
          /\ session[s].stream \in {"none", "open", "reset"} /\ session[s].tries \in 0..DailRetryTime
          /\ session[s].conn \in {"none", "open", "piped", "closed"}

(* nodePeerMap: whatever discoveries, answers and lookups interleave, a    *)
(* node's name leads to that node's peer, and to one only.                 *)
NamesLeadToPeers ==
    \A n \in Node : \A e \in nodePeerMap[n] : e.id = PeerIDFromString(e.name)

(* GetProxyStream returns a connection only for a stream whose handler has *)
(* dialled the endpoint (or opened the tun device) and pipes or will pipe  *)
(* it.                                                                     *)
ConnIsServed ==
    \A s \in Session : session[s].client = "conn" =>
        \/ session[s].handler = "pipe" /\ (session[s].kind = "cni" \/ session[s].conn = "open")
        \/ session[s].handler = "returned" /\ session[s].conn \in {"piped", "closed"}
        \/ session[s].to \in fatal

(* A session as its caller and as the endpoint see it; discovery is no     *)
(* call. DialTun opens the device of a CNI stream when the answer is out.  *)
CallOf(r) ==
    IF r.kind = "discovery" \/ r.client = "unused" THEN "idle"
    ELSE IF r.client \in {"conn", "failed"} THEN r.client
    ELSE IF r.client = "done" THEN "closed" ELSE "waiting"

LinkOf(r) ==
    IF r.conn = "none" /\ ~(r.kind = "cni" /\ r.handler = "pipe") THEN "none"
    ELSE IF r.conn = "closed" \/ r.to \in fatal THEN "down" ELSE "up"

Dial == INSTANCE RemoteDial WITH
            call <- [s \in Session |-> CallOf(session[s])],
            link <- [s \in Session |-> LinkOf(session[s])]

(* GetProxyStream and GetCNIAdapterStream with their handlers on the other *)
(* node are calls that end once, and never with a connection to an         *)
(* endpoint the other node has not reached, whatever is lost in between.   *)
IsRemoteDial == Dial!DialSpec

(* GetProxyStream, discovery: an error leaves no stream open behind.       *)
FailedIsReset == \A s \in Session : session[s].client = "failed" => session[s].stream # "open"

(* proxyStreamHandler returns with a dialled connection that nothing owns  *)
(* only when the stream was reset before its answer.                       *)
LeakOnlyOnReset ==
    \A s \in Session : session[s].handler = "returned" /\ session[s].conn = "open" => session[s].stream = "reset"

(* GetProxyStream and discovery have no deadline; they return because the  *)
(* handler always answers, or the stream is reset.                         *)
HandshakesEnd ==
    \A s \in Session : session[s].client # "unused" ~>
        session[s].client \in {"conn", "done", "failed"} \/ session[s].from \in fatal

(* discoveryStreamHandler: a peer that was discovered gets to know its     *)
(* discoverer too.                                                         *)
DiscoveryIsMutual ==
    \A s \in Session : session[s].kind = "discovery" /\ session[s].client = "done" ~>
        session[s].to \in fatal \/ (session[s].to \in Node /\ Known(session[s].to, session[s].from) # {})

=============================================================================
