---------------------------- MODULE TunnelProofs ----------------------------
(***************************************************************************)
(* TLAPS proofs about the tunnel module: its streams, for any number of    *)
(* nodes, sessions and retries, and its relay configuration, for any       *)
(* peers, configs, bounds and addresses.                                   *)
(***************************************************************************)
EXTENDS TunnelStream, TunnelRelay, TLAPS

Name == Node \cup {"none"}
Clients == {"unused", "lookup", "open", "write", "read", "map", "conn", "done", "failed"}
Handlers == {"none", "read", "dial", "respond", "refuse", "map", "pipe", "returned"}
Streams == {"none", "open", "reset"}
Responses == {"none", "SUCCESS", "FAILED"}
Conns == {"none", "open", "piped", "closed"}
SessionRec ==
    [kind : Kinds \cup {"none"}, from : Name, to : Name, client : Clients, handler : Handlers,
     stream : Streams, request : BOOLEAN, response : Responses, name : Name, nodeName : Name,
     conn : Conns, tries : Nat]

(* The handler has what a returned connection needs.                       *)
Served(r, dead) ==
    \/ r.handler = "pipe" /\ (r.kind = "cni" \/ r.conn = "open")
    \/ r.handler = "returned" /\ r.conn \in {"piped", "closed"}
    \/ r.to \in dead

(* Where the request, the answer and the dialled connection are, by the    *)
(* places of the two ends.                                                 *)
Good(r, dead) ==
    /\ r.client \in {"unused", "lookup", "open"} => r.stream = "none" /\ r.handler = "none"
    /\ r.client \in {"unused", "lookup", "open", "write"} => r.request = FALSE
    /\ r.request = FALSE => r.handler \in {"none", "read", "returned"}
    /\ r.request = FALSE \/ r.handler = "read" => r.response = "none" /\ r.conn = "none"
    /\ r.handler \in {"dial", "refuse", "respond"} => r.response = "none"
    /\ r.handler \in {"dial", "refuse"} => r.conn = "none"
    /\ r.handler = "respond" /\ r.kind \notin {"discovery", "cni"} => r.conn = "open" \/ r.to \in dead
    /\ r.handler = "pipe" => r.kind # "discovery" /\ (r.kind = "cni" \/ r.conn = "open" \/ r.to \in dead)
    /\ r.handler = "map" \/ r.client = "map" => r.kind = "discovery"
    /\ r.kind = "discovery" \/ (r.kind = "cni" /\ r.handler # "returned") => r.conn = "none"
    /\ r.conn = "piped" => r.handler = "returned"
    /\ r.client = "conn" => r.response = "SUCCESS" /\ r.kind # "discovery"
    /\ r.response = "SUCCESS" /\ r.kind # "discovery" => Served(r, dead)
    /\ r.response = "SUCCESS" /\ r.kind # "discovery" =>
          r.conn # "none" \/ (r.kind = "cni" /\ r.handler = "pipe")
    /\ r.client = "failed" => r.stream # "open"
    /\ r.handler = "returned" /\ r.conn = "open" => r.stream = "reset"

(* Whose name the message and the handler hold.                            *)
Named(r) ==
    /\ r.request = TRUE /\ r.handler = "read" => r.name = r.from
    /\ r.handler \in {"dial", "respond", "refuse", "map", "pipe"} => r.nodeName = r.from
    /\ r.response = "SUCCESS" => r.name = r.to
    /\ r.client = "map" => r.response = "SUCCESS"

IInv ==
    /\ session \in [Session -> SessionRec]
    /\ nodePeerMap = [n \in Node |-> nodePeerMap[n]]
    /\ NamesLeadToPeers
    /\ \A s \in Session : Good(session[s], fatal) /\ Named(session[s])

(* A record with one field set to a value of its type is a session.        *)
LEMMA EachField ==
    ASSUME NEW r \in SessionRec
    PROVE  /\ \A v \in Clients : [r EXCEPT !.client = v] \in SessionRec
           /\ \A v \in Handlers : [r EXCEPT !.handler = v] \in SessionRec
           /\ \A v \in Streams : [r EXCEPT !.stream = v] \in SessionRec
           /\ \A v \in BOOLEAN : [r EXCEPT !.request = v] \in SessionRec
           /\ \A v \in Responses : [r EXCEPT !.response = v] \in SessionRec
           /\ \A v \in Conns : [r EXCEPT !.conn = v] \in SessionRec
           /\ \A v \in Name : [r EXCEPT !.name = v] \in SessionRec
           /\ \A v \in Name : [r EXCEPT !.nodeName = v] \in SessionRec
           /\ \A v \in Nat : [r EXCEPT !.tries = v] \in SessionRec
BY DEF SessionRec

(* A step that gives one session a new, sound record keeps all sound.      *)
LEMMA UpdateKeeps ==
    ASSUME IInv, NEW s \in Session, NEW r \in SessionRec, Update(s, r), fatal' = fatal,
           Good(r, fatal), Named(r)
    PROVE  /\ session' \in [Session -> SessionRec]
           /\ \A t \in Session : Good(session'[t], fatal') /\ Named(session'[t])
<1>1. \A t \in Session : session'[t] = IF t = s THEN r ELSE session[t]
  BY DEF IInv, Update
<1>2. session' \in [Session -> SessionRec]
  BY DEF IInv, Update
<1>3. ASSUME NEW t \in Session PROVE Good(session'[t], fatal') /\ Named(session'[t])
  BY <1>1 DEF IInv
<1> QED BY <1>2, <1>3

(* Initially no session is used and no name known.                         *)
LEMMA InitSound == StreamInit => IInv
<1> SUFFICES ASSUME StreamInit PROVE IInv
  OBVIOUS
<1>1. Unused \in SessionRec
  BY Zenon DEF Unused, SessionRec, Name, Clients, Handlers, Streams, Responses, Conns
<1>2. Good(Unused, fatal) /\ Named(Unused)
  BY DEF Unused, Good, Named, Served
<1> QED BY <1>1, <1>2 DEF StreamInit, IInv, NamesLeadToPeers

(* Recording a peer under its own name keeps the map sound.                *)
LEMMA RecordKeeps ==
    ASSUME IInv, NEW n, NEW m, NEW old,
           nodePeerMap' = [nodePeerMap EXCEPT ![n] = (@ \ old) \cup {[name |-> m, id |-> PeerIDFromString(m)]}]
    PROVE  NamesLeadToPeers' /\ (nodePeerMap = [k \in Node |-> nodePeerMap[k]])'
<1> DEFINE entry == [name |-> m, id |-> PeerIDFromString(m)]
<1>1. entry.id = PeerIDFromString(entry.name)
  OBVIOUS
<1> HIDE DEF entry
<1>2. nodePeerMap' = [nodePeerMap EXCEPT ![n] = (@ \ old) \cup {entry}]
  BY DEF entry
<1>3. nodePeerMap' = [k \in Node |-> nodePeerMap'[k]]
  BY <1>2, Zenon DEF IInv
<1>4. \A k \in Node : \A e \in nodePeerMap'[k] : e \in nodePeerMap[k] \/ e = entry
  BY <1>2, SMTT(20) DEF IInv
<1> QED BY <1>1, <1>3, <1>4 DEF IInv, NamesLeadToPeers

(* Every step of the side that opens a stream keeps the invariant.         *)
LEMMA ClientSound ==
    ASSUME IInv, NEW s \in Session, Client(s) \/ CloseConn(s)
    PROVE  IInv'
<1>a. session[s] \in SessionRec /\ Good(session[s], fatal) /\ Named(session[s])
  BY DEF IInv
<1>1. CASE Lookup(s)
  <2> DEFINE r == [session[s] EXCEPT !.client = "open"]
  <2>1. r \in SessionRec
    BY <1>a, EachField, Zenon DEF Clients
  <2>2. Good(r, fatal) /\ Named(r)
    BY <1>1, <1>a, Zenon DEF Lookup, ClientAt, HandlerAt, SessionRec, Good, Served, Named
  <2>3. Update(s, r) /\ fatal' = fatal
    BY <1>1 DEF Lookup
  <2>4. NamesLeadToPeers' /\ (nodePeerMap = [k \in Node |-> nodePeerMap[k]])'
    <3> DEFINE n == session[s].from  m == session[s].to
    <3>1. CASE Known(n, m) # {}
      <4>1. nodePeerMap' = [nodePeerMap EXCEPT ![n] = @]
        BY <1>1, <3>1 DEF Lookup
      <4>2. nodePeerMap' = nodePeerMap
        BY <4>1 DEF IInv
      <4> QED BY <4>2 DEF IInv, NamesLeadToPeers
    <3>2. CASE Known(n, m) = {}
      <4>1. nodePeerMap' = [nodePeerMap EXCEPT ![n] = (@ \ {}) \cup {[name |-> m, id |-> PeerIDFromString(m)]}]
        BY <1>1, <3>2 DEF Lookup
      <4> QED BY <4>1, RecordKeeps, Zenon
    <3> QED BY <3>1, <3>2
  <2> HIDE DEF r
  <2> QED BY <2>1, <2>2, <2>3, <2>4, UpdateKeeps DEF IInv
<1>2. CASE NewStream(s)
  <2> DEFINE r == [session[s] EXCEPT !.client = "write", !.stream = "open", !.handler = "read"]
  <2>1. r \in SessionRec
    BY <1>a, EachField, Zenon DEF Clients, Handlers, Streams
  <2>2. Good(r, fatal) /\ Named(r)
    BY <1>2, <1>a DEF NewStream, ClientAt, HandlerAt, SessionRec, Good, Served, Named
  <2>3. Update(s, r) /\ fatal' = fatal
    BY <1>2 DEF NewStream
  <2> HIDE DEF r
  <2> QED BY <1>2, <2>1, <2>2, <2>3, UpdateKeeps DEF NewStream, IInv, NamesLeadToPeers
<1>3. CASE NewStreamFails(s)
  <2> DEFINE r == [session[s] EXCEPT !.client = "failed"]
  <2>1. r \in SessionRec
    BY <1>a, EachField, Zenon DEF Clients
  <2>2. Good(r, fatal) /\ Named(r)
    BY <1>3, <1>a DEF NewStreamFails, ClientAt, HandlerAt, SessionRec, Good, Served, Named
  <2>3. Update(s, r) /\ fatal' = fatal
    BY <1>3 DEF NewStreamFails
  <2> HIDE DEF r
  <2> QED BY <1>3, <2>1, <2>2, <2>3, UpdateKeeps, SMTT(20) DEF NewStreamFails, IInv, NamesLeadToPeers
<1>4. CASE WriteConnect(s)
  <2> DEFINE r == [session[s] EXCEPT !.client = "read", !.request = TRUE, !.name = session[s].from]
  <2>0. /\ session[s].name \in Name /\ session[s].to \in Name /\ session[s].from \in Name
        /\ session[s].tries + 1 \in Nat /\ session[s].response \in Responses
    BY <1>a, SMTT(20) DEF SessionRec
  <2>1. r \in SessionRec
    BY <1>a, <2>0, EachField, Zenon DEF Clients
  <2>2. Good(r, fatal) /\ Named(r)
    BY <1>4, <1>a, Zenon DEF WriteConnect, ClientAt, HandlerAt, SessionRec, Good, Served, Named
  <2>3. Update(s, r) /\ fatal' = fatal
    BY <1>4 DEF WriteConnect
  <2> HIDE DEF r
  <2> QED BY <1>4, <2>1, <2>2, <2>3, UpdateKeeps, Zenon DEF WriteConnect, IInv, NamesLeadToPeers
<1>5. CASE ClientFails(s)
  <2> DEFINE r == [session[s] EXCEPT !.client = "failed"]
  <2>1. r \in SessionRec
    BY <1>a, EachField, Zenon DEF Clients
  <2>2. Good(r, fatal) /\ Named(r)
    BY <1>5, <1>a DEF ClientFails, ClientAt, HandlerAt, SessionRec, Good, Served, Named
  <2>3. Update(s, r) /\ fatal' = fatal
    BY <1>5 DEF ClientFails
  <2> HIDE DEF r
  <2> QED BY <1>5, <2>1, <2>2, <2>3, UpdateKeeps, Zenon DEF ClientFails, IInv, NamesLeadToPeers
<1>6. CASE ReadSuccess(s)
  <2> DEFINE r == [session[s] EXCEPT !.client = IF session[s].kind = "discovery" THEN "map" ELSE "conn"]
  <2>1. r \in SessionRec
    BY <1>a, EachField, Zenon DEF Clients
  <2>2. Good(r, fatal) /\ Named(r)
    BY <1>6, <1>a DEF ReadSuccess, ClientAt, HandlerAt, SessionRec, Good, Served, Named
  <2>3. Update(s, r) /\ fatal' = fatal
    BY <1>6 DEF ReadSuccess
  <2> HIDE DEF r
  <2> QED BY <1>6, <2>1, <2>2, <2>3, UpdateKeeps, SMTT(20) DEF ReadSuccess, IInv, NamesLeadToPeers
<1>7. CASE ReadFailed(s)
  <2> DEFINE r == [session[s] EXCEPT !.client = "failed", !.stream = "reset"]
  <2>1. r \in SessionRec
    BY <1>a, EachField, Zenon DEF Clients, Streams
  <2>2. Good(r, fatal) /\ Named(r)
    BY <1>7, <1>a DEF ReadFailed, ClientAt, HandlerAt, SessionRec, Good, Served, Named
  <2>3. Update(s, r) /\ fatal' = fatal
    BY <1>7, SMTT(20) DEF ReadFailed
  <2> HIDE DEF r
  <2> QED BY <1>7, <2>1, <2>2, <2>3, UpdateKeeps, SMTT(20) DEF ReadFailed, IInv, NamesLeadToPeers
<1>8. CASE ClientMaps(s)
  <2> DEFINE r == [session[s] EXCEPT !.client = "done", !.stream = "reset"]
  <2>1. r \in SessionRec
    BY <1>a, EachField, Zenon DEF Clients, Streams
  <2>2. Good(r, fatal) /\ Named(r)
    BY <1>8, <1>a, Zenon DEF ClientMaps, ClientAt, HandlerAt, SessionRec, Good, Served, Named
  <2>3. Update(s, r) /\ fatal' = fatal
    BY <1>8 DEF ClientMaps
  <2>4. NamesLeadToPeers' /\ (nodePeerMap = [k \in Node |-> nodePeerMap[k]])'
    <3>1. session[s].name = session[s].to
      BY <1>8, <1>a DEF ClientMaps, ClientAt, Named
    <3> QED BY <1>8, <3>1, RecordKeeps, Zenon DEF ClientMaps
  <2> HIDE DEF r
  <2> QED BY <2>1, <2>2, <2>3, <2>4, UpdateKeeps DEF IInv
<1>9. CASE CloseConn(s)
  <2> DEFINE r == [session[s] EXCEPT !.client = "done", !.stream = "reset"]
  <2>1. r \in SessionRec
    BY <1>a, EachField, Zenon DEF Clients, Streams
  <2>2. Good(r, fatal) /\ Named(r)
    BY <1>9, <1>a, ZenonT(30) DEF CloseConn, ClientAt, HandlerAt, SessionRec, Good, Served, Named
  <2>3. Update(s, r) /\ fatal' = fatal
    BY <1>9 DEF CloseConn
  <2> HIDE DEF r
  <2> QED BY <1>9, <2>1, <2>2, <2>3, UpdateKeeps, Zenon DEF CloseConn, IInv, NamesLeadToPeers
<1> QED BY <1>1, <1>2, <1>3, <1>4, <1>5, <1>6, <1>7, <1>8, <1>9, ZenonT(30) DEF Client

(* Every step of a stream handler, of its pipe and of the network does.    *)
LEMMA HandlerSound ==
    ASSUME IInv, NEW s \in Session, Handler(s) \/ PipeEnds(s) \/ StreamLost(s)
    PROVE  IInv'
<1>a. session[s] \in SessionRec /\ Good(session[s], fatal) /\ Named(session[s])
  BY DEF IInv
<1>1. CASE HandlerReads(s)
  <2> DEFINE r == [session[s] EXCEPT !.nodeName = session[s].name,
                     !.handler = IF session[s].kind \in {"discovery", "cni"} THEN "respond" ELSE "dial"]
  <2>0. /\ session[s].name \in Name /\ session[s].to \in Name /\ session[s].from \in Name
        /\ session[s].tries + 1 \in Nat /\ session[s].response \in Responses
    BY <1>a, SMTT(20) DEF SessionRec
  <2>1. r \in SessionRec
    BY <1>a, <2>0, EachField, Zenon DEF Handlers
  <2>2. Good(r, fatal) /\ Named(r)
    BY <1>1, <1>a DEF HandlerReads, ClientAt, HandlerAt, SessionRec, Good, Served, Named
  <2>3. Update(s, r) /\ fatal' = fatal
    BY <1>1, Zenon DEF HandlerReads
  <2> HIDE DEF r
  <2> QED BY <1>1, <2>1, <2>2, <2>3, UpdateKeeps, Zenon DEF HandlerReads, IInv, NamesLeadToPeers
<1>2. CASE HandlerReadFails(s)
  <2> DEFINE r == [session[s] EXCEPT !.handler = "returned"]
  <2>1. r \in SessionRec
    BY <1>a, EachField, Zenon DEF Handlers
  <2>2. Good(r, fatal) /\ Named(r)
    BY <1>2, <1>a DEF HandlerReadFails, ClientAt, HandlerAt, SessionRec, Good, Served, Named
  <2>3. Update(s, r) /\ fatal' = fatal
    BY <1>2 DEF HandlerReadFails
  <2> HIDE DEF r
  <2> QED BY <1>2, <2>1, <2>2, <2>3, UpdateKeeps DEF HandlerReadFails, IInv, NamesLeadToPeers
<1>3. CASE DialOk(s)
  <2> DEFINE r == [session[s] EXCEPT !.handler = "respond", !.conn = "open"]
  <2>1. r \in SessionRec
    BY <1>a, EachField, Zenon DEF Handlers, Conns
  <2>2. Good(r, fatal) /\ Named(r)
    BY <1>3, <1>a DEF DialOk, ClientAt, HandlerAt, SessionRec, Good, Served, Named
  <2>3. Update(s, r) /\ fatal' = fatal
    BY <1>3 DEF DialOk
  <2> HIDE DEF r
  <2> QED BY <1>3, <2>1, <2>2, <2>3, UpdateKeeps DEF DialOk, IInv, NamesLeadToPeers
<1>4. CASE DialFails(s)
  <2> DEFINE r == [session[s] EXCEPT !.tries = session[s].tries + 1,
                     !.handler = IF session[s].tries + 1 = DailRetryTime THEN "refuse" ELSE "dial"]
  <2>0. /\ session[s].name \in Name /\ session[s].to \in Name /\ session[s].from \in Name
        /\ session[s].tries + 1 \in Nat /\ session[s].response \in Responses
    BY <1>a DEF SessionRec
  <2>1. r \in SessionRec
    BY <1>a, <2>0, EachField, Zenon DEF Handlers
  <2>2. Good(r, fatal) /\ Named(r)
    BY <1>4, <1>a DEF DialFails, ClientAt, HandlerAt, SessionRec, Good, Served, Named
  <2>3. Update(s, r) /\ fatal' = fatal
    BY <1>4 DEF DialFails
  <2> HIDE DEF r
  <2> QED BY <1>4, <2>1, <2>2, <2>3, UpdateKeeps, Zenon DEF DialFails, IInv, NamesLeadToPeers
<1>5. CASE DialUnsupported(s)
  <2> DEFINE r == [session[s] EXCEPT !.handler = "refuse"]
  <2>1. r \in SessionRec
    BY <1>a, EachField, Zenon DEF Handlers
  <2>2. Good(r, fatal) /\ Named(r)
    BY <1>5, <1>a DEF DialUnsupported, ClientAt, HandlerAt, SessionRec, Good, Served, Named
  <2>3. Update(s, r) /\ fatal' = fatal
    BY <1>5 DEF DialUnsupported
  <2> HIDE DEF r
  <2> QED BY <1>5, <2>1, <2>2, <2>3, UpdateKeeps DEF DialUnsupported, IInv, NamesLeadToPeers
<1>6. CASE Refuse(s)
  <2> DEFINE r == [session[s] EXCEPT !.handler = "returned",
                     !.response = IF session[s].stream = "open" THEN "FAILED" ELSE @]
  <2>0. /\ session[s].name \in Name /\ session[s].to \in Name /\ session[s].from \in Name
        /\ session[s].tries + 1 \in Nat /\ session[s].response \in Responses
    BY <1>a DEF SessionRec
  <2>1. r \in SessionRec
    BY <1>a, <2>0, EachField, Zenon DEF Handlers, Responses
  <2>2. Good(r, fatal) /\ Named(r)
    BY <1>6, <1>a DEF Refuse, ClientAt, HandlerAt, SessionRec, Good, Served, Named
  <2>3. Update(s, r) /\ fatal' = fatal
    BY <1>6 DEF Refuse
  <2> HIDE DEF r
  <2> QED BY <1>6, <2>1, <2>2, <2>3, UpdateKeeps DEF Refuse, IInv, NamesLeadToPeers
<1>7. CASE Respond(s)
  <2> DEFINE r == [session[s] EXCEPT !.name = session[s].to,
                     !.response = IF session[s].stream = "open" THEN "SUCCESS" ELSE @,
                     !.handler = IF session[s].kind = "discovery" THEN "map" ELSE "pipe"]
  <2>0. /\ session[s].name \in Name /\ session[s].to \in Name /\ session[s].from \in Name
        /\ session[s].tries + 1 \in Nat /\ session[s].response \in Responses
    BY <1>a DEF SessionRec
  <2>1. r \in SessionRec
    BY <1>a, <2>0, EachField, ZenonT(30) DEF Handlers, Responses
  <2>2. Good(r, fatal) /\ Named(r)
    BY <1>7, <1>a DEF Respond, ClientAt, HandlerAt, SessionRec, Good, Served, Named
  <2>3. Update(s, r) /\ fatal' = fatal
    BY <1>7 DEF Respond
  <2> HIDE DEF r
  <2> QED BY <1>7, <2>1, <2>2, <2>3, UpdateKeeps, SMTT(20) DEF Respond, IInv, NamesLeadToPeers
<1>8. CASE RespondFails(s)
  <2> DEFINE r == [session[s] EXCEPT !.handler = "returned"]
  <2>1. r \in SessionRec
    BY <1>a, EachField, Zenon DEF Handlers
  <2>2. Good(r, fatal) /\ Named(r)
    BY <1>8, <1>a DEF RespondFails, ClientAt, HandlerAt, SessionRec, Good, Served, Named
  <2>3. Update(s, r) /\ fatal' = fatal
    BY <1>8, Zenon DEF RespondFails
  <2> HIDE DEF r
  <2> QED BY <1>8, <2>1, <2>2, <2>3, UpdateKeeps, ZenonT(30) DEF RespondFails, IInv, NamesLeadToPeers
<1>9. CASE HandlerMaps(s)
  <2> DEFINE r == [session[s] EXCEPT !.handler = "returned"]
  <2>1. r \in SessionRec
    BY <1>a, EachField, Zenon DEF Handlers
  <2>2. Good(r, fatal) /\ Named(r)
    BY <1>9, <1>a DEF HandlerMaps, ClientAt, HandlerAt, SessionRec, Good, Served, Named
  <2>3. Update(s, r) /\ fatal' = fatal
    BY <1>9 DEF HandlerMaps
  <2>4. NamesLeadToPeers' /\ (nodePeerMap = [k \in Node |-> nodePeerMap[k]])'
    <3>1. session[s].nodeName = session[s].from
      BY <1>9, <1>a DEF HandlerMaps, HandlerAt, Named
    <3> QED BY <1>9, <3>1, RecordKeeps, Zenon DEF HandlerMaps
  <2> HIDE DEF r
  <2> QED BY <2>1, <2>2, <2>3, <2>4, UpdateKeeps, Zenon DEF IInv
<1>10. CASE Pipe(s)
  <2> DEFINE r == [session[s] EXCEPT !.handler = "returned", !.conn = "piped"]
  <2>1. r \in SessionRec
    BY <1>a, EachField, Zenon DEF Handlers, Conns
  <2>2. Good(r, fatal) /\ Named(r)
    BY <1>10, <1>a DEF Pipe, ClientAt, HandlerAt, SessionRec, Good, Served, Named
  <2>3. Update(s, r) /\ fatal' = fatal
    BY <1>10 DEF Pipe
  <2> HIDE DEF r
  <2> QED BY <1>10, <2>1, <2>2, <2>3, UpdateKeeps DEF Pipe, IInv, NamesLeadToPeers
<1>11. CASE PipeEnds(s)
  <2> DEFINE r == [session[s] EXCEPT !.conn = "closed", !.stream = "reset"]
  <2>1. r \in SessionRec
    BY <1>a, EachField, Zenon DEF Streams, Conns
  <2>2. Good(r, fatal) /\ Named(r)
    BY <1>11, <1>a, Zenon DEF PipeEnds, ClientAt, HandlerAt, SessionRec, Good, Served, Named
  <2>3. Update(s, r) /\ fatal' = fatal
    BY <1>11 DEF PipeEnds
  <2> HIDE DEF r
  <2> QED BY <1>11, <2>1, <2>2, <2>3, UpdateKeeps, SMTT(20) DEF PipeEnds, IInv, NamesLeadToPeers
<1>12. CASE StreamLost(s)
  <2> DEFINE r == [session[s] EXCEPT !.stream = "reset"]
  <2>1. r \in SessionRec
    BY <1>a, EachField, Zenon DEF Streams
  <2>2. Good(r, fatal) /\ Named(r)
    BY <1>12, <1>a, ZenonT(30) DEF StreamLost, ClientAt, HandlerAt, SessionRec, Good, Served, Named
  <2>3. Update(s, r) /\ fatal' = fatal
    BY <1>12 DEF StreamLost
  <2> HIDE DEF r
  <2> QED BY <1>12, <2>1, <2>2, <2>3, UpdateKeeps DEF StreamLost, IInv, NamesLeadToPeers
<1> QED BY <1>1, <1>2, <1>3, <1>4, <1>5, <1>6, <1>7, <1>8, <1>9, <1>10, <1>11, <1>12 DEF Handler

(* A session begins.                                                       *)
LEMMA CallSound ==
    ASSUME IInv, NEW s \in Session, NEW n \in Node, NEW m \in Node, NEW kind \in Kinds,
           Call(s, n, m, kind)
    PROVE  IInv'
<1> DEFINE r == [Unused EXCEPT !.kind = kind, !.from = n, !.to = m,
                     !.client = IF kind = "discovery" THEN "open" ELSE "lookup"]
<1>1. r \in SessionRec
  BY Zenon DEF Unused, SessionRec, Name, Clients, Handlers, Streams, Responses, Conns
<1>2. Good(r, fatal) /\ Named(r)
  BY DEF Unused, Good, Named, Served
<1>3. Update(s, r) /\ fatal' = fatal
  BY DEF Call
<1> HIDE DEF r
<1> QED BY <1>1, <1>2, <1>3, UpdateKeeps DEF Call, IInv, NamesLeadToPeers

(* The runtime ends a node: its streams are reset, its connections closed. *)
LEMMA FatalSound ==
    ASSUME IInv, NEW n \in Node, ConcurrentMapWrites(n)
    PROVE  IInv'
<1>1. ASSUME NEW s \in Session
      PROVE  session'[s] \in SessionRec /\ Good(session'[s], fatal') /\ Named(session'[s])
  <2> DEFINE r == session[s]
             q == [r EXCEPT !.stream = IF @ = "open" THEN "reset" ELSE @,
                            !.conn = IF r.to = n /\ @ # "none" THEN "closed" ELSE @]
  <2>1. r \in SessionRec /\ Good(r, fatal) /\ Named(r)
    BY SMTT(20) DEF IInv
  <2>2. fatal' = fatal \cup {n} /\ session'[s] = IF n \notin {r.from, r.to} THEN r ELSE q
    BY Zenon DEF ConcurrentMapWrites
  <2>3. q \in SessionRec
    <3>1. r.stream \in Streams /\ r.conn \in Conns
      BY <2>1 DEF SessionRec
    <3> QED BY <2>1, <3>1, EachField, Zenon DEF Streams, Conns
  <2>4. Named(q)
    BY <2>1 DEF SessionRec, Named
  <2>5. Good(r, fatal')
    BY <2>1, <2>2, Zenon DEF Good, Served
  <2>6. Good(q, fatal')
    <3>1. /\ q.kind = r.kind /\ q.to = r.to /\ q.client = r.client /\ q.handler = r.handler
          /\ q.request = r.request /\ q.response = r.response
      BY <2>1 DEF SessionRec
    <3>2. /\ q.stream = r.stream \/ q.stream = "reset"
          /\ q.stream # "open"
          /\ r.stream = "none" => q.stream = "none"
      BY <2>1 DEF SessionRec
    <3>3. /\ r.to # n \/ r.conn = "none" => q.conn = r.conn
          /\ r.to = n /\ r.conn # "none" => q.conn = "closed"
      BY <2>1 DEF SessionRec
    <3>4. n \in fatal' /\ \A x \in fatal : x \in fatal'
      BY <2>2
    <3> HIDE DEF q
    <3> QED
      BY <2>1, <3>1, <3>2, <3>3, <3>4, ZenonT(30) DEF Good, Served
  <2> QED BY <2>1, <2>2, <2>3, <2>4, <2>5, <2>6, Zenon
<1>2. session' \in [Session -> SessionRec]
  BY <1>1, Zenon DEF ConcurrentMapWrites
<1> QED BY <1>1, <1>2, Zenon DEF ConcurrentMapWrites, IInv, NamesLeadToPeers

(* IInv is an inductive invariant of the streams.                          *)
THEOREM StreamsSound == StreamSpec => []IInv
<1>1. IInv /\ [StreamNext]_streamVars => IInv'
  <2> SUFFICES ASSUME IInv, [StreamNext]_streamVars PROVE IInv'
    OBVIOUS
  <2>1. CASE StreamNext
    BY <2>1, CallSound, ClientSound, HandlerSound, FatalSound DEF StreamNext
  <2>2. CASE UNCHANGED streamVars
    BY <2>2 DEF streamVars, IInv, NamesLeadToPeers
  <2> QED BY <2>1, <2>2
<1> QED BY InitSound, <1>1, PTL DEF StreamSpec

(* nodePeerMap: for any number of nodes and sessions, a name leads to the  *)
(* peer of that node, on every node, however discovery, its answers and    *)
(* GetProxyStream's lookups interleave.                                    *)
THEOREM NamesAlwaysLead == StreamSpec => []NamesLeadToPeers
<1>1. IInv => NamesLeadToPeers
  BY Zenon DEF IInv
<1> QED BY StreamsSound, <1>1, PTL

(* GetProxyStream: a connection that is returned has a handler that dialled*)
(* its endpoint and pipes it.                                              *)
THEOREM ConnAlwaysServed == StreamSpec => []ConnIsServed
<1>1. IInv => ConnIsServed
  BY Zenon DEF IInv, ConnIsServed, Good, Served
<1> QED BY StreamsSound, <1>1, PTL

(* GetProxyStream, discovery: an error never leaves an open stream.        *)
THEOREM FailedAlwaysReset == StreamSpec => []FailedIsReset
<1>1. IInv => FailedIsReset
  BY Zenon DEF IInv, FailedIsReset, Good
<1> QED BY StreamsSound, <1>1, PTL

(* proxyStreamHandler: a dialled connection is abandoned only when the     *)
(* stream was reset before the answer.                                     *)
THEOREM LeaksOnlyOnReset == StreamSpec => []LeakOnlyOnReset
<1>1. IInv => LeakOnlyOnReset
  BY Zenon DEF IInv, LeakOnlyOnReset, Good
<1> QED BY StreamsSound, <1>1, PTL

-----------------------------------------------------------------------------
(* The refinement of RemoteDial *)

(* What a step may make of one session, as its caller sees it: a step of   *)
(* RemoteDial, or none.                                                    *)
Legal(a, r) ==
    \/ CallOf(r) = CallOf(a) /\ LinkOf(r) = LinkOf(a)
    \/ CallOf(a) = "idle" /\ CallOf(r) = "waiting" /\ LinkOf(r) = LinkOf(a)
    \/ CallOf(a) # "idle" /\ CallOf(r) = CallOf(a) /\ LinkOf(a) = "none" /\ LinkOf(r) = "up"
    \/ CallOf(a) = "waiting" /\ CallOf(r) = "conn" /\ LinkOf(a) # "none" /\ LinkOf(r) = LinkOf(a)
    \/ CallOf(a) = "waiting" /\ CallOf(r) = "failed" /\ LinkOf(r) = LinkOf(a)
    \/ CallOf(a) = "conn" /\ CallOf(r) = "closed" /\ LinkOf(r) = LinkOf(a)
    \/ CallOf(r) = CallOf(a) /\ LinkOf(a) = "up" /\ LinkOf(r) = "down"

LEMMA LegalSteps ==
    ASSUME IInv, NEW s \in Session, NEW r, Update(s, r), fatal' = fatal, Legal(session[s], r)
    PROVE  [Dial!DialNext]_(Dial!dialVars)
<1> DEFINE a == session[s]
           call == [t \in Session |-> CallOf(session[t])]
           link == [t \in Session |-> LinkOf(session[t])]
<1>1. \A t \in Session : session'[t] = IF t = s THEN r ELSE session[t]
  BY DEF IInv, Update
<1>2. call' = [call EXCEPT ![s] = CallOf(r)]
  BY <1>1, Zenon DEF CallOf
<1>3. link' = [link EXCEPT ![s] = LinkOf(r)]
  <2>1. ASSUME NEW t \in Session
        PROVE  LinkOf(session[t])' = IF t = s THEN LinkOf(r) ELSE LinkOf(session[t])
    BY <1>1 DEF LinkOf
  <2>2. link' = [t \in Session |-> IF t = s THEN LinkOf(r) ELSE LinkOf(session[t])]
    BY <2>1
  <2> QED
    BY <2>2, Zenon
<1>4. call[s] = CallOf(a) /\ link[s] = LinkOf(a)
  OBVIOUS
<1>5. (CallOf(r) = CallOf(a) => call' = call) /\ (LinkOf(r) = LinkOf(a) => link' = link)
  BY <1>2, <1>3, Zenon
<1> HIDE DEF a, call, link
<1>6. CASE CallOf(r) = CallOf(a) /\ LinkOf(r) = LinkOf(a)
  BY <1>5, <1>6 DEF Dial!dialVars, call, link
<1>7. CASE CallOf(a) = "idle" /\ CallOf(r) = "waiting" /\ LinkOf(r) = LinkOf(a)
  BY <1>2, <1>4, <1>5, <1>7, Zenon DEF Dial!DialNext, Dial!Begin, Dial!Moves, call, link
<1>8. CASE CallOf(a) # "idle" /\ CallOf(r) = CallOf(a) /\ LinkOf(a) = "none" /\ LinkOf(r) = "up"
  BY <1>3, <1>4, <1>5, <1>8, Zenon DEF Dial!DialNext, Dial!Reach, call, link
<1>9. CASE CallOf(a) = "waiting" /\ CallOf(r) = "conn" /\ LinkOf(a) # "none" /\ LinkOf(r) = LinkOf(a)
  BY <1>2, <1>4, <1>5, <1>9, Zenon DEF Dial!DialNext, Dial!Return, Dial!Moves, call, link
<1>10. CASE CallOf(a) = "waiting" /\ CallOf(r) = "failed" /\ LinkOf(r) = LinkOf(a)
  BY <1>2, <1>4, <1>5, <1>10, Zenon DEF Dial!DialNext, Dial!Fail, Dial!Moves, call, link
<1>11. CASE CallOf(a) = "conn" /\ CallOf(r) = "closed" /\ LinkOf(r) = LinkOf(a)
  BY <1>2, <1>4, <1>5, <1>11, Zenon DEF Dial!DialNext, Dial!Close, Dial!Moves, call, link
<1>12. CASE CallOf(r) = CallOf(a) /\ LinkOf(a) = "up" /\ LinkOf(r) = "down"
  <2>1. link' = [t \in Session |-> IF t \in {s} /\ link[t] = "up" THEN "down" ELSE link[t]]
    BY <1>3, <1>4, <1>12, Zenon DEF link
  <2>2. Dial!Drop({s})
    BY <1>5, <1>12, <2>1, Zenon DEF Dial!Drop, call, link
  <2> QED
    BY <2>2 DEF Dial!DialNext
<1> QED
  BY <1>6, <1>7, <1>8, <1>9, <1>10, <1>11, <1>12 DEF Legal, a

(* The steps of a session are legal: the caller's, ...                     *)
LEMMA ClientLegal ==
    ASSUME IInv, NEW s \in Session, Client(s) \/ CloseConn(s)
    PROVE  [Dial!DialNext]_(Dial!dialVars)
<1>a. session[s] \in SessionRec /\ Good(session[s], fatal)
  BY DEF IInv
<1>1. CASE Lookup(s)
  <2> DEFINE r == [session[s] EXCEPT !.client = "open"]
  <2>1. Update(s, r) /\ fatal' = fatal
    BY <1>1 DEF Lookup
  <2>2. Legal(session[s], r)
    BY <1>1, <1>a, Zenon DEF Lookup, ClientAt, HandlerAt, SessionRec, Good, Legal, CallOf, LinkOf
  <2> HIDE DEF r
  <2> QED BY <2>1, <2>2, LegalSteps, Zenon
<1>2. CASE NewStream(s)
  <2> DEFINE r == [session[s] EXCEPT !.client = "write", !.stream = "open", !.handler = "read"]
  <2>1. Update(s, r) /\ fatal' = fatal
    BY <1>2 DEF NewStream
  <2>2. Legal(session[s], r)
    BY <1>2, <1>a, Zenon DEF NewStream, ClientAt, HandlerAt, SessionRec, Good, Legal, CallOf, LinkOf
  <2> HIDE DEF r
  <2> QED BY <2>1, <2>2, LegalSteps
<1>3. CASE NewStreamFails(s)
  <2> DEFINE r == [session[s] EXCEPT !.client = "failed"]
  <2>1. Update(s, r) /\ fatal' = fatal
    BY <1>3 DEF NewStreamFails
  <2>2. Legal(session[s], r)
    BY <1>3, <1>a, Zenon DEF NewStreamFails, ClientAt, HandlerAt, SessionRec, Good, Legal, CallOf, LinkOf
  <2> HIDE DEF r
  <2> QED BY <2>1, <2>2, LegalSteps
<1>4. CASE WriteConnect(s)
  <2> DEFINE r == [session[s] EXCEPT !.client = "read", !.request = TRUE, !.name = session[s].from]
  <2>1. Update(s, r) /\ fatal' = fatal
    BY <1>4 DEF WriteConnect
  <2>2. Legal(session[s], r)
    BY <1>4, <1>a, Zenon DEF WriteConnect, ClientAt, HandlerAt, SessionRec, Good, Legal, CallOf, LinkOf
  <2> HIDE DEF r
  <2> QED BY <2>1, <2>2, LegalSteps
<1>5. CASE ClientFails(s)
  <2> DEFINE r == [session[s] EXCEPT !.client = "failed"]
  <2>1. Update(s, r) /\ fatal' = fatal
    BY <1>5 DEF ClientFails
  <2>2. Legal(session[s], r)
    BY <1>5, <1>a DEF ClientFails, ClientAt, HandlerAt, SessionRec, Good, Legal, CallOf, LinkOf
  <2> HIDE DEF r
  <2> QED BY <2>1, <2>2, LegalSteps
<1>6. CASE ReadSuccess(s)
  <2> DEFINE r == [session[s] EXCEPT !.client = IF session[s].kind = "discovery" THEN "map" ELSE "conn"]
  <2>1. Update(s, r) /\ fatal' = fatal
    BY <1>6 DEF ReadSuccess
  <2>2. Legal(session[s], r)
    BY <1>6, <1>a, Zenon DEF ReadSuccess, ClientAt, HandlerAt, SessionRec, Good, Legal, CallOf, LinkOf
  <2> HIDE DEF r
  <2> QED BY <2>1, <2>2, LegalSteps
<1>7. CASE ReadFailed(s)
  <2> DEFINE r == [session[s] EXCEPT !.client = "failed", !.stream = "reset"]
  <2>1. Update(s, r) /\ fatal' = fatal
    BY <1>7 DEF ReadFailed
  <2>2. Legal(session[s], r)
    BY <1>7, <1>a, SMTT(20) DEF ReadFailed, ClientAt, HandlerAt, SessionRec, Good, Legal, CallOf, LinkOf
  <2> HIDE DEF r
  <2> QED BY <2>1, <2>2, LegalSteps
<1>8. CASE ClientMaps(s)
  <2> DEFINE r == [session[s] EXCEPT !.client = "done", !.stream = "reset"]
  <2>1. Update(s, r) /\ fatal' = fatal
    BY <1>8 DEF ClientMaps
  <2>2. Legal(session[s], r)
    BY <1>8, <1>a, Zenon DEF ClientMaps, ClientAt, HandlerAt, SessionRec, Good, Legal, CallOf, LinkOf
  <2> HIDE DEF r
  <2> QED BY <2>1, <2>2, LegalSteps
<1>9. CASE CloseConn(s)
  <2> DEFINE r == [session[s] EXCEPT !.client = "done", !.stream = "reset"]
  <2>1. Update(s, r) /\ fatal' = fatal
    BY <1>9 DEF CloseConn
  <2>2. Legal(session[s], r)
    BY <1>9, <1>a DEF CloseConn, ClientAt, HandlerAt, SessionRec, Good, Legal, CallOf, LinkOf
  <2> HIDE DEF r
  <2> QED BY <2>1, <2>2, LegalSteps
<1> QED BY <1>1, <1>2, <1>3, <1>4, <1>5, <1>6, <1>7, <1>8, <1>9 DEF Client

(* ... the handler's, its pipe's and the network's.                        *)
LEMMA HandlerLegal ==
    ASSUME IInv, NEW s \in Session, Handler(s) \/ PipeEnds(s) \/ StreamLost(s)
    PROVE  [Dial!DialNext]_(Dial!dialVars)
<1>a. session[s] \in SessionRec /\ Good(session[s], fatal)
  BY DEF IInv
<1>1. CASE HandlerReads(s)
  <2> DEFINE r == [session[s] EXCEPT !.nodeName = session[s].name,
                     !.handler = IF session[s].kind \in {"discovery", "cni"} THEN "respond" ELSE "dial"]
  <2>1. Update(s, r) /\ fatal' = fatal
    BY <1>1 DEF HandlerReads
  <2>2. Legal(session[s], r)
    BY <1>1, <1>a, Zenon DEF HandlerReads, ClientAt, HandlerAt, SessionRec, Good, Legal, CallOf, LinkOf
  <2> HIDE DEF r
  <2> QED BY <2>1, <2>2, LegalSteps, Zenon
<1>2. CASE HandlerReadFails(s)
  <2> DEFINE r == [session[s] EXCEPT !.handler = "returned"]
  <2>1. Update(s, r) /\ fatal' = fatal
    BY <1>2 DEF HandlerReadFails
  <2>2. Legal(session[s], r)
    BY <1>2, <1>a, Zenon DEF HandlerReadFails, ClientAt, HandlerAt, SessionRec, Good, Legal, CallOf, LinkOf
  <2> HIDE DEF r
  <2> QED BY <2>1, <2>2, LegalSteps
<1>3. CASE DialOk(s)
  <2> DEFINE r == [session[s] EXCEPT !.handler = "respond", !.conn = "open"]
  <2>1. Update(s, r) /\ fatal' = fatal
    BY <1>3 DEF DialOk
  <2>2. Legal(session[s], r)
    BY <1>3, <1>a, Zenon DEF DialOk, ClientAt, HandlerAt, SessionRec, Good, Legal, CallOf, LinkOf
  <2> HIDE DEF r
  <2> QED BY <2>1, <2>2, LegalSteps
<1>4. CASE DialFails(s)
  <2> DEFINE r == [session[s] EXCEPT !.tries = session[s].tries + 1,
                     !.handler = IF session[s].tries + 1 = DailRetryTime THEN "refuse" ELSE "dial"]
  <2>1. Update(s, r) /\ fatal' = fatal
    BY <1>4 DEF DialFails
  <2>2. Legal(session[s], r)
    BY <1>4, <1>a, Zenon DEF DialFails, ClientAt, HandlerAt, SessionRec, Good, Legal, CallOf, LinkOf
  <2> HIDE DEF r
  <2> QED BY <2>1, <2>2, LegalSteps
<1>5. CASE DialUnsupported(s)
  <2> DEFINE r == [session[s] EXCEPT !.handler = "refuse"]
  <2>1. Update(s, r) /\ fatal' = fatal
    BY <1>5 DEF DialUnsupported
  <2>2. Legal(session[s], r)
    BY <1>5, <1>a, Zenon DEF DialUnsupported, ClientAt, HandlerAt, SessionRec, Good, Legal, CallOf, LinkOf
  <2> HIDE DEF r
  <2> QED BY <2>1, <2>2, LegalSteps
<1>6. CASE Refuse(s)
  <2> DEFINE r == [session[s] EXCEPT !.handler = "returned",
                     !.response = IF session[s].stream = "open" THEN "FAILED" ELSE @]
  <2>1. Update(s, r) /\ fatal' = fatal
    BY <1>6 DEF Refuse
  <2>2. Legal(session[s], r)
    BY <1>6, <1>a, Zenon DEF Refuse, ClientAt, HandlerAt, SessionRec, Good, Legal, CallOf, LinkOf
  <2> HIDE DEF r
  <2> QED BY <2>1, <2>2, LegalSteps
<1>7. CASE Respond(s)
  <2> DEFINE r == [session[s] EXCEPT !.name = session[s].to,
                     !.response = IF session[s].stream = "open" THEN "SUCCESS" ELSE @,
                     !.handler = IF session[s].kind = "discovery" THEN "map" ELSE "pipe"]
  <2>1. Update(s, r) /\ fatal' = fatal
    BY <1>7 DEF Respond
  <2>2. Legal(session[s], r)
    BY <1>7, <1>a DEF Respond, ClientAt, HandlerAt, SessionRec, Good, Legal, CallOf, LinkOf
  <2> HIDE DEF r
  <2> QED BY <2>1, <2>2, LegalSteps
<1>8. CASE RespondFails(s)
  <2> DEFINE r == [session[s] EXCEPT !.handler = "returned"]
  <2>1. Update(s, r) /\ fatal' = fatal
    BY <1>8 DEF RespondFails
  <2>2. Legal(session[s], r)
    BY <1>8, <1>a, Zenon DEF RespondFails, ClientAt, HandlerAt, SessionRec, Good, Legal, CallOf, LinkOf
  <2> HIDE DEF r
  <2> QED BY <2>1, <2>2, LegalSteps
<1>9. CASE HandlerMaps(s)
  <2> DEFINE r == [session[s] EXCEPT !.handler = "returned"]
  <2>1. Update(s, r) /\ fatal' = fatal
    BY <1>9 DEF HandlerMaps
  <2>2. Legal(session[s], r)
    BY <1>9, <1>a, Zenon DEF HandlerMaps, ClientAt, HandlerAt, SessionRec, Good, Legal, CallOf, LinkOf
  <2> HIDE DEF r
  <2> QED BY <2>1, <2>2, LegalSteps
<1>10. CASE Pipe(s)
  <2> DEFINE r == [session[s] EXCEPT !.handler = "returned", !.conn = "piped"]
  <2>1. Update(s, r) /\ fatal' = fatal
    BY <1>10 DEF Pipe
  <2>2. Legal(session[s], r)
    BY <1>10, <1>a, ZenonT(30) DEF Pipe, ClientAt, HandlerAt, SessionRec, Good, Legal, CallOf, LinkOf
  <2> HIDE DEF r
  <2> QED BY <2>1, <2>2, LegalSteps
<1>11. CASE PipeEnds(s)
  <2> DEFINE r == [session[s] EXCEPT !.conn = "closed", !.stream = "reset"]
  <2>1. Update(s, r) /\ fatal' = fatal
    BY <1>11 DEF PipeEnds
  <2>2. Legal(session[s], r)
    BY <1>11, <1>a, Zenon DEF PipeEnds, ClientAt, HandlerAt, SessionRec, Good, Legal, CallOf, LinkOf
  <2> HIDE DEF r
  <2> QED BY <2>1, <2>2, LegalSteps
<1>12. CASE StreamLost(s)
  <2> DEFINE r == [session[s] EXCEPT !.stream = "reset"]
  <2>1. Update(s, r) /\ fatal' = fatal
    BY <1>12 DEF StreamLost
  <2>2. Legal(session[s], r)
    BY <1>12, <1>a DEF StreamLost, ClientAt, HandlerAt, SessionRec, Good, Legal, CallOf, LinkOf
  <2> HIDE DEF r
  <2> QED BY <2>1, <2>2, LegalSteps
<1> QED BY <1>1, <1>2, <1>3, <1>4, <1>5, <1>6, <1>7, <1>8, <1>9, <1>10, <1>11, <1>12, ZenonT(30) DEF Handler

(* A call begins.                                                          *)
LEMMA CallLegal ==
    ASSUME IInv, NEW s \in Session, NEW n \in Node, NEW m \in Node, NEW kind \in Kinds,
           Call(s, n, m, kind)
    PROVE  [Dial!DialNext]_(Dial!dialVars)
<1> DEFINE r == [Unused EXCEPT !.kind = kind, !.from = n, !.to = m,
                     !.client = IF kind = "discovery" THEN "open" ELSE "lookup"]
<1>1. Update(s, r) /\ fatal' = fatal
  BY DEF Call
<1>2. Legal(session[s], r)
  BY DEF Call, Unused, Legal, CallOf, LinkOf
<1> HIDE DEF r
<1> QED BY <1>1, <1>2, LegalSteps, Zenon

(* The runtime ends a node: the links it holds go down together.           *)
LEMMA FatalLegal ==
    ASSUME IInv, NEW n \in Node, ConcurrentMapWrites(n)
    PROVE  [Dial!DialNext]_(Dial!dialVars)
<1> DEFINE some == {s \in Session : session[s].to = n}
<1>1. ASSUME NEW s \in Session
      PROVE  /\ CallOf(session[s])' = CallOf(session[s])
             /\ LinkOf(session[s])' = IF s \in some /\ LinkOf(session[s]) = "up" THEN "down" ELSE LinkOf(session[s])
  <2> DEFINE r == session[s]
             q == [r EXCEPT !.stream = IF @ = "open" THEN "reset" ELSE @,
                            !.conn = IF r.to = n /\ @ # "none" THEN "closed" ELSE @]
  <2>1. r \in SessionRec
    BY SMTT(20) DEF IInv
  <2>2. fatal' = fatal \cup {n} /\ session'[s] = IF n \notin {r.from, r.to} THEN r ELSE q
    BY Zenon DEF ConcurrentMapWrites
  <2>3. /\ q.kind = r.kind /\ q.client = r.client /\ q.to = r.to /\ q.handler = r.handler
        /\ q.conn = IF r.to = n /\ r.conn # "none" THEN "closed" ELSE r.conn
    BY <2>1, Zenon DEF SessionRec
  <2> HIDE DEF q
  <2>4. CallOf(session[s])' = CallOf(r)
    BY <2>2, <2>3, Zenon DEF CallOf
  <2>5. CASE r.to = n
    BY <2>2, <2>3, <2>4, <2>5, Zenon DEF LinkOf
  <2>6. CASE r.to # n
    BY <2>2, <2>3, <2>4, <2>6, Zenon DEF LinkOf
  <2> QED BY <2>4, <2>5, <2>6
<1>2. Dial!Drop(some)
  <2> HIDE DEF some
  <2> QED BY <1>1 DEF Dial!Drop
<1> QED BY <1>2, Zenon DEF Dial!DialNext

(* GetProxyStream and GetCNIAdapterStream, with the handlers and for any   *)
(* nodes, sessions and losses, are the calls RemoteDial describes: each    *)
(* ends once, and with a connection only after the endpoint was reached.   *)
THEOREM StreamsDial == StreamSpec => IsRemoteDial
<1>1. StreamInit => Dial!DialInit
  BY DEF StreamInit, Unused, Dial!DialInit, CallOf, LinkOf
<1>2. IInv /\ [StreamNext]_streamVars => [Dial!DialNext]_(Dial!dialVars)
  <2> SUFFICES ASSUME IInv, [StreamNext]_streamVars PROVE [Dial!DialNext]_(Dial!dialVars)
    OBVIOUS
  <2>1. CASE StreamNext
    BY <2>1, CallLegal, ClientLegal, HandlerLegal, FatalLegal, Zenon DEF StreamNext
  <2>2. CASE UNCHANGED streamVars
    BY <2>2 DEF streamVars, Dial!dialVars, CallOf, LinkOf
  <2> QED BY <2>1, <2>2
<1> QED
  BY <1>1, <1>2, StreamsSound, PTL DEF StreamSpec, IsRemoteDial, Dial!DialSpec

-----------------------------------------------------------------------------
(* The relay configuration: no update of the config file is lost, the      *)
(* relay service follows what is loaded, and so does the relay map, if the *)
(* file does not change before the watch is there.                         *)

WatcherStates == {"starting", "select", "readd", "read", "assign", "connect", "wait", "stopped"}

(* The types the proofs need. *)
WatchTypeOK ==
    /\ watcher \in WatcherStates /\ inode \in Nat \ {0} /\ crashed \in BOOLEAN
    /\ mounted \in BOOLEAN /\ events \in Seq({"Remove", "Write"})

(* Before the watch is there, the content is what was loaded. *)
StartInv ==
    watcher = "starting" => content \in Configs /\ loaded = content /\ watch = 0 /\ events = <<>>

(* A ConfigMap's file that is not watched has left its one event behind, or *)
(* the watcher has taken it and is about to watch the new file. A normal    *)
(* file is always watched.                                                  *)
WatchInv ==
    ~crashed /\ watcher \notin {"starting", "stopped"} =>
        IF mounted
        THEN \/ watcher = "readd" /\ watch = 0 /\ events = <<>>
             \/ watcher # "readd" /\ watch = 0 /\ events = <<"Remove">>
             \/ watcher # "readd" /\ watch = inode /\ events = <<>>
        ELSE watcher # "readd" /\ watch = inode /\ events \in Seq({"Write"})

(* Without an event, what was read is what the file has. *)
ReadInv ==
    ~crashed /\ events = <<>> =>
        /\ watcher \in {"select", "connect", "wait"} => loaded = content
        /\ watcher = "assign" => data = content

FileInv == WatchTypeOK /\ StartInv /\ WatchInv /\ ReadInv

(* What the file's invariant is about. *)
seenVars == <<inode, content, mounted, watch, events, watcher, data, loaded, crashed>>

-----------------------------------------------------------------------------

LEMMA FileInvInit == RelayInit => FileInv
  <1> SUFFICES ASSUME RelayInit PROVE FileInv
    OBVIOUS
  <1>1. /\ watcher = "starting" /\ inode = 1 /\ crashed = FALSE /\ events = <<>> /\ watch = 0
        /\ content \in Configs /\ loaded = content /\ mounted \in BOOLEAN
    BY RelayAssumption DEF RelayAssumption, RelayInit
  <1>2. WatchTypeOK
    <2>1. inode \in Nat \ {0} /\ events \in Seq({"Remove", "Write"})
      BY <1>1
    <2>2. crashed \in BOOLEAN /\ watcher \in WatcherStates
      BY <1>1, Zenon DEF WatcherStates
    <2> QED BY <1>1, <2>1, <2>2 DEF WatchTypeOK
  <1>3. StartInv /\ WatchInv /\ ReadInv
    BY <1>1, Zenon DEF StartInv, WatchInv, ReadInv
  <1> QED BY <1>2, <1>3 DEF FileInv

LEMMA FileInvStutters == FileInv /\ UNCHANGED seenVars => FileInv'
  BY DEF seenVars, FileInv, WatchTypeOK, StartInv, WatchInv, ReadInv

(* A step that is none of the file's or the watcher's leaves FileInv alone, *)
(* unless it ends the process.                                              *)
LEMMA CrashKeeps ==
  ASSUME FileInv, crashed' = TRUE,
         UNCHANGED <<inode, content, mounted, watch, events, watcher, data, loaded>>
  PROVE  FileInv'
  BY DEF FileInv, WatchTypeOK, StartInv, WatchInv, ReadInv

LEMMA SwapKeeps ==
  ASSUME FileInv, ~EditWhileStarting, NEW new \in Configs, SwapFile(new)
  PROVE  FileInv'
  <1>1. WatchTypeOK'
    BY DEF FileInv, WatchTypeOK, SwapFile
  <1>2. watcher # "starting" /\ watcher' = watcher /\ mounted
    BY DEF SwapFile, MayEdit
  <1>a. ASSUME watch = inode PROVE WatchInv'
    <2>1. events' = Append(events, "Remove") /\ watch' = 0 /\ crashed' = crashed /\ mounted' = mounted
      BY <1>a DEF SwapFile
    <2>2. ~crashed /\ watcher # "stopped" => watcher # "readd" /\ events = <<>>
      BY <1>a, <1>2 DEF FileInv, WatchTypeOK, WatchInv
    <2>3. Append(<<>>, "Remove") = <<"Remove">>
      OBVIOUS
    <2> QED BY <1>2, <2>1, <2>2, <2>3, Zenon DEF WatchInv
  <1>b. ASSUME watch # inode PROVE WatchInv'
    <2>1. events' = events /\ watch' = 0 /\ crashed' = crashed /\ mounted' = mounted
      BY <1>b DEF SwapFile
    <2> QED BY <1>b, <1>2, <2>1, Zenon DEF FileInv, WatchInv
  <1>3. WatchInv'
    BY <1>a, <1>b
  <1>4. ReadInv'
    <2>1. CASE watcher \in {"starting", "stopped", "readd", "read"}
      BY <1>2, <2>1 DEF ReadInv, SwapFile
    <2>2. CASE watcher \in {"select", "connect", "wait", "assign"}
      <3>1. ~crashed' => events' # <<>>
        <4>1. watch' = 0 /\ mounted' = mounted /\ inode' = inode + 1
          BY DEF SwapFile
        <4> QED BY <1>2, <1>3, <2>2, <4>1 DEF FileInv, WatchTypeOK, WatchInv
      <3> QED BY <3>1, Zenon DEF ReadInv
    <2> QED BY <2>1, <2>2 DEF FileInv, WatchTypeOK, WatcherStates
  <1>5. StartInv'
    BY <1>2 DEF StartInv
  <1> QED BY <1>1, <1>3, <1>4, <1>5, Zenon DEF FileInv

LEMMA RewriteKeeps ==
  ASSUME FileInv, ~EditWhileStarting, NEW new \in Configs \cup {Truncated}, RewriteFile(new)
  PROVE  FileInv'
  <1>1. WatchTypeOK'
    BY DEF FileInv, WatchTypeOK, RewriteFile
  <1>2. watcher # "starting" /\ watcher' = watcher /\ ~mounted
    BY RelayAssumption, Zenon DEF RelayAssumption, FileInv, StartInv, RewriteFile, MayEdit
  <1>3. WatchInv'
    BY <1>2 DEF FileInv, WatchTypeOK, WatchInv, RewriteFile
  <1>4. ReadInv'
    <2>1. CASE watcher = "stopped"
      BY <1>2, <2>1 DEF ReadInv, RewriteFile
    <2>2. CASE watcher # "stopped"
      <3>1. ~crashed => events' # <<>>
        BY <1>2, <2>2 DEF FileInv, WatchTypeOK, WatchInv, RewriteFile
      <3> QED BY <3>1, Zenon DEF ReadInv, RewriteFile
    <2> QED BY <2>1, <2>2
  <1>5. StartInv'
    BY <1>2 DEF StartInv
  <1> QED BY <1>1, <1>3, <1>4, <1>5, Zenon DEF FileInv

LEMMA WatcherKeeps ==
  ASSUME FileInv, Watcher
  PROVE  FileInv'
  <1>1. CASE AddWatch
    <2>1. /\ watcher = "starting" /\ watcher' = "select" /\ watch' = inode /\ ~crashed
          /\ UNCHANGED <<inode, content, mounted, events, loaded, crashed>>
      BY <1>1 DEF AddWatch, mapVars
    <2>2. loaded = content /\ events = <<>>
      BY <2>1 DEF FileInv, StartInv
    <2>3. WatchTypeOK'
      BY <2>1 DEF FileInv, WatchTypeOK, WatcherStates
    <2>4. StartInv' /\ WatchInv' /\ ReadInv'
      BY <2>1, <2>2, <2>3 DEF WatchTypeOK, StartInv, WatchInv, ReadInv
    <2> QED BY <2>3, <2>4, Zenon DEF FileInv
  <1>2. CASE TakeEvent
    <2>1. /\ watcher = "select" /\ events # <<>> /\ ~crashed /\ events' = Tail(events)
          /\ watcher' = IF Head(events) = "Remove" THEN "readd" ELSE "read"
          /\ UNCHANGED <<inode, content, mounted, watch, loaded, data, crashed>>
      BY <1>2 DEF TakeEvent, mapVars
    <2>2. WatchTypeOK'
      BY <2>1 DEF FileInv, WatchTypeOK, WatcherStates
    <2>3. WatchInv'
      <3>1. CASE mounted
        <4>1. watch = 0 /\ events = <<"Remove">>
          BY <2>1, <3>1 DEF FileInv, WatchInv
        <4>2. events' = <<>> /\ watcher' = "readd"
          BY <2>1, <4>1
        <4> QED BY <2>1, <3>1, <4>1, <4>2, Zenon DEF WatchInv
      <3>2. CASE ~mounted
        <4>1. watch = inode /\ events \in Seq({"Write"})
          BY <2>1, <3>2 DEF FileInv, WatchInv
        <4>2. events' \in Seq({"Write"}) /\ watcher' = "read"
          BY <2>1, <4>1
        <4> QED BY <2>1, <3>2, <4>1, <4>2, Zenon DEF WatchInv
      <3> QED BY <3>1, <3>2
    <2>4. StartInv' /\ ReadInv'
      BY <2>1 DEF StartInv, ReadInv
    <2> QED BY <2>2, <2>3, <2>4, Zenon DEF FileInv
  <1>3. CASE ReAdd
    <2>1. /\ watcher = "readd" /\ ~crashed /\ watch' = inode /\ watcher' = "read"
          /\ UNCHANGED <<inode, content, mounted, events, loaded, data, crashed>>
      BY <1>3 DEF ReAdd, mapVars
    <2>2. mounted /\ events = <<>>
      BY <2>1 DEF FileInv, WatchTypeOK, WatchInv
    <2>3. WatchTypeOK'
      BY <2>1 DEF FileInv, WatchTypeOK, WatcherStates
    <2>4. StartInv' /\ WatchInv' /\ ReadInv'
      BY <2>1, <2>2, Zenon DEF StartInv, WatchInv, ReadInv
    <2> QED BY <2>3, <2>4 DEF FileInv
  <1>4. CASE ReadFile
    <2>1. /\ watcher = "read" /\ ~crashed /\ data' = content
          /\ watcher' = IF content = Truncated THEN "stopped" ELSE "assign"
          /\ crashed' = (content = Truncated)
          /\ UNCHANGED <<inode, content, mounted, watch, events, loaded>>
      BY <1>4 DEF ReadFile, fileVars, mapVars
    <2>2. crashed' \in BOOLEAN
      BY <2>1
    <2>3. WatchTypeOK'
      BY <2>1, <2>2, Zenon DEF FileInv, WatchTypeOK, WatcherStates
    <2>4. StartInv' /\ WatchInv' /\ ReadInv'
      BY <2>1, Zenon DEF FileInv, StartInv, WatchInv, ReadInv
    <2> QED BY <2>3, <2>4 DEF FileInv
  <1>5. CASE doReload
    <2>1. /\ watcher = "assign" /\ ~crashed /\ loaded' = data /\ watcher' = "connect"
          /\ UNCHANGED <<inode, content, mounted, watch, events, data, crashed>>
      BY <1>5 DEF doReload, fileVars
    <2>2. WatchTypeOK'
      BY <2>1, Zenon DEF FileInv, WatchTypeOK, WatcherStates
    <2>3. StartInv' /\ WatchInv' /\ ReadInv'
      BY <2>1, Zenon DEF FileInv, StartInv, WatchInv, ReadInv
    <2> QED BY <2>2, <2>3 DEF FileInv
  <1>6. CASE WatcherConnects \/ WatcherWaited
    <2>1. /\ watcher \in {"connect", "wait"} /\ watcher' \in {"wait", "select"}
          /\ UNCHANGED <<inode, content, mounted, watch, events, data, loaded, crashed>>
      BY <1>6 DEF WatcherConnects, WatcherWaited, fileVars, mapVars
    <2>2. WatchTypeOK'
      BY <2>1, Zenon DEF FileInv, WatchTypeOK, WatcherStates
    <2>3. StartInv' /\ WatchInv' /\ ReadInv'
      BY <2>1, Zenon DEF FileInv, StartInv, WatchInv, ReadInv
    <2> QED BY <2>2, <2>3 DEF FileInv
  <1> QED BY <1>1, <1>2, <1>3, <1>4, <1>5, <1>6, Zenon DEF Watcher

(* Everything else changes nothing of the file or the watcher.             *)
LEMMA OthersKeep ==
  ASSUME FileInv,
         \/ Starting \/ ReAddFails \/ Finder \/ Beat
         \/ \E c \in Caller, p \in Peer : connectToRelay(c, p)
         \/ \E p \in Peer : RelayDown(p) \/ RelayUp(p)
  PROVE  FileInv'
  <1>1. CASE Starting
    <2>1. UNCHANGED seenVars
      BY <1>1, Zenon DEF Starting, BootstrapPoll, BootstrapDial, seenVars, fileVars, mapVars
    <2> QED BY <2>1, FileInvStutters, Zenon
  <1>2. CASE ReAddFails
    <2>1. /\ watcher' = "stopped"
          /\ UNCHANGED <<inode, content, mounted, watch, events, data, loaded, crashed>>
      BY <1>2, SMTT(20) DEF ReAddFails, fileVars, mapVars
    <2> QED BY <2>1, Zenon DEF FileInv, WatchTypeOK, WatcherStates, StartInv, WatchInv, ReadInv
  <1>3. CASE FindRound \/ GetClosestPeers \/ AppendFound \/ \E p \in Peer : OfferRelay(p) \/ Find(p)
    <2>1. UNCHANGED seenVars
      BY <1>3, Zenon DEF FindRound, GetClosestPeers, AppendFound, OfferRelay, Find, seenVars, fileVars, mapVars
    <2> QED BY <2>1, FileInvStutters
  <1>4. CASE StoreFound
    <2>1. UNCHANGED <<inode, content, mounted, watch, events, watcher, data, loaded>>
      BY <1>4, ZenonT(30) DEF StoreFound, fileVars
    <2>2. ~crashed /\ crashed' \in BOOLEAN
      BY <1>4 DEF StoreFound
    <2>3. CASE crashed' = TRUE
      BY <2>1, <2>3, CrashKeeps, Zenon
    <2>4. CASE crashed' = FALSE
      <3>1. crashed' = crashed
        BY <2>2, <2>4, Zenon DEF FileInv, WatchTypeOK
      <3>2. UNCHANGED seenVars
        BY <2>1, <3>1, Zenon DEF seenVars
      <3> QED BY <3>2, FileInvStutters
    <2> QED BY <2>2, <2>3, <2>4, Zenon
  <1>5. CASE Beat \/ (\E c \in Caller, p \in Peer : connectToRelay(c, p))
             \/ \E p \in Peer : RelayDown(p) \/ RelayUp(p)
    <2>1. UNCHANGED seenVars
      BY <1>5, Zenon DEF Beat, connectToRelay, RelayDown, RelayUp, seenVars, fileVars, mapVars
    <2> QED BY <2>1, FileInvStutters
  <1> QED BY <1>1, <1>2, <1>3, <1>4, <1>5 DEF Finder

(* runConfigWatcher: whenever the watcher waits without an event, it has   *)
(* loaded what the file has now, for any configs and any number of updates *)
(* of a ConfigMap or rewrites of a file, if none comes before the watch.   *)
THEOREM WatcherCurrent == ~EditWhileStarting => (RelaySpec => []LoadedIsCurrent)
  <1> SUFFICES ASSUME ~EditWhileStarting PROVE RelaySpec => []LoadedIsCurrent
    OBVIOUS
  <1>1. FileInv /\ [RelayNext]_relayVars => FileInv'
    <2> SUFFICES ASSUME FileInv, [RelayNext]_relayVars PROVE FileInv'
      OBVIOUS
    <2>1. CASE \E new \in Configs : SwapFile(new)
      BY <2>1, SwapKeeps
    <2>2. CASE \E new \in Configs \cup {Truncated} : RewriteFile(new)
      BY <2>2, RewriteKeeps
    <2>3. CASE Watcher
      BY <2>3, WatcherKeeps, Zenon
    <2>4. CASE \/ Starting \/ ReAddFails \/ Finder \/ Beat
               \/ \E c \in Caller, p \in Peer : connectToRelay(c, p)
               \/ \E p \in Peer : RelayDown(p) \/ RelayUp(p)
      BY <2>4, OthersKeep
    <2>5. CASE UNCHANGED relayVars
      <3>1. UNCHANGED seenVars
        BY <2>5 DEF relayVars, seenVars, fileVars, mapVars
      <3> QED BY <3>1, FileInvStutters, Zenon
    <2> QED BY <2>1, <2>2, <2>3, <2>4, <2>5 DEF RelayNext
  <1>2. FileInv => LoadedIsCurrent
    BY DEF FileInv, ReadInv, LoadedIsCurrent
  <1> QED BY <1>1, <1>2, FileInvInit, PTL DEF RelaySpec

-----------------------------------------------------------------------------
(* The relay service *)

(* At every moment, the service is what the loaded config asks for.        *)
RoleInv ==
    /\ {relayService, isRelay, newFailed} \subseteq BOOLEAN
    /\ relayService = (mode = "ServerClient" /\ Self \in DOMAIN GenerateRelayMap(loaded) /\ ~newFailed)
    /\ mode = "ServerClient" => isRelay = relayService

(* doReload: the relay service runs exactly on an agent that the loaded    *)
(* config names, if it could be made, through any sequence of reloads.     *)
THEOREM RoleFollows == RelaySpec => []RoleFollowsConfig
  <1>1. ASSUME RelayInit PROVE RoleInv
    <2>1. /\ loaded = content /\ relayMap = GenerateRelayMap(content) /\ newFailed = FALSE
          /\ isRelay = (Self \in DOMAIN relayMap) /\ relayService = (isRelay /\ mode = "ServerClient")
      BY <1>1, Zenon DEF RelayInit
    <2>2. isRelay \in BOOLEAN /\ relayService \in BOOLEAN /\ newFailed \in BOOLEAN
      <3>1. isRelay = TRUE \/ isRelay = FALSE
        <4>1. CASE Self \in DOMAIN relayMap
          BY <2>1, <4>1, SMT, Zenon
        <4>2. CASE Self \notin DOMAIN relayMap
          BY <2>1, <4>2, SMT
        <4> QED BY <4>1, <4>2
      <3>2. relayService = TRUE \/ relayService = FALSE
        BY <2>1, Zenon
      <3> QED BY <2>1, <3>1, <3>2, Zenon
    <2>3. relayService = (mode = "ServerClient" /\ Self \in DOMAIN GenerateRelayMap(loaded) /\ ~newFailed)
      BY <2>1, Zenon
    <2>4. mode = "ServerClient" => isRelay = relayService
      BY <2>1, <2>2, Zenon
    <2> QED BY <2>2, <2>3, <2>4 DEF RoleInv
  <1>2. RoleInv /\ [RelayNext]_relayVars => RoleInv'
    <2> SUFFICES ASSUME RoleInv, [RelayNext]_relayVars PROVE RoleInv'
      OBVIOUS
    <2>1. CASE doReload
      <3>1. CASE mode = "ServerClient"
        <4> DEFINE named == Self \in DOMAIN GenerateRelayMap(data)
        <4>1. PICK failed \in BOOLEAN :
                 /\ relayService' = (named /\ ~(named /\ ~relayService /\ failed))
                 /\ isRelay' = IF named /\ ~relayService /\ failed THEN isRelay ELSE relayService'
                 /\ newFailed' = (named /\ ~relayService /\ failed)
          BY <2>1, <3>1, Zenon DEF doReload
        <4>2. mode' = mode /\ loaded' = data
          BY <2>1 DEF doReload
        <4>3. isRelay = relayService /\ isRelay \in BOOLEAN /\ relayService \in BOOLEAN
          BY <3>1 DEF RoleInv
        <4> HIDE DEF named
        <4>4. relayService' = (named /\ ~newFailed') /\ isRelay' = relayService'
          BY <4>1, <4>3, Zenon
        <4>5. {relayService', isRelay', newFailed'} \subseteq BOOLEAN
          BY <4>1, <4>4, Zenon
        <4> QED BY <3>1, <4>2, <4>4, <4>5, Zenon DEF RoleInv, named
      <3>2. CASE mode # "ServerClient"
        BY <2>1, <3>2, Zenon DEF doReload, RoleInv
      <3> QED BY <3>1, <3>2
    <2>2. CASE UNCHANGED <<roleVars, loaded>>
      BY <2>2, SMTT(20) DEF RoleInv, roleVars
    <2>3. RelayNext => doReload \/ UNCHANGED <<roleVars, loaded>>
      BY Zenon DEF RelayNext, SwapFile, RewriteFile, Starting, BootstrapPoll, BootstrapDial, Watcher, AddWatch,
             TakeEvent, ReAdd, ReadFile, WatcherConnects, WatcherWaited, ReAddFails, Finder, FindRound,
             OfferRelay, GetClosestPeers, Find, StoreFound, AppendFound, Beat, connectToRelay, RelayDown,
             RelayUp, mapVars
    <2> QED BY <2>1, <2>2, <2>3 DEF relayVars, mapVars
  <1>3. RoleInv => RoleFollowsConfig
    BY Zenon DEF RoleInv, RoleFollowsConfig
  <1> QED BY <1>1, <1>2, <1>3, PTL DEF RelaySpec

-----------------------------------------------------------------------------
(* The relay map *)

(* refreshRelayMap and doReload: whatever the finder has looked up when a  *)
(* reload comes in between, the map has the relays of the loaded config,   *)
(* and beside their configured addresses only public, direct ones of the   *)
(* peer's own; for any configs and any addresses in the peerstore.         *)
THEOREM MapFollows == RelaySpec => []MapFollowsConfig
  <1>1. RelayInit => MapFollowsConfig
    BY DEF RelayInit, MapFollowsConfig
  <1>2. MapFollowsConfig /\ [RelayNext]_relayVars => MapFollowsConfig'
    <2> SUFFICES ASSUME MapFollowsConfig, [RelayNext]_relayVars PROVE MapFollowsConfig'
      OBVIOUS
    <2>a. \A n : \A a \in found(n) : a \in PeerAddrs[n] /\ a.ip \notin {"loopback", "private"} /\ ~a.circuit
      BY Zenon DEF found, FilterCircuitMaddr, FilterPrivateMaddr
    <2>1. CASE doReload
      BY <2>1, ZenonT(30) DEF doReload, MapFollowsConfig
    <2>2. CASE StoreFound
      BY <2>2, <2>a, Zenon DEF StoreFound, MapFollowsConfig
    <2>3. CASE AppendFound
      BY <2>3, <2>a, ZenonT(30) DEF AppendFound, MapFollowsConfig
    <2>4. CASE UNCHANGED <<loaded, relayMap>>
      BY <2>4, SMTT(20) DEF MapFollowsConfig
    <2>5. RelayNext => doReload \/ StoreFound \/ AppendFound \/ UNCHANGED <<loaded, relayMap>>
      BY Zenon DEF RelayNext, SwapFile, RewriteFile, Starting, BootstrapPoll, BootstrapDial, Watcher, AddWatch,
             TakeEvent, ReAdd, ReadFile, WatcherConnects, WatcherWaited, ReAddFails, Finder, FindRound,
             OfferRelay, GetClosestPeers, Find, Beat, connectToRelay, RelayDown, RelayUp, mapVars
    <2> QED BY <2>1, <2>2, <2>3, <2>4, <2>5 DEF relayVars, mapVars
  <1> QED BY <1>1, <1>2, PTL DEF RelaySpec

=============================================================================
