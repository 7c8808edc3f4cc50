----------------------------- MODULE GatewayProofs -----------------------------
(***************************************************************************)
(* TLAPS proofs about the loops over slices, the addresses an edge gateway *)
(* listens on and its servers, for any cards, filters, gateways and specs, *)
(* and the servers of the Corefile, for any configuration and cluster.     *)
(***************************************************************************)
EXTENDS GatewayServers, Corefile, TLAPS

-----------------------------------------------------------------------------
(* The servers                                                             *)

Handlers ==
    [op : {"none", "stop", "wait", "start"}, gw : Gateway \cup {Nil}, spec : Specs \cup {Nil},
     servers : Seq(Servers), next : Nat \ {0}, isUpdate : BOOLEAN]

(* listenIPs is what the loops below return, see ListenIPsWanted.          *)
Typed ==
    /\ listenIPs \in Seq(IP)
    /\ api \in [Gateway -> Specs \cup {Nil}]
    /\ known \in [Gateway -> Specs \cup {Nil}]
    /\ serversByGateway \in [Gateway -> Seq(Servers) \cup {Nil}]
    /\ socket \in [Addr -> Servers \cup {Nil, OldPod}]
    /\ handler \in Handlers
    /\ running \in BOOLEAN

(* The running handler works for a gateway, on the spec it was told of,    *)
(* and only with a spec it starts servers.                                 *)
HandlerInv ==
    /\ handler.op # "none" => handler.gw \in Gateway /\ known[handler.gw] = handler.spec
    /\ handler.isUpdate \/ handler.op = "start" => handler.spec # Nil
    /\ handler.op = "wait" => handler.next <= Len(handler.servers)

HandledNow(g) == handler.op # "none" /\ handler.gw = g

(* A gateway nobody told of has no entry, nor has one while its servers    *)
(* are being started.                                                      *)
EntryInv ==
    \A g \in Gateway :
       known[g] = Nil /\ ~HandledNow(g) => serversByGateway[g] = Nil

(* Only the server that the handler waits for is being closed.             *)
ClosingInv ==
    \A s \in closing : handler.op = "wait" /\ s = Stopping

(* A listener is on its own address, and one that was closed has none.     *)
SocketInv ==
    /\ \A a \in Addr : socket[a] \notin {Nil, OldPod} => socket[a].addr = a
    /\ handler.op = "wait" /\ Stopping \notin closing =>
          \A a \in Addr : socket[a] \in {Nil, OldPod} \/ socket[a] # Stopping
    /\ ~running => handler.op = "none" /\ \A a \in Addr : socket[a] \in {Nil, OldPod}

(* Where the owner of a listener finds it: among the servers that are yet  *)
(* to be stopped or were started by the running handler, if it is the      *)
(* gateway's, and in the gateway's entry otherwise.                        *)
InHandler(s) ==
    \E i \in 1..Len(handler.servers) :
       handler.servers[i] = s /\ (handler.op \in {"stop", "wait"} => i >= handler.next)

InEntry(s) ==
    /\ serversByGateway[s.gw] # Nil
    /\ \E i \in 1..Len(serversByGateway[s.gw]) : serversByGateway[s.gw][i] = s

OwnerInv ==
    \A a \in Addr : socket[a] \notin closing \cup {Nil, OldPod} =>
       IF HandledNow(socket[a].gw) THEN InHandler(socket[a]) ELSE InEntry(socket[a])

ServersInv == Typed /\ HandlerInv /\ EntryInv /\ ClosingInv /\ SocketInv /\ OwnerInv

(* Between two events no handler runs.                                     *)
LEMMA NoHandlerTyped == NoHandler \in Handlers
BY DEF NoHandler, Handlers

(* A server belongs to a gateway.                                          *)
LEMMA ServerOf ==
    /\ \A s \in Servers : s.gw \in Gateway
    /\ \A g \in Gateway, spec \in Specs : \A s \in Range(Wanted(g, spec)) : s.gw = g
<1>1. ASSUME NEW g \in Gateway, NEW spec \in Specs, NEW s \in Range(Wanted(g, spec))
      PROVE  s.gw = g
  BY DEF Range, Wanted
<1> QED
  BY <1>1 DEF Servers

(* The server that is started next is one of the gateway's, on an address  *)
(* of the gateway.                                                         *)
LEMMA StartingOK ==
    ASSUME Typed, HandlerInv, MoreToStart
    PROVE  Starting \in Servers /\ Starting.gw = handler.gw /\ Starting.addr \in Addr
<1> DEFINE g == handler.gw
           spec == handler.spec
           k == handler.next
           n == Len(listenIPs)
           m == Len(spec)
<1>1. g \in Gateway /\ spec \in Specs /\ k \in Nat \ {0}
  BY DEF Typed, HandlerInv, MoreToStart, Handlers
<1>2. n \in Nat /\ m \in Nat /\ listenIPs \in Seq(IP) /\ spec \in Seq(Range(spec))
  BY <1>1, GatewayAssumption DEF GatewayAssumption, Typed
<1>3. n * m \in Nat
  BY <1>2
<1>4. Len(Wanted(g, spec)) = n * m
  BY <1>3 DEF Wanted
<1>5. k \in 1..(n * m)
  BY <1>1, <1>3, <1>4 DEF MoreToStart
<1>6. Starting \in Range(Wanted(g, spec))
  BY <1>5, Zenon DEF Starting, Range, Wanted
<1>7. m > 0
  BY <1>2, <1>5
<1>8. (k - 1) \div m \in Nat /\ (k - 1) \div m < n
  <2> HIDE DEF n, m, k
  <2>1. k - 1 \in Nat /\ k - 1 < n * m
    BY <1>3, <1>5
  <2> QED
    BY <1>2, <1>7, <2>1, SMTT(20)
<1>9. (k - 1) % m \in 0..(m - 1)
  <2> HIDE DEF m, k
  <2>1. k - 1 \in Nat
    BY <1>1
  <2> QED
    BY <1>2, <1>7, <2>1
<1>10. Starting.addr = <<listenIPs[((k - 1) \div m) + 1], spec[((k - 1) % m) + 1].port>>
  BY <1>5, Zenon DEF Starting, Wanted
<1>11. listenIPs[((k - 1) \div m) + 1] \in Range(listenIPs)
  <2>1. ((k - 1) \div m) + 1 \in 1..n
    BY <1>2, <1>8
  <2> QED
    BY <1>2, <2>1 DEF Range
<1>12. spec[((k - 1) % m) + 1].port \in Port
  <2>1. ((k - 1) % m) + 1 \in DOMAIN spec
    BY <1>2, <1>9
  <2> QED
    BY <1>1, <2>1, SMTT(20) DEF Port
<1> QED
  BY <1>1, <1>6, <1>10, <1>11, <1>12, ServerOf, SMTT(20) DEF Servers, Addr

(* What the environment does.                                              *)
LEMMA EnvironmentKeeps ==
    ASSUME ServersInv,
           \/ \E g \in Gateway, spec \in Specs \cup {Nil} : ChangeGateway(g, spec)
           \/ \E a \in Addr : OldPodGone(a)
           \/ Restart
           \/ UNCHANGED gatewayVars
    PROVE  ServersInv'
<1> USE DEF ServersInv
<1>1. CASE \/ \E g \in Gateway, spec \in Specs \cup {Nil} : ChangeGateway(g, spec)
           \/ UNCHANGED gatewayVars
  <2>1. UNCHANGED <<known, serversByGateway, socket, closing, handler, running>>
    BY <1>1 DEF ChangeGateway, gatewayVars
  <2>2. api' \in [Gateway -> Specs \cup {Nil}]
    BY <1>1 DEF ChangeGateway, gatewayVars, Typed
  <2> QED
    BY <2>1, <2>2 DEF Typed, HandlerInv, EntryInv, HandledNow, ClosingInv, Stopping, SocketInv,
                      OwnerInv, InHandler, InEntry
<1>2. ASSUME NEW b \in Addr, OldPodGone(b) PROVE ServersInv'
  <2>1. UNCHANGED <<api, known, serversByGateway, closing, handler, running>>
    BY <1>2 DEF OldPodGone
  <2>2. \A a \in Addr : socket'[a] = IF a = b THEN Nil ELSE socket[a]
    BY <1>2 DEF OldPodGone, Typed
  <2>3. Typed'
    BY <1>2, <2>1 DEF OldPodGone, Typed
  <2>4. HandlerInv' /\ EntryInv' /\ ClosingInv'
    BY <2>1, SMTT(20) DEF HandlerInv, EntryInv, HandledNow, ClosingInv, Stopping
  <2>5. SocketInv'
    BY <2>1, <2>2 DEF SocketInv, Stopping
  <2>6. OwnerInv'
    BY <2>1, <2>2, SMTT(20) DEF OwnerInv, HandledNow, InHandler, InEntry
  <2> QED
    BY <2>3, <2>4, <2>5, <2>6
<1>3. CASE Restart
  <2>1. NoHandler \in Handlers
    BY NoHandlerTyped
  <2>2. Typed'
    BY <1>3, <2>1, SMTT(20) DEF Restart, Typed
  <2>3. HandlerInv' /\ EntryInv' /\ ClosingInv'
    BY <1>3, Zenon DEF Restart, NoHandler, HandlerInv, EntryInv, ClosingInv
  <2>4. \A a \in Addr : socket'[a] \in {Nil, OldPod}
    BY <1>3 DEF Restart, SocketInv
  <2>5. handler'.op = "none"
    BY <1>3 DEF Restart, NoHandler
  <2>6. SocketInv'
    BY <2>4, <2>5 DEF SocketInv
  <2>7. OwnerInv'
    BY <2>4 DEF OwnerInv
  <2> QED
    BY <2>2, <2>3, <2>6, <2>7
<1> QED
  BY <1>1, <1>2, <1>3

(* An informer's callback begins.                                          *)
LEMMA HandleKeeps ==
    ASSUME ServersInv, NEW g \in Gateway,
           OnGatewayAdd(g) \/ OnGatewayUpdate(g) \/ OnGatewayDelete(g)
    PROVE  ServersInv'
<1> USE DEF ServersInv
<1> USE GatewayAssumption DEF GatewayAssumption
<1> DEFINE h == handler'
<1>1. /\ handler.op = "none" /\ running
      /\ UNCHANGED <<api, serversByGateway, socket, closing, running>>
      /\ h.gw = g /\ known' = [known EXCEPT ![g] = h.spec]
      /\ h.next = 1 /\ h \in Handlers
      /\ h.op \in {"stop", "start"}
      /\ h.isUpdate \/ h.op = "start" => h.spec # Nil
      /\ h.op = "stop" => h.servers = Recorded(g)
      /\ h.op = "start" => known[g] = Nil
  <2>1. CASE OnGatewayAdd(g)
    <3>1. <<>> \in Seq(Servers) /\ api[g] \in Specs
      BY <2>1 DEF OnGatewayAdd, Typed
    <3> QED
      BY <2>1, <3>1 DEF OnGatewayAdd, Handle, Typed, Handlers
  <2>2. Recorded(g) \in Seq(Servers)
    BY SMTT(20) DEF Recorded, Typed
  <2>3. CASE OnGatewayUpdate(g)
    <3>1. api[g] \in Specs
      BY <2>3, Zenon DEF OnGatewayUpdate, Typed
    <3> QED
      BY <2>2, <2>3, <3>1 DEF OnGatewayUpdate, Handle, Typed, Handlers
  <2>4. CASE OnGatewayDelete(g)
    BY <2>2, <2>4 DEF OnGatewayDelete, Handle, Typed, Handlers
  <2> QED
    BY <2>1, <2>3, <2>4, Zenon
<1>2. h.spec \in Specs \cup {Nil}
  BY <1>1 DEF Handlers
<1>3. Typed'
  BY <1>1, <1>2, Zenon DEF Typed
<1>4. HandlerInv' /\ ClosingInv'
  BY <1>1, <1>2 DEF Typed, HandlerInv, ClosingInv
<1>5. EntryInv'
  BY <1>1, <1>2, SMTT(20) DEF Typed, EntryInv, HandledNow
<1>6. SocketInv'
  BY <1>1 DEF SocketInv
<1>7. ASSUME NEW a \in Addr, socket[a] \notin closing \cup {Nil, OldPod}
      PROVE  IF HandledNow(socket[a].gw)' THEN InHandler(socket[a])' ELSE InEntry(socket[a])'
  <2>1. InEntry(socket[a])
    BY <1>1, <1>7, Zenon DEF OwnerInv, HandledNow
  <2>2. CASE socket[a].gw = g
    <3>1. h.op = "stop"
      BY <1>1, <2>1, <2>2, SMTT(20) DEF EntryInv, HandledNow, InEntry
    <3> QED
      BY <1>1, <2>1, <2>2, <3>1, SMTT(20) DEF InEntry, InHandler, HandledNow, Recorded
  <2>3. CASE socket[a].gw # g
    BY <1>1, <2>1, <2>3, Zenon DEF InEntry, HandledNow
  <2> QED
    BY <2>2, <2>3, Zenon
<1>8. OwnerInv'
  BY <1>1, <1>7 DEF OwnerInv
<1> QED
  BY <1>3, <1>4, <1>5, <1>6, <1>8, Zenon

(* Server.Stop, and the accept loop that ends.                             *)
LEMMA StopKeeps ==
    ASSUME ServersInv, Stop
    PROVE  ServersInv'
<1> USE DEF ServersInv
<1>1. /\ handler' \in Handlers /\ handler'.op = "wait"
      /\ handler'.gw = handler.gw /\ handler'.spec = handler.spec
      /\ handler'.servers = handler.servers /\ handler'.next = handler.next
      /\ handler'.isUpdate = handler.isUpdate
  <2>1. handler \in Handlers /\ handler' = [handler EXCEPT !.op = "wait"]
    BY Zenon DEF Stop, Typed
  <2> HIDE DEF ServersInv
  <2> QED
    BY <2>1 DEF Handlers
<1>2. Stopping' = Stopping
  BY <1>1 DEF Stopping
<1>3. /\ UNCHANGED <<api, known, serversByGateway, socket, running>>
      /\ closing' = closing \cup {Stopping} /\ handler.op = "stop"
      /\ handler.next <= Len(handler.servers)
  BY DEF Stop
<1>4. Typed' /\ HandlerInv' /\ EntryInv'
  BY <1>1, <1>3, Zenon DEF Typed, HandlerInv, EntryInv, HandledNow
<1>5. ClosingInv' /\ SocketInv'
  BY <1>1, <1>2, <1>3, Zenon DEF ClosingInv, SocketInv
<1>6. OwnerInv'
  BY <1>1, <1>3 DEF OwnerInv, HandledNow, InHandler, InEntry
<1> QED
  BY <1>4, <1>5, <1>6

LEMMA StoppedKeeps ==
    ASSUME ServersInv, Stopped
    PROVE  ServersInv'
<1> USE DEF ServersInv
<1>1. /\ handler' \in Handlers /\ handler'.op = "stop"
      /\ handler'.gw = handler.gw /\ handler'.spec = handler.spec
      /\ handler'.servers = handler.servers /\ handler'.next = handler.next + 1
      /\ handler'.isUpdate = handler.isUpdate
  <2>1. handler \in Handlers /\ handler.next + 1 \in Nat \ {0}
    BY DEF Typed, Handlers
  <2> QED
    BY <2>1, Zenon DEF Stopped, Handlers
<1>2. /\ UNCHANGED <<api, known, serversByGateway, socket, closing, running>>
      /\ handler.op = "wait" /\ Stopping \notin closing
  BY Zenon DEF Stopped
<1>3. Typed' /\ HandlerInv' /\ EntryInv'
  BY <1>1, <1>2, Zenon DEF Typed, HandlerInv, EntryInv, HandledNow
<1>4. ClosingInv' /\ SocketInv'
  BY <1>1, <1>2 DEF ClosingInv, SocketInv
<1>5. ASSUME NEW a \in Addr, socket[a] \notin closing \cup {Nil, OldPod},
             handler.gw = socket[a].gw
      PROVE  InHandler(socket[a])'
  <2>1. InHandler(socket[a])
    BY <1>2, <1>5 DEF OwnerInv, HandledNow
  <2>2. PICK i \in 1..Len(handler.servers) : handler.servers[i] = socket[a] /\ i >= handler.next
    BY <1>2, <2>1 DEF InHandler
  <2>3. i # handler.next
    BY <1>2, <1>5, <2>2 DEF SocketInv, Stopping
  <2>4. i >= handler.next + 1
    BY <2>2, <2>3, SMTT(20) DEF Typed, Handlers
  <2> QED
    BY <1>1, <1>2, <2>2, <2>4 DEF InHandler
<1>6. OwnerInv'
  BY <1>1, <1>2, <1>5 DEF OwnerInv, HandledNow, InEntry
<1> QED
  BY <1>3, <1>4, <1>6

LEMMA ServeExitsKeeps ==
    ASSUME ServersInv, NEW s \in closing, ServeExits(s)
    PROVE  ServersInv'
<1> USE DEF ServersInv
<1>1. UNCHANGED <<api, known, serversByGateway, handler, running>> /\ closing' = closing \ {s}
  BY DEF ServeExits
<1>2. \A a \in Addr : socket'[a] = IF a = s.addr THEN Nil ELSE socket[a]
  BY DEF ServeExits, Typed
<1>3. Typed'
  BY <1>1, Zenon DEF ServeExits, Typed
<1>4. HandlerInv' /\ EntryInv' /\ ClosingInv'
  BY <1>1, Zenon DEF HandlerInv, EntryInv, HandledNow, ClosingInv, Stopping
<1>5. SocketInv'
  <2>1. handler.op = "wait" /\ s = Stopping
    BY DEF ClosingInv
  <2>2. \A a \in Addr : socket'[a] \in {Nil, OldPod} \/ socket'[a] # s
    BY <1>2, SMTT(20) DEF SocketInv
  <2>3. Stopping' = Stopping
    BY <1>1 DEF Stopping
  <2> QED
    BY <1>1, <1>2, <2>1, <2>2, <2>3 DEF SocketInv
<1>6. \A a \in Addr : socket'[a] \notin {Nil, OldPod} => socket'[a] = socket[a] /\ socket[a] # s
  BY <1>2, Zenon DEF SocketInv
<1>7. OwnerInv'
  BY <1>1, <1>6 DEF OwnerInv, HandledNow, InHandler, InEntry
<1> QED
  BY <1>3, <1>4, <1>5, <1>7

LEMMA AllStoppedKeeps ==
    ASSUME ServersInv, AllStopped
    PROVE  ServersInv'
<1> USE DEF ServersInv
<1> DEFINE g == handler.gw
<1>1. /\ UNCHANGED <<api, known, socket, closing, running>> /\ handler.op = "stop"
      /\ g \in Gateway /\ handler.next > Len(handler.servers)
  BY Zenon DEF AllStopped, HandlerInv
<1>2. /\ handler' \in Handlers /\ (handler' = NoHandler \/ handler'.op = "start")
      /\ handler'.op = "start" =>
            handler'.gw = g /\ handler'.spec = handler.spec /\ handler.isUpdate
  <2>1. CASE handler.isUpdate
    <3>1. handler \in Handlers /\ <<>> \in Seq(Servers) /\ 1 \in Nat \ {0}
      BY DEF Typed
    <3>2. handler' = [handler EXCEPT !.op = "start", !.servers = <<>>, !.next = 1]
      BY <2>1, SMTT(20) DEF AllStopped
    <3> QED
      BY <2>1, <3>1, <3>2, Zenon DEF Handlers
  <2>2. CASE ~handler.isUpdate
    <3>1. handler' = NoHandler
      BY <2>2 DEF AllStopped
    <3> QED
      BY <3>1 DEF NoHandler, Handlers
  <2> QED
    BY <2>1, <2>2
<1>3. handler' = NoHandler \/ (handler'.op = "start" /\ handler'.gw = g)
  BY <1>2
<1>4. \A x \in Gateway : serversByGateway'[x] = IF x = g THEN Nil ELSE serversByGateway[x]
  BY DEF AllStopped, Typed
<1>5. Typed'
  BY <1>1, <1>2, Zenon DEF AllStopped, Typed
<1>6. HandlerInv'
  BY <1>1, <1>2, <1>3 DEF HandlerInv, NoHandler
<1>7. EntryInv'
  BY <1>1, <1>4, Zenon DEF EntryInv, HandledNow
<1>8. ClosingInv' /\ SocketInv'
  BY <1>1, <1>2, SMTT(20) DEF ClosingInv, SocketInv, NoHandler
<1>9. ASSUME NEW a \in Addr, socket[a] \notin closing \cup {Nil, OldPod}
      PROVE  ~HandledNow(socket[a].gw)' /\ InEntry(socket[a])'
  <2>1. socket[a].gw # g
    <3> SUFFICES ASSUME socket[a].gw = g PROVE FALSE
      OBVIOUS
    <3>1. InHandler(socket[a])
      BY <1>1, <1>9, Zenon DEF OwnerInv, HandledNow
    <3> QED
      BY <1>1, <3>1 DEF InHandler, Typed, Handlers
  <2>2. socket[a].gw \in Gateway
    BY <1>9, ServerOf, Zenon DEF Typed
  <2>3. InEntry(socket[a])
    BY <1>1, <1>9, <2>1 DEF OwnerInv, HandledNow
  <2> QED
    BY <1>1, <1>2, <1>3, <1>4, <2>1, <2>2, <2>3 DEF InEntry, HandledNow, NoHandler
<1>10. OwnerInv'
  BY <1>1, <1>9 DEF OwnerInv
<1> QED
  BY <1>5, <1>6, <1>7, <1>8, <1>10

(* A server is passed over: the lists keep what they have.                 *)
LEMMA PassKeeps ==
    ASSUME ServersInv, handler.op = "start", handler' = [handler EXCEPT !.next = @ + 1],
           UNCHANGED <<api, known, serversByGateway, socket, closing, running>>
    PROVE  ServersInv'
<1> USE DEF ServersInv
<1>1. handler \in Handlers /\ handler.next + 1 \in Nat \ {0}
  BY DEF Typed, Handlers
<1>2. /\ handler' \in Handlers /\ handler'.op = "start"
      /\ handler'.gw = handler.gw /\ handler'.spec = handler.spec
      /\ handler'.servers = handler.servers /\ handler'.isUpdate = handler.isUpdate
  BY <1>1 DEF Handlers
<1>3. Typed' /\ HandlerInv' /\ EntryInv'
  BY <1>2 DEF Typed, HandlerInv, EntryInv, HandledNow
<1>4. ClosingInv' /\ SocketInv'
  BY <1>2 DEF ClosingInv, SocketInv
<1>5. OwnerInv'
  BY <1>2, SMTT(20) DEF OwnerInv, HandledNow, InHandler, InEntry
<1> QED
  BY <1>3, <1>4, <1>5

LEMMA InUseKeeps ==
    ASSUME ServersInv, InUse
    PROVE  ServersInv'
<1> USE DEF ServersInv
<1>1. CASE ~handler.isUpdate
  BY <1>1, PassKeeps DEF InUse, MoreToStart
<1>2. CASE handler.isUpdate
  <2>1. /\ handler' = NoHandler /\ closing' = {} /\ running' = FALSE
        /\ UNCHANGED <<api, known, serversByGateway>>
    BY <1>2 DEF InUse
  <2>2. \A a \in Addr : socket'[a] \in {Nil, OldPod}
    BY <1>2, SMTT(20) DEF InUse
  <2>3. NoHandler \in Handlers
    BY NoHandlerTyped
  <2>4. Typed'
    BY <1>2, <2>1, <2>3, ZenonT(30) DEF InUse, Typed
  <2>5. HandlerInv' /\ ClosingInv' /\ SocketInv' /\ OwnerInv'
    BY <2>1, <2>2, Zenon DEF NoHandler, HandlerInv, ClosingInv, SocketInv, OwnerInv
  <2>6. EntryInv'
    BY <2>1 DEF EntryInv, HandledNow, NoHandler, InUse, MoreToStart, HandlerInv
  <2> QED
    BY <2>4, <2>5, <2>6
<1> QED
  BY <1>1, <1>2, Zenon DEF Typed, Handlers

LEMMA NewServerKeeps ==
    ASSUME ServersInv, NewServer
    PROVE  ServersInv'
<1> USE DEF ServersInv
<1> DEFINE s == Starting
<1>1. s \in Servers /\ s.gw = handler.gw /\ s.addr \in Addr
  BY StartingOK DEF NewServer
<1>2. /\ handler \in Handlers /\ handler.next + 1 \in Nat \ {0}
      /\ Append(handler.servers, s) \in Seq(Servers)
  BY <1>1 DEF Typed, Handlers
<1>3. /\ UNCHANGED <<api, known, serversByGateway, closing, running>>
      /\ handler.op = "start" /\ handler.gw \in Gateway /\ running
  BY DEF NewServer, MoreToStart, HandlerInv, SocketInv, Typed
<1>4. /\ handler' \in Handlers /\ handler'.op = "start"
      /\ handler'.gw = handler.gw /\ handler'.spec = handler.spec
      /\ handler'.servers = Append(handler.servers, s) /\ handler'.isUpdate = handler.isUpdate
  <2>1. handler' = [handler EXCEPT !.next = handler.next + 1, !.servers = Append(handler.servers, s)]
    BY DEF NewServer
  <2> HIDE DEF s
  <2> QED
    BY <1>2, <1>3, <2>1, Zenon DEF Handlers
<1>5. \A a \in Addr : socket'[a] = IF a = s.addr THEN s ELSE socket[a]
  BY DEF NewServer, Typed
<1>6. socket' \in [Addr -> Servers \cup {Nil, OldPod}]
  BY <1>1 DEF NewServer, Typed
<1> HIDE DEF s
<1>7. Typed' /\ HandlerInv' /\ EntryInv'
  BY <1>3, <1>4, <1>6, SMTT(20) DEF Typed, HandlerInv, EntryInv, HandledNow
<1>8. ClosingInv' /\ SocketInv'
  BY <1>3, <1>4, <1>5 DEF ClosingInv, SocketInv
<1>9. ASSUME NEW x, x = s \/ InHandler(x)
      PROVE  InHandler(x)'
  <2>1. handler.servers \in Seq(Servers)
    BY <1>2 DEF Handlers
  <2>2. CASE x = s
    <3>1. /\ Len(handler.servers) + 1 \in 1..Len(Append(handler.servers, s))
          /\ Append(handler.servers, s)[Len(handler.servers) + 1] = s
      BY <2>1
    <3> QED
      BY <1>4, <2>2, <3>1 DEF InHandler
  <2>3. CASE InHandler(x)
    <3>1. PICK i \in 1..Len(handler.servers) : handler.servers[i] = x
      BY <2>3 DEF InHandler
    <3>2. /\ i \in 1..Len(Append(handler.servers, s))
          /\ Append(handler.servers, s)[i] = x
      BY <2>1, <3>1
    <3> QED
      BY <1>4, <3>2 DEF InHandler
  <2> QED
    BY <1>9, <2>2, <2>3
<1>10. ASSUME NEW a \in Addr, NEW x, x = socket'[a], x \notin closing \cup {Nil, OldPod}
       PROVE  IF HandledNow(x.gw)' THEN InHandler(x)' ELSE InEntry(x)'
  <2>1. CASE a = s.addr
    <3>1. x = s /\ x.gw = handler.gw
      BY <1>1, <1>5, <1>10, <2>1, SMTT(20)
    <3> QED
      BY <1>4, <1>9, <3>1 DEF HandledNow
  <2>2. CASE a # s.addr
    <3>1. x = socket[a]
      BY <1>5, <1>10, <2>2, Zenon
    <3>2. CASE x.gw = handler.gw
      <4>1. InHandler(x)
        BY <1>3, <1>10, <3>1, <3>2, Zenon DEF OwnerInv, HandledNow
      <4> QED
        BY <1>4, <1>9, <3>2, <4>1, Zenon DEF HandledNow
    <3>3. CASE x.gw # handler.gw
      <4>1. InEntry(x)
        BY <1>10, <3>1, <3>3, ZenonT(30) DEF OwnerInv, HandledNow
      <4> QED
        BY <1>3, <1>4, <3>3, <4>1 DEF HandledNow, InEntry
    <3> QED
      BY <3>2, <3>3
  <2> QED
    BY <2>1, <2>2, Zenon
<1>11. OwnerInv'
  BY <1>3, <1>10 DEF OwnerInv, HandledNow, InHandler, InEntry
<1> QED
  BY <1>7, <1>8, <1>11

LEMMA AllStartedKeeps ==
    ASSUME ServersInv, AllStarted
    PROVE  ServersInv'
<1> USE DEF ServersInv
<1> DEFINE g == handler.gw
<1>1. /\ UNCHANGED <<api, known, socket, closing, running>> /\ handler.op = "start"
      /\ g \in Gateway /\ handler' = NoHandler /\ handler.servers \in Seq(Servers)
      /\ known[g] # Nil
  BY SMTT(20) DEF AllStarted, HandlerInv, Typed, Handlers
<1>2. NoHandler \in Handlers
  BY NoHandlerTyped
<1>3. \A x \in Gateway :
         serversByGateway'[x] = IF x = g THEN handler.servers ELSE serversByGateway[x]
  BY DEF AllStarted, Typed
<1>4. Typed'
  BY <1>1, <1>2, SMTT(20) DEF AllStarted, Typed
<1>5. HandlerInv' /\ ClosingInv' /\ SocketInv'
  BY <1>1, Zenon DEF NoHandler, HandlerInv, ClosingInv, SocketInv
<1>6. EntryInv'
  BY <1>1, <1>3, SMTT(20) DEF EntryInv, HandledNow
<1>7. ASSUME NEW a \in Addr, socket[a] \notin closing \cup {Nil, OldPod}
      PROVE  InEntry(socket[a])'
  <2>1. socket[a].gw \in Gateway
    BY <1>7, ServerOf DEF Typed
  <2>2. CASE socket[a].gw = g
    <3>1. InHandler(socket[a])
      BY <1>1, <1>7, <2>2 DEF OwnerInv, HandledNow
    <3>2. handler.servers # Nil
      BY <1>1, GatewayAssumption, Zenon DEF GatewayAssumption
    <3> QED
      BY <1>1, <1>3, <2>1, <2>2, <3>1, <3>2, Zenon DEF InHandler, InEntry
  <2>3. CASE socket[a].gw # g
    <3>1. InEntry(socket[a])
      BY <1>7, <2>3, SMTT(20) DEF OwnerInv, HandledNow
    <3> QED
      BY <1>1, <1>3, <2>1, <2>3, <3>1, Zenon DEF InEntry
  <2> QED
    BY <2>2, <2>3, SMTT(20)
<1>8. OwnerInv'
  BY <1>1, <1>7, Zenon DEF OwnerInv, HandledNow, NoHandler
<1> QED
  BY <1>4, <1>5, <1>6, <1>8, SMTT(20)

LEMMA InvKept == ServersInv /\ [GatewayNext]_gatewayVars => ServersInv'
BY SMTT(20), EnvironmentKeeps, HandleKeeps, StopKeeps, StoppedKeeps, AllStoppedKeeps, NewServerKeeps,
   InUseKeeps, AllStartedKeeps, ServeExitsKeeps, PassKeeps
DEF GatewayNext, HandlerStep, ListenFails, MoreToStart

-----------------------------------------------------------------------------
(* Induction.  The induction theorems of the library take an operator that *)
(* the provers cannot instantiate; these take the set where a claim holds. *)

INSTANCE SequenceTheorems
INSTANCE WellFoundedInduction

LEMMA NatMinimum ==
    ASSUME NEW S, S \subseteq Nat, S # {}
    PROVE  \E n \in S : \A m \in S : n <= m
<1> DEFINE R == OpToRel(<, Nat)
<1>1. IsWellFoundedOn(R, Nat)
  BY NatLessThanWellFounded, Zenon
<1>2. \A n, m \in Nat : <<m, n>> \in R <=> m < n
  BY DEF OpToRel
<1> HIDE DEF R
<1>3. PICK n \in S : \A m \in S : ~(<<m, n>> \in R)
  BY <1>1, WFMin, Zenon
<1>4. n \in Nat /\ \A m \in S : m \in Nat /\ ~(m < n)
  BY <1>2, <1>3, Zenon
<1>5. \A m \in S : n <= m
  BY <1>4
<1> QED
  BY <1>3, <1>5

(* What holds at 0, and at each k up to N if at k - 1, holds up to N.      *)
LEMMA IntervalInduction ==
    ASSUME NEW N \in Nat, NEW S, 0 \in S, \A k \in 1..N : k - 1 \in S => k \in S
    PROVE  \A k \in 0..N : k \in S
<1> SUFFICES ASSUME NEW k \in 0..N, k \notin S PROVE FALSE
  OBVIOUS
<1> DEFINE T == {n \in 0..N : n \notin S}
<1>1. T \subseteq Nat /\ T # {}
  OBVIOUS
<1>2. PICK n \in T : \A m \in T : n <= m
  BY <1>1, NatMinimum, Zenon
<1>3. n # 0 /\ n \in 1..N /\ n - 1 \in 0..N /\ ~(n <= n - 1)
  BY <1>2
<1>4. n - 1 \in S
  BY <1>2, <1>3
<1> QED
  BY <1>2, <1>3, <1>4, Zenon

(* What holds of the empty sequence, and of Append(s, x) if of s, holds of *)
(* all sequences.                                                          *)
LEMMA SequenceInduction ==
    ASSUME NEW T, NEW S, <<>> \in S, \A s \in Seq(T), x \in T : s \in S => Append(s, x) \in S
    PROVE  \A s \in Seq(T) : s \in S
<1> SUFFICES ASSUME NEW s \in Seq(T) PROVE s \in S
  OBVIOUS
<1> DEFINE N == Len(s)
           Prefix(k) == SubSeq(s, 1, k)
           K == {k \in 0..N : Prefix(k) \in S}
<1>1. N \in Nat /\ \A k \in 1..N : s[k] \in T
  OBVIOUS
<1>2. Prefix(0) = <<>>
  BY SubSeqEmpty
<1>3. ASSUME NEW k \in 1..N
      PROVE  Prefix(k - 1) \in Seq(T) /\ Prefix(k) = Append(Prefix(k - 1), s[k])
  <2>1. Prefix(k - 1) \in Seq(T)
    BY <1>1, SubSeqProperties
  <2>2. Prefix(k) = Append(Prefix(k - 1), s[k])
    BY <1>1
  <2> QED
    BY <2>1, <2>2, Zenon
<1>a. Prefix(N) = s
  BY SubSeqFull
<1> HIDE DEF N, Prefix
<1>b. 0 \in K
  BY <1>1, <1>2
<1>c. ASSUME NEW k \in 1..N, k - 1 \in K PROVE k \in K
  <2>1. Prefix(k - 1) \in S /\ Prefix(k - 1) \in Seq(T) /\ s[k] \in T
    BY <1>1, <1>3, <1>c
  <2>2. Prefix(k) \in S
    BY <1>3, <2>1, Zenon
  <2>3. k \in 0..N
    BY <1>1
  <2> QED
    BY <2>2, <2>3, Zenon
<1>4. \A k \in 0..N : k \in K
  <2> HIDE DEF K
  <2> QED
    BY <1>1, <1>b, <1>c, IntervalInduction, Zenon
<1>5. N \in K
  BY <1>1, <1>4
<1> QED
  BY <1>5, <1>a

(* f is a loop of N rounds that starts with c and goes from v to           *)
(* G[<<k, v>>] in round k.                                                 *)
IsLoop(f, N, V, c, G) ==
    f \in [0..N -> V] /\ f[0] = c /\ \A k \in 1..N : f[k] = G[<<k, f[k - 1]>>]

LEMMA LoopExists ==
    ASSUME NEW V, NEW c \in V, NEW G \in [Nat \X V -> V], NEW N \in Nat
    PROVE  \E f : IsLoop(f, N, V, c, G)
<1> DEFINE S == {n \in 0..N : \E f : IsLoop(f, n, V, c, G)}
<1>1. 0 \in S
  <2>1. IsLoop([k \in 0..0 |-> c], 0, V, c, G)
    BY DEF IsLoop
  <2> QED
    BY <2>1
<1>2. ASSUME NEW n \in 1..N, n - 1 \in S PROVE n \in S
  <2>1. PICK f : IsLoop(f, n - 1, V, c, G)
    BY <1>2
  <2> DEFINE g == [k \in 0..n |-> IF k = n THEN G[<<n, f[n - 1]>>] ELSE f[k]]
  <2>2. G[<<n, f[n - 1]>>] \in V
    BY <2>1 DEF IsLoop
  <2>3. g \in [0..n -> V] /\ g[0] = c
    BY <2>1, <2>2, SMTT(20) DEF IsLoop
  <2>4. ASSUME NEW k \in 1..n PROVE g[k] = G[<<k, g[k - 1]>>]
    <3>1. CASE k = n
      <4>1. g[k - 1] = f[n - 1] /\ g[k] = G[<<n, f[n - 1]>>]
        BY <3>1
      <4> QED
        BY <3>1, <4>1, Zenon
    <3>2. CASE k # n
      <4>1. k \in 1..(n - 1) /\ g[k] = f[k] /\ g[k - 1] = f[k - 1]
        BY <3>2
      <4> QED
        BY <2>1, <4>1, Zenon DEF IsLoop
    <3> QED
      BY <3>1, <3>2
  <2> HIDE DEF g
  <2>5. IsLoop(g, n, V, c, G)
    BY <2>3, <2>4, Zenon DEF IsLoop
  <2> QED
    BY <2>5
<1> HIDE DEF S
<1>3. \A n \in 0..N : n \in S
  BY <1>1, <1>2, IntervalInduction, ZenonT(30)
<1>4. N \in S
  BY <1>3
<1> QED
  BY <1>4 DEF S

-----------------------------------------------------------------------------
(* The loops over the addresses                                           *)

(* f has the values of the loop of Kept(s, S).                             *)
KeptBy(f, s, S, T) ==
    /\ f[0] = <<>> /\ Kept(s, S) = f[Len(s)]
    /\ \A k \in 0..Len(s) : f[k] \in Seq(T)
    /\ \A k \in 1..Len(s) : f[k] = IF s[k] \in S THEN Append(f[k - 1], s[k]) ELSE f[k - 1]

LEMMA KeptLoop ==
    ASSUME NEW T, NEW s \in Seq(T), NEW S
    PROVE  \E f : KeptBy(f, s, S, T)
<1> DEFINE N == Len(s)
           V == Seq(T)
           Body(f) == [k \in 0..N |->
                         IF k = 0 THEN <<>>
                         ELSE IF s[k] \in S THEN Append(f[k - 1], s[k]) ELSE f[k - 1]]
           G == [p \in Nat \X V |->
                   IF p[1] \in 1..N /\ s[p[1]] \in S THEN Append(p[2], s[p[1]]) ELSE p[2]]
           res == CHOOSE f : f = Body(f)
<1>1. /\ N \in Nat /\ <<>> \in V
      /\ \A k \in 1..N : s[k] \in T /\ \A v \in V : Append(v, s[k]) \in V
  <2>1. \A v \in V, x \in T : Append(v, x) \in V
    BY AppendProperties
  <2>2. \A k \in 1..N : s[k] \in T
    OBVIOUS
  <2> QED
    BY <2>1, <2>2
<1>2. Kept(s, S) = res[N]
  BY SMTT(30) DEF Kept
<1> HIDE DEF N, V
<1>3. res = Body(res)
  <2>1. G \in [Nat \X V -> V]
    <3>1. ASSUME NEW p \in Nat \X V PROVE G[p] \in V
      <4>1. p[2] \in V
        OBVIOUS
      <4> QED
        BY <1>1, <4>1, Zenon
    <3> QED
      BY <3>1
  <2>2. PICK f : IsLoop(f, N, V, <<>>, G)
    <3> HIDE DEF G
    <3> QED
      BY <1>1, <2>1, LoopExists, Zenon
  <2>3. ASSUME NEW k \in 0..N PROVE f[k] = Body(f)[k]
    <3>1. CASE k = 0
      <4>1. Body(f)[0] = <<>>
        BY <1>1
      <4> QED
        BY <2>2, <3>1, <4>1, Zenon DEF IsLoop
    <3>2. CASE k # 0
      <4>1. k \in 1..N /\ k \in Nat /\ k - 1 \in 0..N
        BY <1>1, <3>2
      <4>2. f[k - 1] \in V /\ f[k] = G[<<k, f[k - 1]>>]
        <5> HIDE DEF G
        <5> QED
          BY <2>2, <4>1, Zenon DEF IsLoop
      <4>3. <<k, f[k - 1]>> \in Nat \X V
        BY <4>1, <4>2, Zenon
      <4>4. G[<<k, f[k - 1]>>] = IF s[k] \in S THEN Append(f[k - 1], s[k]) ELSE f[k - 1]
        BY <4>1, <4>3, Zenon
      <4>5. Body(f)[k] = IF s[k] \in S THEN Append(f[k - 1], s[k]) ELSE f[k - 1]
        BY <3>2, Zenon
      <4> QED
        BY <4>2, <4>4, <4>5, Zenon
    <3> QED
      BY <3>1, <3>2, Zenon
  <2>4. DOMAIN f = 0..N /\ f = [k \in DOMAIN f |-> f[k]]
    BY <2>2 DEF IsLoop
  <2>5. f = Body(f)
    BY <2>3, <2>4, Zenon
  <2> QED
    BY <2>5, Zenon
<1>4. res[0] = <<>>
  <2>1. res[0] = Body(res)[0]
    BY <1>3, Zenon
  <2> HIDE DEF res
  <2>2. Body(res)[0] = <<>>
    BY <1>1
  <2> QED
    BY <2>1, <2>2
<1>5. ASSUME NEW k \in 1..N
      PROVE  res[k] = IF s[k] \in S THEN Append(res[k - 1], s[k]) ELSE res[k - 1]
  <2>1. res[k] = Body(res)[k]
    BY <1>3, Zenon
  <2> HIDE DEF res
  <2>2. Body(res)[k] = IF s[k] \in S THEN Append(res[k - 1], s[k]) ELSE res[k - 1]
    BY <1>1
  <2> QED
    BY <2>1, <2>2
<1> HIDE DEF res
<1>6. \A k \in 0..N : res[k] \in V
  <2> DEFINE K == {k \in 0..N : res[k] \in V}
  <2>1. 0 \in K
    BY <1>1, <1>4
  <2>2. ASSUME NEW k \in 1..N, k - 1 \in K PROVE k \in K
    <3>1. res[k - 1] \in V
      BY <1>1, <2>2
    <3>2. res[k] \in V
      BY <1>1, <1>5, <3>1, Zenon
    <3> QED
      BY <1>1, <3>2
  <2> HIDE DEF K
  <2>3. \A k \in 0..N : k \in K
    BY <1>1, <2>1, <2>2, IntervalInduction, Zenon
  <2> QED
    BY <2>3, Zenon DEF K
<1>7. KeptBy(res, s, S, T)
  BY <1>2, <1>4, <1>5, <1>6, ZenonT(30) DEF KeptBy, N, V
<1> QED
  BY <1>7

LEMMA KeptEmpty ==
    ASSUME NEW S PROVE Kept(<<>>, S) = <<>>
<1>1. <<>> \in Seq({})
  OBVIOUS
<1>2. PICK f : KeptBy(f, <<>>, S, {})
  BY <1>1, KeptLoop, Zenon
<1> QED
  BY <1>2 DEF KeptBy

LEMMA KeptAppend ==
    ASSUME NEW T, NEW s \in Seq(T), NEW x \in T, NEW S
    PROVE  /\ x \in S => Kept(Append(s, x), S) = Append(Kept(s, S), x)
           /\ x \notin S => Kept(Append(s, x), S) = Kept(s, S)
<1> DEFINE t == Append(s, x)
           N == Len(s)
<1>1. /\ t \in Seq(T) /\ N \in Nat /\ Len(t) = N + 1 /\ t[N + 1] = x
      /\ \A k \in 1..N : t[k] = s[k]
  BY AppendProperties
<1>2. PICK f : KeptBy(f, s, S, T)
  BY KeptLoop, Zenon
<1> HIDE DEF t
<1>3. PICK g : KeptBy(g, t, S, T)
  BY <1>1, KeptLoop, Zenon
<1>4. /\ f[0] = <<>> /\ Kept(s, S) = f[N] /\ f[N] \in Seq(T)
      /\ \A k \in 1..N : f[k] = IF s[k] \in S THEN Append(f[k - 1], s[k]) ELSE f[k - 1]
  BY <1>1, <1>2 DEF KeptBy
<1> HIDE DEF N
<1>5. /\ g[0] = <<>> /\ Kept(t, S) = g[N + 1]
      /\ \A k \in 1..(N + 1) : g[k] = IF t[k] \in S THEN Append(g[k - 1], t[k]) ELSE g[k - 1]
  BY <1>1, <1>3, Zenon DEF KeptBy
<1> DEFINE K == {k \in 0..N : f[k] = g[k]}
<1>6. 0 \in K
  BY <1>1, <1>4, <1>5
<1>7. ASSUME NEW k \in 1..N, k - 1 \in K PROVE k \in K
  <2>1. k \in 1..(N + 1) /\ k \in 0..N /\ t[k] = s[k] /\ f[k - 1] = g[k - 1]
    BY <1>1, <1>7, SMTT(20)
  <2>2. f[k] = g[k]
    BY <1>4, <1>5, <2>1
  <2> QED
    BY <2>1, <2>2, Zenon
<1>8. \A k \in 0..N : k \in K
  <2> HIDE DEF K
  <2> QED
    BY <1>1, <1>6, <1>7, IntervalInduction, Zenon
<1>9. f[N] = g[N] /\ (N + 1) - 1 = N /\ N + 1 \in 1..(N + 1)
  BY <1>1, <1>8
<1>10. g[N + 1] = IF x \in S THEN Append(g[N], x) ELSE g[N]
  BY <1>1, <1>5, <1>9
<1> QED
  BY <1>4, <1>5, <1>9, <1>10, ZenonT(30) DEF t

LEMMA KeptTyped ==
    ASSUME NEW T, NEW s \in Seq(T), NEW S PROVE Kept(s, S) \in Seq(T)
<1>1. PICK f : KeptBy(f, s, S, T)
  BY KeptLoop, Zenon
<1>2. Len(s) \in 0..Len(s)
  OBVIOUS
<1> QED
  BY <1>1, <1>2, Zenon DEF KeptBy

(* Only the elements of s in S count.                                      *)
LEMMA KeptSame ==
    ASSUME NEW T, NEW A, NEW B, \A x \in T : x \in A <=> x \in B
    PROVE  \A s \in Seq(T) : Kept(s, A) = Kept(s, B)
<1> DEFINE S == {s \in Seq(T) : Kept(s, A) = Kept(s, B)}
<1>1. <<>> \in S
  BY KeptEmpty
<1>2. ASSUME NEW s \in Seq(T), NEW x \in T, s \in S PROVE Append(s, x) \in S
  <2>1. \A C : /\ x \in C => Kept(Append(s, x), C) = Append(Kept(s, C), x)
               /\ x \notin C => Kept(Append(s, x), C) = Kept(s, C)
    BY KeptAppend, Zenon
  <2>2. Kept(Append(s, x), A) = Kept(Append(s, x), B)
    BY <1>2, <2>1, Zenon
  <2>3. Append(s, x) \in Seq(T)
    BY AppendProperties
  <2> QED
    BY <2>2, <2>3
<1> HIDE DEF S
<1>3. \A s \in Seq(T) : s \in S
  BY <1>1, <1>2, SequenceInduction
<1> QED
  BY <1>3, Zenon DEF S

LEMMA KeptWhole ==
    ASSUME NEW T
    PROVE  \A s \in Seq(T) : Kept(s, T) = s
<1> DEFINE S == {s \in Seq(T) : Kept(s, T) = s}
<1>1. <<>> \in S
  BY KeptEmpty
<1>2. ASSUME NEW s \in Seq(T), NEW x \in T, s \in S PROVE Append(s, x) \in S
  <2>1. Kept(Append(s, x), T) = Append(Kept(s, T), x)
    BY KeptAppend, Zenon
  <2>2. Append(s, x) \in Seq(T)
    BY AppendProperties
  <2> QED
    BY <1>2, <2>1, <2>2, Zenon
<1> HIDE DEF S
<1>3. \A s \in Seq(T) : s \in S
  BY <1>1, <1>2, SequenceInduction
<1> QED
  BY <1>3 DEF S

(* A filter of what a filter left.                                         *)
LEMMA KeptTwice ==
    ASSUME NEW T, NEW A, NEW B
    PROVE  \A s \in Seq(T) : Kept(Kept(s, A), B) = Kept(s, A \cap B)
<1> DEFINE S == {s \in Seq(T) : Kept(Kept(s, A), B) = Kept(s, A \cap B)}
<1>1. <<>> \in S
  BY KeptEmpty
<1>2. ASSUME NEW s \in Seq(T), NEW x \in T, s \in S PROVE Append(s, x) \in S
  <2> DEFINE k == Kept(s, A)
             kk == Kept(s, A \cap B)
  <2>1. k \in Seq(T)
    BY KeptTyped
  <2>a. \A C : /\ x \in C => Kept(Append(s, x), C) = Append(Kept(s, C), x)
               /\ x \notin C => Kept(Append(s, x), C) = Kept(s, C)
    BY KeptAppend, Zenon
  <2>2. Kept(Append(s, x), A) = IF x \in A THEN Append(k, x) ELSE k
    BY <2>a, Zenon
  <2>3. Kept(Append(s, x), A \cap B) = IF x \in A \cap B THEN Append(kk, x) ELSE kk
    BY <2>a
  <2>4. Kept(k, B) = kk
    BY <1>2, Zenon
  <2> HIDE DEF k, kk
  <2>5. /\ x \in B => Kept(Append(k, x), B) = Append(Kept(k, B), x)
        /\ x \notin B => Kept(Append(k, x), B) = Kept(k, B)
    BY <2>1, KeptAppend, ZenonT(30)
  <2>6. Kept(Kept(Append(s, x), A), B) = Kept(Append(s, x), A \cap B)
    BY <2>2, <2>3, <2>4, <2>5, Zenon
  <2>7. Append(s, x) \in Seq(T)
    BY AppendProperties
  <2> QED
    BY <2>6, <2>7, Zenon
<1> HIDE DEF S
<1>3. \A s \in Seq(T) : s \in S
  BY <1>1, <1>2, SequenceInduction
<1> QED
  BY <1>3, Zenon DEF S

(* The addresses of the cards are addresses.                               *)
LEMMA IPsOfTyped ==
    ASSUME NEW names, names \in Seq(Range(names)) PROVE IPsOf(names) \in Seq(IP)
<1> DEFINE N == Len(names)
           V == Seq(IP)
           Body(f) == [k \in 0..N |-> IF k = 0 THEN <<>> ELSE f[k - 1] \o GetIPsByName(names[k])]
           G == [p \in Nat \X V |-> p[2] \o GetIPsByName(names[p[1]])]
           ips == CHOOSE f : f = Body(f)
<1>1. N \in Nat /\ <<>> \in V
  OBVIOUS
<1>2. \A v \in V, k \in Nat : v \o GetIPsByName(names[k]) \in V
  <2>1. \A name : GetIPsByName(name) \in V
    BY <1>1, ListenAssumption, Zenon DEF GetIPsByName
  <2>2. \A v, w \in V : v \o w \in V
    BY ConcatProperties
  <2> HIDE DEF V
  <2> QED
    BY <2>1, <2>2, Zenon
<1>3. IPsOf(names) = ips[N]
  BY SMTT(30) DEF IPsOf
<1> HIDE DEF N, V
<1>4. ips = Body(ips)
  <2>1. G \in [Nat \X V -> V]
    <3>1. ASSUME NEW p \in Nat \X V PROVE G[p] \in V
      <4>1. p[1] \in Nat /\ p[2] \in V
        OBVIOUS
      <4>2. G[p] = p[2] \o GetIPsByName(names[p[1]])
        OBVIOUS
      <4> QED
        BY <1>2, <4>1, <4>2, ZenonT(30)
    <3> QED
      BY <3>1, Zenon
  <2>2. PICK f : IsLoop(f, N, V, <<>>, G)
    <3> HIDE DEF G
    <3> QED
      BY <1>1, <2>1, LoopExists, Zenon
  <2>3. ASSUME NEW k \in 0..N PROVE f[k] = Body(f)[k]
    <3>1. CASE k = 0
      <4>1. Body(f)[0] = <<>>
        BY <1>1
      <4> QED
        BY <2>2, <3>1, <4>1, Zenon DEF IsLoop
    <3>2. CASE k # 0
      <4>1. k \in 1..N /\ k \in Nat /\ k - 1 \in 0..N
        BY <1>1, <3>2
      <4>2. f[k - 1] \in V /\ f[k] = G[<<k, f[k - 1]>>]
        <5> HIDE DEF G
        <5> QED
          BY <2>2, <4>1, Zenon DEF IsLoop
      <4>3. <<k, f[k - 1]>> \in Nat \X V
        BY <4>1, <4>2
      <4>4. G[<<k, f[k - 1]>>] = f[k - 1] \o GetIPsByName(names[k])
        BY <4>1, <4>3, Zenon
      <4>5. Body(f)[k] = f[k - 1] \o GetIPsByName(names[k])
        BY <3>2, Zenon
      <4> QED
        BY <4>2, <4>4, <4>5, Zenon
    <3> QED
      BY <3>1, <3>2, Zenon
  <2>4. DOMAIN f = 0..N /\ f = [k \in DOMAIN f |-> f[k]]
    BY <2>2 DEF IsLoop
  <2>5. f = Body(f)
    BY <2>3, <2>4, Zenon
  <2> QED
    BY <2>5, Zenon
<1>5. ips[0] = <<>>
  <2>1. ips[0] = Body(ips)[0]
    BY <1>4, Zenon
  <2> HIDE DEF ips
  <2>2. Body(ips)[0] = <<>>
    BY <1>1
  <2> QED
    BY <2>1, <2>2
<1>6. ASSUME NEW k \in 1..N PROVE ips[k] = ips[k - 1] \o GetIPsByName(names[k])
  <2>1. ips[k] = Body(ips)[k]
    BY <1>4, Zenon
  <2> HIDE DEF ips
  <2>2. Body(ips)[k] = ips[k - 1] \o GetIPsByName(names[k])
    BY <1>1
  <2> QED
    BY <2>1, <2>2, Zenon
<1> HIDE DEF ips
<1> DEFINE K == {k \in 0..N : ips[k] \in V}
<1>7. 0 \in K
  BY <1>1, <1>5
<1>8. ASSUME NEW k \in 1..N, k - 1 \in K PROVE k \in K
  <2>1. ips[k - 1] \in V /\ k \in Nat /\ k \in 0..N
    BY <1>1, <1>8
  <2>2. ips[k] \in V
    BY <1>2, <1>6, <2>1, Zenon
  <2> QED
    BY <2>1, <2>2, Zenon
<1>9. \A k \in 0..N : k \in K
  <2> HIDE DEF K
  <2> QED
    BY <1>1, <1>7, <1>8, IntervalInduction, Zenon
<1>10. N \in K
  BY <1>1, <1>9
<1> QED
  BY <1>3, <1>10 DEF V

(* Removing the element after p.                                           *)
LEMMA RemovedAfter ==
    ASSUME NEW T, NEW p \in Seq(T), NEW x \in T, NEW r \in Seq(T)
    PROVE  Removed(Append(p, x) \o r, Len(p) + 1) = p \o r
<1> DEFINE q == Append(p, x)
           t == q \o r
           i == Len(p) + 1
<1>1. q \in Seq(T) /\ Len(q) = i /\ \A k \in 1..Len(p) : q[k] = p[k]
  BY AppendProperties
<1>2. Len(p) \in Nat /\ Len(r) \in Nat
  OBVIOUS
<1>3. t \in Seq(T) /\ Len(t) = i + Len(r)
  BY <1>1, <1>2, ConcatProperties
<1>4. \A k \in 1..(i + Len(r)) : t[k] = IF k <= i THEN q[k] ELSE r[k - i]
  BY <1>1, <1>2, ConcatProperties
<1>5. SubSeq(t, 1, i - 1) = p
  <2>1. \A k \in 1..Len(p) : t[k] = p[k] /\ t[k] \in T
    BY <1>1, <1>2, <1>4
  <2> HIDE DEF t
  <2>2. SubSeq(t, 1, Len(p)) \in Seq(T) /\ Len(SubSeq(t, 1, Len(p))) = Len(p)
        /\ \A k \in 1..Len(p) : SubSeq(t, 1, Len(p))[k] = t[k]
    BY <1>2, <2>1, SubSeqProperties
  <2>3. SubSeq(t, 1, Len(p)) = p
    BY <2>1, <2>2, SeqEqual, Zenon
  <2> QED
    BY <1>2, <2>3
<1>6. SubSeq(t, i + 1, Len(t)) = r
  <2>1. \A k \in 1..Len(r) : t[i + k] = r[k] /\ r[k] \in T
    BY <1>2, <1>4
  <2> HIDE DEF t
  <2> DEFINE u == SubSeq(t, i + 1, Len(t))
  <2>2. \A k \in (i + 1)..Len(t) : t[k] \in T
    BY <1>2, <1>3
  <2>3. u \in Seq(T) /\ Len(u) = Len(r) /\ \A k \in 1..Len(r) : u[k] = t[i + k]
    BY <1>2, <1>3, <2>2, SubSeqProperties
  <2> HIDE DEF u
  <2>4. u = r
    BY <2>1, <2>3, SeqEqual, Zenon
  <2> QED
    BY <2>4, Zenon DEF u
<1> HIDE DEF t, i
<1>7. Removed(t, i) = p \o r
  BY <1>5, <1>6, Zenon DEF Removed
<1> QED
  BY <1>7 DEF t, i

(* Splitting off the first element of what follows p.                      *)
LEMMA SplitNext ==
    ASSUME NEW T, NEW s \in Seq(T), NEW p \in Seq(T), NEW n \in 1..Len(s)
    PROVE  p \o SubSeq(s, n, Len(s)) = Append(p, s[n]) \o SubSeq(s, n + 1, Len(s))
<1> DEFINE r == SubSeq(s, n + 1, Len(s))
<1>1. s[n] \in T /\ n \in Nat /\ Len(s) \in Nat
  OBVIOUS
<1>2. r \in Seq(T)
  <2>1. \A k \in (n + 1)..Len(s) : s[k] \in T
    BY <1>1
  <2> QED
    BY <1>1, <2>1, SubSeqProperties
<1>3. SubSeq(s, n, Len(s)) = <<s[n]>> \o r
  BY <1>1, SubSeqRecursiveFirst
<1> HIDE DEF r
<1>4. Append(p, s[n]) = p \o <<s[n]>> /\ <<s[n]>> \in Seq(T)
  BY <1>1, AppendIsConcat
<1>5. (p \o <<s[n]>>) \o r = p \o (<<s[n]>> \o r)
  BY <1>2, <1>4, ConcatAssociative, SMTT(30)
<1> QED
  BY <1>3, <1>4, <1>5, Zenon DEF r

(* After n rounds of an exclude loop the first n addresses are filtered,   *)
(* and the index is behind those left of them; so it removes the dropped   *)
(* ones and no others.                                                     *)
LEMMA ExcludeLoopKeeps ==
    ASSUME NEW T, NEW ips \in Seq(T), NEW dropped
    PROVE  ExcludeLoop(ips, dropped) = Kept(ips, T \ dropped)
<1> DEFINE N == Len(ips)
           Left(n) == Kept(SubSeq(ips, 1, n), T \ dropped)
           Rest(n) == SubSeq(ips, n + 1, N)
           Round(n) == [ips |-> Left(n) \o Rest(n), i |-> Len(Left(n)) + 1]
           Start == [ips |-> ips, i |-> 1]
           Body(f) == [n \in 0..N |-> IF n = 0 THEN Start ELSE Iteration(f[n - 1], dropped)]
           after == CHOOSE f : f = Body(f)
<1>1. N \in Nat /\ \A k \in 1..N : ips[k] \in T
  OBVIOUS
<1>2. ExcludeLoop(ips, dropped) = after[N].ips
  BY SMTT(30), Zenon DEF ExcludeLoop
<1>3. Round(0) = Start
  <2>1. SubSeq(ips, 1, 0) = <<>> /\ SubSeq(ips, 1, N) = ips
    BY SubSeqEmpty, SubSeqFull
  <2>2. Left(0) = <<>>
    BY <2>1, KeptEmpty, Zenon
  <2>3. Rest(0) = ips
    BY <2>1
  <2> HIDE DEF Left, Rest
  <2> QED
    BY <2>2, <2>3
<1>4. Left(N) = Kept(ips, T \ dropped) /\ Rest(N) = <<>>
  <2>1. SubSeq(ips, 1, N) = ips
    BY SubSeqFull
  <2>2. SubSeq(ips, N + 1, N) = <<>>
    BY <1>1, SubSeqEmpty
  <2> QED
    BY <2>1, <2>2, Zenon
<1>5. ASSUME NEW n \in 0..N PROVE Left(n) \in Seq(T) /\ Rest(n) \in Seq(T) /\ Len(Left(n)) \in Nat
  <2>1. SubSeq(ips, 1, n) \in Seq(T)
    BY <1>1, SubSeqProperties
  <2>2. Left(n) \in Seq(T)
    BY <2>1, KeptTyped, Zenon
  <2>3. Rest(n) \in Seq(T)
    <3>1. \A k \in (n + 1)..N : ips[k] \in T
      BY <1>1
    <3> HIDE DEF N
    <3> QED
      BY <1>1, <3>1, SubSeqProperties
  <2> HIDE DEF Left
  <2> QED
    BY <2>2, <2>3
<1>6. ASSUME NEW n \in 1..N
      PROVE  /\ n \in 0..N /\ n - 1 \in 0..N /\ ips[n] \in T
             /\ Left(n - 1) \o Rest(n - 1) = Append(Left(n - 1), ips[n]) \o Rest(n)
             /\ ips[n] \notin dropped => Left(n) = Append(Left(n - 1), ips[n])
             /\ ips[n] \in dropped => Left(n) = Left(n - 1)
  <2>1. n \in 0..N /\ n - 1 \in 0..N /\ ips[n] \in T /\ (n - 1) + 1 = n
    BY <1>1
  <2>2. Left(n - 1) \in Seq(T) /\ Rest(n - 1) = SubSeq(ips, n, N)
    BY <1>5, <2>1, Zenon
  <2>3. SubSeq(ips, 1, n) = Append(SubSeq(ips, 1, n - 1), ips[n]) /\ SubSeq(ips, 1, n - 1) \in Seq(T)
    <3>1. SubSeq(ips, 1, n - 1) \in Seq(T)
      BY <1>1, SubSeqProperties
    <3>2. SubSeq(ips, 1, n) = Append(SubSeq(ips, 1, n - 1), ips[n])
      BY <1>1
    <3> QED
      BY <3>1, <3>2, Zenon
  <2>4. /\ ips[n] \in T \ dropped => Left(n) = Append(Left(n - 1), ips[n])
        /\ ips[n] \notin T \ dropped => Left(n) = Left(n - 1)
    <3> DEFINE u == SubSeq(ips, 1, n - 1)
               D == T \ dropped
    <3>1. Left(n) = Kept(Append(u, ips[n]), D) /\ Left(n - 1) = Kept(u, D) /\ u \in Seq(T)
      BY <2>3, Zenon
    <3> HIDE DEF u, D
    <3>2. /\ ips[n] \in D => Kept(Append(u, ips[n]), D) = Append(Kept(u, D), ips[n])
          /\ ips[n] \notin D => Kept(Append(u, ips[n]), D) = Kept(u, D)
      BY <2>1, <3>1, KeptAppend, Zenon
    <3> HIDE DEF Left
    <3> QED
      BY <3>1, <3>2, Zenon DEF D
  <2> HIDE DEF Left
  <2>5. Left(n - 1) \o SubSeq(ips, n, N) = Append(Left(n - 1), ips[n]) \o Rest(n)
    BY <2>2, SplitNext, Zenon
  <2> QED
    BY <2>1, <2>2, <2>4, <2>5, Zenon
<1> HIDE DEF N, Left, Rest
<1>7. ASSUME NEW n \in 1..N PROVE Iteration(Round(n - 1), dropped) = Round(n)
  <2> DEFINE p == Left(n - 1)
             q == Append(p, ips[n])
             r == Rest(n)
             t == q \o r
  <2>1. n \in 0..N /\ n - 1 \in 0..N /\ ips[n] \in T
    BY <1>6
  <2>2. p \in Seq(T) /\ r \in Seq(T) /\ Len(p) \in Nat /\ Len(r) \in Nat
    BY <1>5, <2>1
  <2>3. q \in Seq(T) /\ Len(q) = Len(p) + 1 /\ q[Len(p) + 1] = ips[n]
    BY <2>1, <2>2, AppendProperties
  <2>4. Removed(t, Len(p) + 1) = p \o r
    BY <2>1, <2>2, RemovedAfter, Zenon
  <2>5. Round(n - 1) = [ips |-> t, i |-> Len(p) + 1]
    BY <1>6, Zenon
  <2> HIDE DEF p, q, r
  <2>6. Len(t) = Len(p) + 1 + Len(r) /\ t[Len(p) + 1] = ips[n]
    <3>1. /\ Len(t) = Len(q) + Len(r)
          /\ \A k \in 1..(Len(q) + Len(r)) : t[k] = IF k <= Len(q) THEN q[k] ELSE r[k - Len(q)]
      BY <2>2, <2>3, ConcatProperties, Zenon
    <3> HIDE DEF t
    <3>2. Len(p) + 1 \in 1..(Len(q) + Len(r)) /\ Len(p) + 1 <= Len(q)
      BY <2>2, <2>3
    <3> QED
      BY <2>2, <2>3, <3>1, <3>2
  <2> HIDE DEF t
  <2>7. ~(Len(p) + 1 > Len(t))
    BY <2>2, <2>6
  <2>8. CASE ips[n] \in dropped
    <3>1. Iteration(Round(n - 1), dropped) = [ips |-> p \o r, i |-> Len(p) + 1]
      BY <2>4, <2>5, <2>6, <2>7, <2>8, Zenon DEF Iteration
    <3>2. Left(n) = p
      BY <1>6, <2>8 DEF p
    <3> QED
      BY <3>1, <3>2 DEF r
  <2>9. CASE ips[n] \notin dropped
    <3>1. Iteration(Round(n - 1), dropped) = [ips |-> t, i |-> (Len(p) + 1) + 1]
      BY <2>5, <2>6, <2>7, <2>9, Zenon DEF Iteration
    <3>2. Left(n) = q
      BY <1>6, <2>9 DEF p, q
    <3> QED
      BY <2>3, <3>1, <3>2, Zenon DEF r, t
  <2> QED
    BY <2>8, <2>9
<1> HIDE DEF Round, Start
<1>8. after = Body(after)
  <2> DEFINE f == [n \in 0..N |-> Round(n)]
  <2>1. ASSUME NEW n \in 0..N
        PROVE  Round(n) = IF n = 0 THEN Start ELSE Iteration(f[n - 1], dropped)
    <3>1. CASE n = 0
      BY <1>3, <3>1, Zenon
    <3>2. CASE n # 0
      <4>1. n \in 1..N /\ n - 1 \in 0..N
        BY <1>1, <3>2
      <4>2. f[n - 1] = Round(n - 1)
        BY <4>1
      <4> HIDE DEF f
      <4> QED
        BY <1>7, <3>2, <4>1, <4>2, ZenonT(30)
    <3> QED
      BY <3>1, <3>2
  <2>2. f = Body(f)
    BY <2>1, Zenon
  <2> QED
    BY <2>2, Zenon
<1>9. after[0] = Start /\ \A n \in 1..N : after[n] = Iteration(after[n - 1], dropped)
  <2>1. \A n \in 0..N : after[n] = Body(after)[n]
    BY <1>8, Zenon
  <2> HIDE DEF after
  <2>2. Body(after)[0] = Start
    BY <1>1
  <2>3. ASSUME NEW n \in 1..N PROVE n \in 0..N /\ Body(after)[n] = Iteration(after[n - 1], dropped)
    BY <1>1
  <2>4. 0 \in 0..N
    BY <1>1
  <2> HIDE DEF Body
  <2> QED
    BY <2>1, <2>2, <2>3, <2>4
<1> HIDE DEF after
<1> DEFINE K == {n \in 0..N : after[n] = Round(n)}
<1>10. 0 \in K
  BY <1>1, <1>3, <1>9
<1>11. ASSUME NEW n \in 1..N, n - 1 \in K PROVE n \in K
  <2>1. after[n - 1] = Round(n - 1) /\ n \in 0..N
    BY <1>1, <1>11
  <2> QED
    BY <1>7, <1>9, <2>1
<1>12. \A n \in 0..N : n \in K
  <2> HIDE DEF K
  <2> QED
    BY <1>1, <1>10, <1>11, IntervalInduction, Zenon
<1>13. after[N] = Round(N) /\ N \in 0..N
  BY <1>1, <1>12
<1>14. Left(N) \o Rest(N) = Left(N)
  BY <1>4, <1>5, <1>13, ConcatEmptySeq
<1> QED
  BY <1>2, <1>4, <1>13, <1>14 DEF Round

LEMMA CardsIPsTyped ==
    ASSUME NEW nic \in NICs PROVE CardsIPs(nic) \in Seq(IP)
<1>1. interfaces \in Seq(Range(interfaces)) /\ (nic # All => nic \in Seq(Range(nic)))
  BY ListenAssumption
<1>2. IPsOf(interfaces) \in Seq(IP) /\ (nic # All => IPsOf(nic) \in Seq(IP))
  BY <1>1, IPsOfTyped, Zenon
<1> QED
  BY <1>2, Zenon DEF CardsIPs, GetAllIPs

(* Only the elements that occur count.                                     *)
LEMMA KeptOfRange ==
    ASSUME NEW T, NEW s \in Seq(T), NEW A, NEW B, \A x \in Range(s) : x \in A <=> x \in B
    PROVE  Kept(s, A) = Kept(s, B)
<1> DEFINE R == Range(s)
<1>1. s \in Seq(R) /\ \A x \in R : x \in A <=> x \in B
  BY SeqOfRange
<1> HIDE DEF R
<1>2. \A t \in Seq(R) : Kept(t, A) = Kept(t, B)
  BY <1>1, KeptSame
<1> QED
  BY <1>1, <1>2, Zenon

(* The set of an exclude loop, too, may be given on the elements only.     *)
LEMMA ExcludeKeeps ==
    ASSUME NEW T, NEW s \in Seq(T), NEW A, NEW D, \A x \in Range(s) : x \in A <=> x \notin D
    PROVE  ExcludeLoop(s, D) = Kept(s, A)
<1>1. ExcludeLoop(s, D) = Kept(s, T \ D)
  BY ExcludeLoopKeeps, Zenon
<1>2. \A x \in Range(s) : x \in T
  BY RangeOfSeq
<1>3. \A x \in Range(s) : x \in T \ D <=> x \in A
  BY <1>2
<1> QED
  BY <1>1, <1>3, KeptOfRange, Zenon

(* The loops of GetIPsNeedListen compute what the reference says, for all  *)
(* cards, addresses and configurations: an address that follows a removed  *)
(* one is looked at too, though the loops delete from the slice they count *)
(* over, and the order of the cards is kept.                               *)
THEOREM LoopsFilter == FiltersAgree
<1> SUFFICES ASSUME NEW nic \in NICs, NEW include \in Lists \cup {All}, NEW exclude \in Lists
             PROVE  GetIPsNeedListen(nic, include, exclude) = WantedIPs(nic, include, exclude)
  BY DEF FiltersAgree
<1> DEFINE C == CardsIPs(nic)
           I == {ip \in IP : include = All \/ Matches(include, ip)}
           X == {ip \in IP : ip \notin exclude \cap IP}
           Y == {ip \in IP : ~InSegments(exclude \cap Segment, ip)}
           W == {ip \in IP : (include = All \/ Matches(include, ip)) /\ ~Matches(exclude, ip)}
           inc == getIPAndSegment(include)
           exc == getIPAndSegment(exclude)
           ips == IF include = All THEN C ELSE includeIPsFromIPs(C, inc.ips, inc.segments)
           mid == excludeIPsFromIPs(ips, exc.ips)
<1>1. C \in Seq(IP) /\ \A x \in Range(C) : x \in IP
  BY CardsIPsTyped, RangeOfSeq, Zenon
<1>2. /\ inc.ips = include \cap IP /\ inc.segments = include \cap Segment
      /\ exc.ips = exclude \cap IP /\ exc.segments = exclude \cap Segment
  BY Zenon DEF getIPAndSegment
<1>3. GetIPsNeedListen(nic, include, exclude)
        = IF exclude = {} THEN ips ELSE excludeIPSegmentsFromIPs(mid, exc.segments)
  BY DEF GetIPsNeedListen
<1>4. WantedIPs(nic, include, exclude) = Kept(C, W)
  BY Zenon DEF WantedIPs
<1> HIDE DEF C, inc, exc
<1>5. \A ip \in IP : /\ ip \in W <=> ip \in I /\ ip \in X /\ ip \in Y
                     /\ exclude = {} => ip \in X /\ ip \in Y
  BY DEF Matches, InSegments
<1>6. ips = Kept(C, I)
  <2>1. CASE include = All
    <3>1. I = IP
      BY <2>1
    <3>2. Kept(C, IP) = C
      BY <1>1, KeptWhole
    <3> QED
      BY <2>1, <3>1, <3>2, Zenon
  <2>2. CASE include # All
    <3> DEFINE J == {ip \in Range(C) : ip \in inc.ips \/ InSegments(inc.segments, ip)}
    <3>1. ips = Kept(C, J)
      BY <2>2, Zenon DEF includeIPsFromIPs
    <3>2. \A x \in Range(C) : x \in J <=> x \in I
      BY <1>1, <1>2, <2>2 DEF Matches, InSegments
    <3> HIDE DEF J, I, ips
    <3>3. Kept(C, J) = Kept(C, I)
      BY <1>1, <3>2, KeptOfRange, Zenon
    <3> QED
      BY <3>1, <3>3
  <2> QED
    BY <2>1, <2>2
<1>7. CASE exclude = {}
  <2>1. \A x \in Range(C) : x \in I <=> x \in W
    BY <1>1, <1>5, <1>7
  <2> HIDE DEF I, W, ips
  <2>2. Kept(C, I) = Kept(C, W)
    BY <1>1, <2>1, KeptOfRange, Zenon
  <2> QED
    BY <1>3, <1>4, <1>6, <1>7, <2>2, ZenonT(30)
<1>8. CASE exclude # {}
  <2>1. ips \in Seq(IP)
    BY <1>1, <1>6, KeptTyped
  <2>2. mid = Kept(ips, X)
    <3>1. \A x \in Range(ips) : x \in IP
      BY <2>1, RangeOfSeq, Zenon
    <3>2. \A x \in Range(ips) : x \in X <=> x \notin exc.ips
      BY <1>2, <3>1
    <3> HIDE DEF X, ips
    <3>3. ExcludeLoop(ips, exc.ips) = Kept(ips, X)
      BY <2>1, <3>2, ExcludeKeeps, Zenon
    <3> QED
      BY <3>3 DEF excludeIPsFromIPs
  <2> HIDE DEF ips
  <2>3. mid \in Seq(IP)
    BY <2>1, <2>2, KeptTyped, ZenonT(30)
  <2> HIDE DEF mid
  <2>4. excludeIPSegmentsFromIPs(mid, exc.segments) = Kept(mid, Y)
    <3> DEFINE D == {ip \in Range(mid) : InSegments(exc.segments, ip)}
    <3>1. \A x \in Range(mid) : x \in IP
      BY <2>3, RangeOfSeq, Zenon
    <3>2. \A x \in Range(mid) : x \in Y <=> x \notin D
      BY <1>2, <3>1
    <3> HIDE DEF Y, D
    <3>3. ExcludeLoop(mid, D) = Kept(mid, Y)
      BY <2>3, <3>2, ExcludeKeeps, Zenon
    <3> QED
      BY <3>3 DEF excludeIPSegmentsFromIPs, D
  <2>5. \A x \in Range(C) : x \in (I \cap X) \cap Y <=> x \in W
    BY <1>1, <1>5, Zenon
  <2> HIDE DEF I, X, Y, W
  <2>6. Kept(ips, X) = Kept(C, I \cap X)
    <3>1. Kept(Kept(C, I), X) = Kept(C, I \cap X)
      BY <1>1, KeptTwice
    <3> QED
      BY <1>6, <3>1, Zenon
  <2>7. Kept(mid, Y) = Kept(C, (I \cap X) \cap Y)
    <3> DEFINE Z == I \cap X
    <3>1. mid = Kept(C, Z)
      BY <2>2, <2>6, ZenonT(30)
    <3> HIDE DEF Z
    <3>2. Kept(Kept(C, Z), Y) = Kept(C, Z \cap Y)
      BY <1>1, KeptTwice
    <3> QED
      BY <3>1, <3>2 DEF Z
  <2>8. Kept(C, (I \cap X) \cap Y) = Kept(C, W)
    BY <1>1, <2>5, KeptOfRange, Zenon
  <2> QED
    BY <1>3, <1>4, <1>8, <2>4, <2>7, <2>8, ZenonT(30)
<1> QED
  BY <1>7, <1>8, ZenonT(30)

(* The gateway's own addresses.                                            *)
LEMMA ListenIPsWanted == listenIPs \in Seq(IP) /\ Range(listenIPs) = wantedIPs
<1>1. NIC \in NICs /\ IncludeIP \in Lists \cup {All} /\ ExcludeIP \in Lists
  BY GatewayAssumption DEF GatewayAssumption
<1>2. listenIPs = WantedIPs(NIC, IncludeIP, ExcludeIP)
  BY <1>1, LoopsFilter, Zenon DEF FiltersAgree, listenIPs
<1>3. CardsIPs(NIC) \in Seq(IP)
  BY <1>1, CardsIPsTyped, Zenon
<1>4. WantedIPs(NIC, IncludeIP, ExcludeIP) \in Seq(IP)
  BY <1>3, KeptTyped, Zenon DEF WantedIPs
<1> QED
  BY <1>2, <1>4, Zenon DEF wantedIPs

-----------------------------------------------------------------------------
(* What is shown of the servers                                            *)

LEMMA InvInit == GatewayInit => ServersInv
<1> SUFFICES ASSUME GatewayInit PROVE ServersInv
  OBVIOUS
<1>1. NoHandler \in Handlers
  BY NoHandlerTyped
<1>2. Typed
  BY <1>1, ListenIPsWanted, Zenon DEF GatewayInit, ProcessStart, Typed
<1>3. HandlerInv /\ EntryInv /\ ClosingInv
  BY DEF GatewayInit, ProcessStart, NoHandler, HandlerInv, EntryInv, ClosingInv
<1>4. \A a \in Addr : socket[a] \in {Nil, OldPod}
  BY DEF GatewayInit
<1> QED
  BY <1>2, <1>3, <1>4
  DEF GatewayInit, ProcessStart, NoHandler, ServersInv, SocketInv, OwnerInv

(* Whatever handlers, accept loops, old pods and restarts do, a listener   *)
(* that is not being stopped is in the list of its gateway or in that of   *)
(* the running handler: no socket is left that Stop cannot reach.          *)
THEOREM NoListenerLost == GatewaySpec => []ListenersOwned
<1>1. ServersInv => ListenersOwned
  <2> SUFFICES ASSUME ServersInv, NEW a \in Addr, socket[a] \notin closing \cup {Nil, OldPod}
               PROVE  \/ serversByGateway[socket[a].gw] # Nil
                         /\ socket[a] \in Range(serversByGateway[socket[a].gw])
                      \/ handler.gw = socket[a].gw /\ socket[a] \in Range(handler.servers)
    BY DEF ListenersOwned, Listening
  <2>1. CASE HandledNow(socket[a].gw)
    <3>1. handler.servers \in Seq(Servers)
      BY DEF ServersInv, Typed, Handlers
    <3>2. InHandler(socket[a])
      BY <2>1, Zenon DEF ServersInv, OwnerInv
    <3> QED
      BY <2>1, <3>1, <3>2 DEF HandledNow, InHandler, Range
  <2>2. CASE ~HandledNow(socket[a].gw)
    <3>1. InEntry(socket[a])
      BY <2>2, Zenon DEF ServersInv, OwnerInv
    <3>2. socket[a].gw \in Gateway
      BY ServerOf, Zenon DEF ServersInv, Typed
    <3>3. serversByGateway[socket[a].gw] \in Seq(Servers)
      BY <3>1, <3>2 DEF InEntry, ServersInv, Typed
    <3> QED
      BY <3>1, <3>3 DEF InEntry, Range
  <2> QED
    BY <2>1, <2>2, Zenon
<1> QED
  BY <1>1, InvInit, InvKept, PTL DEF GatewaySpec

(* Because Stop waits for the accept loop, OnGatewayUpdate never exits for *)
(* a listener of the servers it has replaced.                              *)
THEOREM ExitsJustified == GatewaySpec => NoNeedlessExit
<1>1. ServersInv /\ [GatewayNext]_gatewayVars =>
         [running' \/ ~running \/ socket[Starting.addr] = OldPod
          \/ socket[Starting.addr].gw # handler.gw
          \/ socket[Starting.addr] \in Range(handler.servers)]_gatewayVars
  <2> SUFFICES ASSUME ServersInv, GatewayNext, running, ~running',
                      socket[Starting.addr] # OldPod, socket[Starting.addr].gw = handler.gw
               PROVE  socket[Starting.addr] \in Range(handler.servers)
    OBVIOUS
  <2>1. InUse
    BY Zenon DEF GatewayNext, HandlerStep, ChangeGateway, OldPodGone, Restart, OnGatewayAdd,
           OnGatewayUpdate, OnGatewayDelete, Handle, Stop, Stopped, AllStopped, NewServer,
           ListenFails, AllStarted, ServeExits
  <2>2. Starting.addr \in Addr /\ handler.op = "start" /\ socket[Starting.addr] # Nil
    BY <2>1, StartingOK DEF ServersInv, InUse, MoreToStart
  <2>3. closing = {}
    BY <2>2, Zenon DEF ServersInv, ClosingInv
  <2>4. InHandler(socket[Starting.addr])
    BY <2>2, <2>3, Zenon DEF ServersInv, OwnerInv, HandledNow
  <2> QED
    BY <2>4 DEF InHandler, Range
<1> QED
  BY <1>1, InvInit, InvKept, PTL DEF GatewaySpec, NoNeedlessExit

(* Every listener is on an address the reference definition wants: what    *)
(* the loops over the cards return, and nothing else, is listened on.      *)
THEOREM OnlyWantedAddresses == GatewaySpec => []ListensOnWanted
<1>1. ServersInv => ListensOnWanted
  <2> SUFFICES ASSUME ServersInv, NEW a \in Addr, socket[a] \notin {Nil, OldPod}
               PROVE  socket[a].addr[1] \in wantedIPs
    BY LoopsFilter, Zenon DEF ListensOnWanted, Listening
  <2>1. socket[a].addr = a
    BY DEF ServersInv, SocketInv
  <2>2. a[1] \in Range(listenIPs)
    BY DEF Addr
  <2> QED
    BY <2>1, <2>2, ListenIPsWanted
<1> QED
  BY <1>1, InvInit, InvKept, PTL DEF GatewaySpec

-----------------------------------------------------------------------------
(* The servers of the Corefile                                             *)

LEMMA RangeAppend ==
    ASSUME NEW T, NEW s \in Seq(T), NEW x \in T
    PROVE  Range(Append(s, x)) = Range(s) \cup {x}
<1>1. /\ Append(s, x) \in Seq(T) /\ Len(Append(s, x)) = Len(s) + 1 /\ Len(s) \in Nat
      /\ Append(s, x)[Len(s) + 1] = x /\ \A i \in 1..Len(s) : Append(s, x)[i] = s[i]
  BY AppendProperties
<1>2. Range(Append(s, x)) = {Append(s, x)[i] : i \in 1..(Len(s) + 1)}
  BY <1>1, RangeEquality, Zenon
<1>3. Range(s) = {s[i] : i \in 1..Len(s)}
  BY RangeEquality
<1>4. ASSUME NEW y \in Range(Append(s, x)) PROVE y \in Range(s) \cup {x}
  <2>1. PICK i \in 1..(Len(s) + 1) : y = Append(s, x)[i]
    BY <1>2, Zenon
  <2>2. i = Len(s) + 1 \/ i \in 1..Len(s)
    BY <1>1
  <2> QED
    BY <1>1, <1>3, <2>1, <2>2, Zenon
<1>5. ASSUME NEW y \in Range(s) \cup {x} PROVE y \in Range(Append(s, x))
  <2>1. CASE y = x
    <3>1. Len(s) + 1 \in 1..(Len(s) + 1)
      BY <1>1
    <3> QED
      BY <1>1, <1>2, <2>1, <3>1, Zenon
  <2>2. CASE y \in Range(s)
    <3>1. PICK i \in 1..Len(s) : y = s[i]
      BY <1>3, <2>2, Zenon
    <3>2. i \in 1..(Len(s) + 1)
      BY <1>1
    <3> QED
      BY <1>1, <1>2, <3>1, <3>2, Zenon
  <2> QED
    BY <1>5, <2>1, <2>2
<1> QED
  BY <1>4, <1>5

(* A loop that appends the elements of s at the indices in A collects just *)
(* these, and each once if it appends only what it does not have yet.      *)
LEMMA Collects ==
    ASSUME NEW T, NEW s \in Seq(T), NEW f, NEW A, f[0] = <<>>,
           \A k \in 0..Len(s) : f[k] \in Seq(T),
           \A k \in 1..Len(s) : f[k] = IF k \in A THEN Append(f[k - 1], s[k]) ELSE f[k - 1]
    PROVE  /\ \A k \in 0..Len(s) : Range(f[k]) = {s[i] : i \in A \cap (1..k)}
           /\ (\A k \in A \cap (1..Len(s)) : s[k] \notin Range(f[k - 1])) =>
                 \A k \in 0..Len(s) : IsInjective(f[k])
<1> DEFINE N == Len(s)
           Had(k) == {s[i] : i \in A \cap (1..k)}
           Fresh == \A k \in A \cap (1..N) : s[k] \notin Range(f[k - 1])
           K == {k \in 0..N : Range(f[k]) = Had(k) /\ (Fresh => IsInjective(f[k]))}
<1>1. N \in Nat
  OBVIOUS
<1>2. 0 \in K
  BY <1>1, SMTT(20) DEF Range, IsInjective
<1>3. ASSUME NEW k \in 1..N, k - 1 \in K PROVE k \in K
  <2>1. k \in 0..N /\ k - 1 \in 0..N /\ s[k] \in T
    BY <1>1
  <2>2. f[k - 1] \in Seq(T) /\ Range(f[k - 1]) = Had(k - 1) /\ (Fresh => IsInjective(f[k - 1]))
    BY <1>3, <2>1, Zenon
  <2>3. CASE k \notin A
    <3>1. Had(k) = Had(k - 1)
      BY <1>1, <2>3
    <3>2. f[k] = f[k - 1]
      BY <2>3
    <3> QED
      BY <2>1, <2>2, <3>1, <3>2, ZenonT(30)
  <2>4. CASE k \in A
    <3>1. Had(k) = Had(k - 1) \cup {s[k]}
      BY <1>1, <2>4
    <3>2. f[k] = Append(f[k - 1], s[k])
      BY <2>4, Zenon
    <3>3. Range(f[k]) = Range(f[k - 1]) \cup {s[k]}
      BY <2>1, <2>2, <3>2, RangeAppend, SMTT(20)
    <3>4. ASSUME Fresh PROVE IsInjective(f[k])
      <4>1. s[k] \notin Range(f[k - 1])
        BY <2>4, <3>4
      <4> QED
        BY <2>1, <2>2, <3>2, <3>4, <4>1, SMTT(20) DEF Range, IsInjective
    <3> HIDE DEF Had, Fresh
    <3> QED
      BY <2>1, <2>2, <3>1, <3>3, <3>4, Zenon
  <2> QED
    BY <2>3, <2>4
<1>4. \A k \in 0..N : k \in K
  <2> HIDE DEF K
  <2> QED
    BY <1>1, <1>2, <1>3, IntervalInduction, Zenon
<1> QED
  BY <1>4, Zenon

(* What a loop keeps, and that it repeats nothing.                         *)
LEMMA KeptRange ==
    ASSUME NEW T, NEW s \in Seq(T), NEW S
    PROVE  Range(Kept(s, S)) = Range(s) \cap S /\ (IsInjective(s) => IsInjective(Kept(s, S)))
<1> DEFINE A == {k \in 1..Len(s) : s[k] \in S}
<1>1. PICK f : KeptBy(f, s, S, T)
  BY KeptLoop, Zenon
<1>2. /\ f[0] = <<>> /\ Kept(s, S) = f[Len(s)]
      /\ \A k \in 0..Len(s) : f[k] \in Seq(T)
      /\ \A k \in 1..Len(s) : f[k] = IF k \in A THEN Append(f[k - 1], s[k]) ELSE f[k - 1]
  BY <1>1 DEF KeptBy
<1>3. /\ \A k \in 0..Len(s) : Range(f[k]) = {s[i] : i \in A \cap (1..k)}
      /\ (\A k \in A \cap (1..Len(s)) : s[k] \notin Range(f[k - 1])) =>
            \A k \in 0..Len(s) : IsInjective(f[k])
  <2> HIDE DEF A
  <2> QED
    BY <1>2, Collects, Zenon
<1>4. Len(s) \in Nat /\ Len(s) \in 0..Len(s) /\ DOMAIN s = 1..Len(s)
  OBVIOUS
<1>5. Range(Kept(s, S)) = Range(s) \cap S
  <2>1. Range(Kept(s, S)) = {s[i] : i \in A \cap (1..Len(s))}
    BY <1>2, <1>3, <1>4, Zenon
  <2> QED
    BY <1>4, <2>1, Zenon DEF Range
<1>6. ASSUME IsInjective(s) PROVE IsInjective(Kept(s, S))
  <2>1. ASSUME NEW k \in A \cap (1..Len(s)) PROVE s[k] \notin Range(f[k - 1])
    <3>1. k \in 1..Len(s) /\ k - 1 \in 0..Len(s)
      BY <1>4
    <3>2. Range(f[k - 1]) = {s[i] : i \in A \cap (1..(k - 1))}
      BY <1>3, <3>1, Zenon
    <3> QED
      BY <1>4, <1>6, <3>1, <3>2 DEF IsInjective
  <2> QED
    BY <1>2, <1>3, <1>4, <2>1, ZenonT(30)
<1> QED
  BY <1>5, <1>6, Zenon

(* f has the values of the loop of removeDuplicate(s).                     *)
OnceBy(f, s, T) ==
    /\ f[0] = <<>> /\ removeDuplicate(s) = f[Len(s)]
    /\ \A k \in 0..Len(s) : f[k] \in Seq(T)
    /\ \A k \in 1..Len(s) : f[k] = IF s[k] \in Range(f[k - 1]) THEN f[k - 1] ELSE Append(f[k - 1], s[k])

LEMMA OnceLoop ==
    ASSUME NEW T, NEW s \in Seq(T)
    PROVE  \E f : OnceBy(f, s, T)
<1> DEFINE N == Len(s)
           V == Seq(T)
           Next(v, x) == IF x \in Range(v) THEN v ELSE Append(v, x)
           Body(f) == [k \in 0..N |-> IF k = 0 THEN <<>> ELSE Next(f[k - 1], s[k])]
           G == [p \in Nat \X V |-> IF p[1] \in 1..N THEN Next(p[2], s[p[1]]) ELSE p[2]]
           ret == CHOOSE f : f = Body(f)
<1>1. /\ N \in Nat /\ <<>> \in V
      /\ \A k \in 1..N : s[k] \in T /\ \A v \in V : Next(v, s[k]) \in V
  <2>1. \A v \in V, x \in T : Append(v, x) \in V
    BY AppendProperties
  <2>2. \A k \in 1..N : s[k] \in T
    OBVIOUS
  <2> QED
    BY <2>1, <2>2
<1>2. removeDuplicate(s) = ret[N]
  BY SMTT(30) DEF removeDuplicate
<1> HIDE DEF N, V, Next
<1>3. ret = Body(ret)
  <2>1. G \in [Nat \X V -> V]
    <3>1. ASSUME NEW p \in Nat \X V PROVE G[p] \in V
      <4>1. p[2] \in V
        OBVIOUS
      <4> QED
        BY <1>1, <4>1, Zenon
    <3> QED
      BY <3>1
  <2>2. PICK f : IsLoop(f, N, V, <<>>, G)
    <3> HIDE DEF G
    <3> QED
      BY <1>1, <2>1, LoopExists, Zenon
  <2>3. ASSUME NEW k \in 0..N PROVE f[k] = Body(f)[k]
    <3>1. CASE k = 0
      <4>1. Body(f)[0] = <<>>
        BY <1>1
      <4> QED
        BY <2>2, <3>1, <4>1 DEF IsLoop
    <3>2. CASE k # 0
      <4>1. k \in 1..N /\ k \in Nat /\ k - 1 \in 0..N
        BY <1>1, <3>2
      <4>2. f[k - 1] \in V /\ f[k] = G[<<k, f[k - 1]>>]
        <5> HIDE DEF G
        <5> QED
          BY <2>2, <4>1, Zenon DEF IsLoop
      <4>3. <<k, f[k - 1]>> \in Nat \X V
        BY <4>1, <4>2
      <4>4. G[<<k, f[k - 1]>>] = Next(f[k - 1], s[k])
        BY <4>1, <4>3
      <4>5. Body(f)[k] = Next(f[k - 1], s[k])
        BY <3>2
      <4> QED
        BY <4>2, <4>4, <4>5
    <3> QED
      BY <3>1, <3>2
  <2>4. DOMAIN f = 0..N /\ f = [k \in DOMAIN f |-> f[k]]
    BY <2>2 DEF IsLoop
  <2>5. f = Body(f)
    BY <2>3, <2>4
  <2> QED
    BY <2>5, Zenon
<1>4. ret[0] = <<>>
  <2>1. ret[0] = Body(ret)[0]
    BY <1>3, Zenon
  <2> HIDE DEF ret
  <2>2. Body(ret)[0] = <<>>
    BY <1>1
  <2> QED
    BY <2>1, <2>2
<1>5. ASSUME NEW k \in 1..N PROVE ret[k] = Next(ret[k - 1], s[k])
  <2>1. ret[k] = Body(ret)[k]
    BY <1>3, Zenon
  <2> HIDE DEF ret
  <2>2. Body(ret)[k] = Next(ret[k - 1], s[k])
    BY <1>1
  <2> QED
    BY <2>1, <2>2
<1> HIDE DEF ret
<1>6. \A k \in 0..N : ret[k] \in V
  <2> DEFINE K == {k \in 0..N : ret[k] \in V}
  <2>1. 0 \in K
    BY <1>1, <1>4
  <2>2. ASSUME NEW k \in 1..N, k - 1 \in K PROVE k \in K
    <3>1. ret[k - 1] \in V
      BY <1>1, <2>2
    <3>2. ret[k] \in V
      BY <1>1, <1>5, <3>1
    <3> QED
      BY <1>1, <3>2
  <2> HIDE DEF K
  <2>3. \A k \in 0..N : k \in K
    BY <1>1, <2>1, <2>2, IntervalInduction, Zenon
  <2> QED
    BY <2>3 DEF K
<1>7. OnceBy(ret, s, T)
  BY <1>2, <1>4, <1>5, <1>6 DEF OnceBy, N, V, Next
<1> QED
  BY <1>7

(* removeDuplicate keeps every server, and each once.                      *)
LEMMA OnceRange ==
    ASSUME NEW T, NEW s \in Seq(T)
    PROVE  /\ removeDuplicate(s) \in Seq(T)
           /\ Range(removeDuplicate(s)) = Range(s) /\ IsInjective(removeDuplicate(s))
<1>1. PICK f : OnceBy(f, s, T)
  BY OnceLoop, Zenon
<1> DEFINE A == {k \in 1..Len(s) : s[k] \notin Range(f[k - 1])}
<1>2. /\ f[0] = <<>> /\ removeDuplicate(s) = f[Len(s)]
      /\ \A k \in 0..Len(s) : f[k] \in Seq(T)
      /\ \A k \in 1..Len(s) : f[k] = IF k \in A THEN Append(f[k - 1], s[k]) ELSE f[k - 1]
  BY <1>1 DEF OnceBy
<1>3. /\ \A k \in 0..Len(s) : Range(f[k]) = {s[i] : i \in A \cap (1..k)}
      /\ (\A k \in A \cap (1..Len(s)) : s[k] \notin Range(f[k - 1])) =>
            \A k \in 0..Len(s) : IsInjective(f[k])
  <2> HIDE DEF A
  <2> QED
    BY <1>2, Collects, Zenon
<1>4. Len(s) \in Nat /\ Len(s) \in 0..Len(s)
  OBVIOUS
<1>5. Range(s) = {s[i] : i \in 1..Len(s)}
  BY RangeEquality
<1>6. Range(removeDuplicate(s)) = {s[i] : i \in A}
  <2>1. A \cap (1..Len(s)) = A
    OBVIOUS
  <2> QED
    BY <1>2, <1>3, <1>4, <2>1, Zenon
<1>7. ASSUME NEW k \in 1..Len(s), k \notin A PROVE s[k] \in {s[i] : i \in A}
  <2>1. s[k] \in Range(f[k - 1]) /\ k - 1 \in 0..Len(s)
    BY <1>4, <1>7
  <2>2. s[k] \in {s[i] : i \in A \cap (1..(k - 1))}
    BY <1>3, <2>1, Zenon
  <2> QED
    BY <2>2, Zenon
<1>8. Range(removeDuplicate(s)) = Range(s)
  <2>1. A \subseteq 1..Len(s)
    OBVIOUS
  <2> HIDE DEF A
  <2> QED
    BY <1>5, <1>6, <1>7, <2>1, Zenon
<1>9. IsInjective(removeDuplicate(s))
  BY <1>2, <1>3, <1>4, Zenon
<1> QED
  BY <1>2, <1>4, <1>8, <1>9, Zenon

(* What is detected.                                                       *)
LEMMA DetectedRange ==
    ASSUME NEW cluster \in Clusters, NEW ok \in SUBSET Calls
    PROVE  \E T : /\ detectClusterDNS(cluster, ok) \in Seq(T)
                  /\ Range(detectClusterDNS(cluster, ok)) \ {Blank} = Detectable(cluster, ok)
<1> DEFINE list == cluster["k8s-app"]
           Got(name) == IF name \in ok /\ cluster[name] \notin {Absent, NoneIP}
                        THEN <<cluster[name]>> ELSE <<>>
           Listed == IF "k8s-app" \in ok THEN Kept(list, Range(list) \ {NoneIP}) ELSE <<>>
           T == {cluster["coredns"], cluster["kube-dns"]} \cup Range(list)
           Named(name) == {ip \in {cluster[name]} : name \in ok /\ ip \notin {Absent, NoneIP}}
           InList == {ip \in Range(list) : "k8s-app" \in ok /\ ip # NoneIP}
<1>1. list \in Seq(Range(list) \ {Absent}) /\ Absent \notin Range(list)
  <2>1. list \in Seq(Range(list) \ {Absent})
    BY CorefileAssumption, Zenon
  <2>2. Range(list) \in SUBSET (Range(list) \ {Absent})
    <3> HIDE DEF list
    <3> QED
      BY <2>1, RangeOfSeq, Zenon
  <2> QED
    BY <2>1, <2>2
<1>2. ASSUME NEW name \in {"coredns", "kube-dns"}
      PROVE  Got(name) \in Seq(T) /\ Range(Got(name)) = Named(name)
  <2>1. cluster[name] \in T
    OBVIOUS
  <2>2. CASE name \in ok /\ cluster[name] \notin {Absent, NoneIP}
    <3>1. Got(name) = <<cluster[name]>> /\ Named(name) = {cluster[name]}
      BY <2>2
    <3>2. <<cluster[name]>> \in Seq(T) /\ Range(<<cluster[name]>>) = {cluster[name]}
      <4> HIDE DEF T
      <4> QED
        BY <2>1 DEF Range
    <3> QED
      BY <3>1, <3>2, Zenon
  <2>3. CASE ~(name \in ok /\ cluster[name] \notin {Absent, NoneIP})
    <3>1. Got(name) = <<>> /\ Named(name) = {}
      BY <2>3
    <3>2. <<>> \in Seq(T) /\ Range(<<>>) = {}
      BY DEF Range
    <3> QED
      BY <3>1, <3>2
  <2> QED
    BY <2>2, <2>3
<1>3. Listed \in Seq(T) /\ Range(Listed) = InList
  <2>1. CASE "k8s-app" \in ok
    <3>1. list \in Seq(T)
      <4>1. list \in Seq(Range(list))
        <5> HIDE DEF list
        <5> QED
          BY <1>1, SeqOfRange
      <4>2. Range(list) \subseteq T
        OBVIOUS
      <4> HIDE DEF T
      <4> QED
        BY <4>1, <4>2
    <3>2. /\ Kept(list, Range(list) \ {NoneIP}) \in Seq(T)
          /\ Range(Kept(list, Range(list) \ {NoneIP})) = Range(list) \cap (Range(list) \ {NoneIP})
      <4> HIDE DEF T, list
      <4> QED
        BY <3>1, KeptTyped, KeptRange, Zenon
    <3>3. Range(list) \cap (Range(list) \ {NoneIP}) = InList
      BY <2>1
    <3> QED
      BY <2>1, <3>2, <3>3, Zenon
  <2>2. CASE "k8s-app" \notin ok
    <3>1. Listed = <<>> /\ InList = {}
      BY <2>2
    <3>2. <<>> \in Seq(T) /\ Range(<<>>) = {}
      BY DEF Range
    <3> QED
      BY <3>1, <3>2, Zenon
  <2> QED
    BY <2>1, <2>2, Zenon
<1> DEFINE all == Got("coredns") \o Got("kube-dns") \o Listed
<1>4. detectClusterDNS(cluster, ok) = removeDuplicate(all)
  BY DEF detectClusterDNS
<1>5. (Named("coredns") \cup Named("kube-dns") \cup InList) \ {Blank} = Detectable(cluster, ok)
  BY <1>1 DEF Detectable, Calls
<1> HIDE DEF Got, Listed, T, Named, InList
<1>6. all \in Seq(T) /\ Range(all) = Named("coredns") \cup Named("kube-dns") \cup InList
  <2>1. /\ Got("coredns") \o Got("kube-dns") \in Seq(T)
        /\ Range(Got("coredns") \o Got("kube-dns")) = Named("coredns") \cup Named("kube-dns")
    BY <1>2, ConcatProperties, RangeConcatenation
  <2> DEFINE first == Got("coredns") \o Got("kube-dns")
  <2>2. all = first \o Listed
    OBVIOUS
  <2> HIDE DEF first
  <2>3. first \in Seq(T) /\ Range(first) = Named("coredns") \cup Named("kube-dns")
    BY <2>1, Zenon DEF first
  <2>4. first \o Listed \in Seq(T) /\ Range(first \o Listed) = Range(first) \cup Range(Listed)
    BY <1>3, <2>3, ConcatProperties, RangeConcatenation
  <2> QED
    BY <1>3, <2>2, <2>3, <2>4, Zenon
<1> HIDE DEF all
<1>7. detectClusterDNS(cluster, ok) \in Seq(T) /\ Range(detectClusterDNS(cluster, ok)) = Range(all)
  BY <1>4, <1>6, OnceRange
<1> QED
  BY <1>5, <1>6, <1>7

(* What is configured.                                                     *)
LEMMA ConfiguredRange ==
    ASSUME NEW cache \in Caches
    PROVE  \E T : Configured(cache) \in Seq(T) /\ Range(Configured(cache)) = Configurable(cache)
<1> DEFINE servers == cache.upstreamServers
           U == {s \in ServerType : s.items = 2 => s.port \in Int}
           trimmed == [i \in DOMAIN servers |-> TrimSpace(servers[i])]
           S == {s \in Range(trimmed) : s # Blank /\ isValidAddress(s)}
<1>1. servers \in Seq(U)
  BY CorefileAssumption, Zenon
<1>2. \A s \in U : TrimSpace(s) \in U /\ TrimSpace(s) = [s EXCEPT !.pad = FALSE]
  BY Zenon DEF TrimSpace, ServerType
<1> HIDE DEF servers
<1>3. trimmed \in Seq(U)
  <2> HIDE DEF U
  <2> QED
    BY <1>1, <1>2
<1>4. Range(trimmed) = {[u EXCEPT !.pad = FALSE] : u \in Range(servers)}
  BY DEF Range, TrimSpace
<1>5. ASSUME NEW s \in U
      PROVE  (s # Blank /\ isValidAddress(s)) <=>
             (s.host \in IPs /\ (s.items = 1 \/ (s.items = 2 /\ s.port \in 1..(PortLimit - 1))))
  <2>1. s.host \in IPs => s # Blank
    <3>1. "" \notin IPs
      BY CorefileAssumption, Zenon
    <3>2. Blank.host = ""
      BY DEF Blank, Server
    <3> QED
      BY <3>1, <3>2, Zenon
  <2>2. s.items = 2 => (isValidPort(s.port) <=> s.port \in 1..(PortLimit - 1))
    <3>1. PortLimit \in Int
      BY DEF PortLimit
    <3> QED
      BY <3>1 DEF isValidPort
  <2> QED
    BY <2>1, <2>2 DEF isValidAddress, isValidIP
<1>6. Range(trimmed) \in SUBSET U
  <2> HIDE DEF U, trimmed
  <2> QED
    BY <1>3, RangeOfSeq, Zenon
<1>7. S = Configurable(cache)
  <2> HIDE DEF U
  <2>1. Configurable(cache) = {s \in Range(trimmed) :
            /\ s.host \in IPs
            /\ s.items = 1 \/ (s.items = 2 /\ s.port \in 1..(PortLimit - 1))}
    BY <1>4, Zenon DEF Configurable, servers
  <2> HIDE DEF trimmed
  <2> QED
    BY <1>5, <1>6, <2>1
<1>8. Configured(cache) = Kept(trimmed, S)
  BY DEF Configured, servers
<1> HIDE DEF U, trimmed
<1>9. S = Range(trimmed) \cap S
  OBVIOUS
<1> HIDE DEF S
<1>10. Kept(trimmed, S) \in Seq(U)
  BY <1>3, KeptTyped, Zenon
<1>11. Range(Kept(trimmed, S)) = Range(trimmed) \cap S
  BY <1>3, KeptRange, Zenon
<1> QED
  BY <1>7, <1>8, <1>9, <1>10, <1>11

(* Whatever is configured, whatever the cluster has and whichever calls    *)
(* fail, the Corefile of a cache forwards to exactly the servers that are  *)
(* detected or configured correctly, each named once.                      *)
THEOREM ForwardsToServers == CacheForwards
<1> SUFFICES ASSUME NEW cache \in Caches, NEW cluster \in Clusters, NEW ok \in SUBSET Calls
             PROVE  LET forward == UpdateCorefile(cache, [master |-> FALSE, kubeConfig |-> ""],
                                                  cluster, ok).forward
                    IN  /\ Range(forward) = Configurable(cache) \cup
                               (IF cache.autoDetect THEN Detectable(cluster, ok) ELSE {})
                        /\ IsInjective(forward)
  BY Zenon DEF CacheForwards, ForwardsTo
<1> DEFINE found == IF cache.autoDetect THEN detectClusterDNS(cluster, ok) ELSE <<>>
           both == found \o Configured(cache)
           once == removeDuplicate(both)
           forward == Kept(once, Range(once) \ {Blank})
           Found == IF cache.autoDetect THEN Detectable(cluster, ok) ELSE {}
<1>1. UpdateCorefile(cache, [master |-> FALSE, kubeConfig |-> ""], cluster, ok).forward = forward
  <2>1. cache.enable
    BY CorefileAssumption, Zenon
  <2>2. upstreamServers(cache, cluster, ok) = once
    BY <2>1, Zenon DEF upstreamServers
  <2> QED
    BY <2>2 DEF UpdateCorefile, getStubDomainStr
<1>2. PICK T : found \in Seq(T) /\ Range(found) \ {Blank} = Found
  <2>1. CASE cache.autoDetect
    BY <2>1, DetectedRange
  <2>2. CASE ~cache.autoDetect
    <3>1. <<>> \in Seq({}) /\ Range(<<>>) = {}
      BY DEF Range
    <3> QED
      BY <2>2, <3>1
  <2> QED
    BY <2>1, <2>2
<1>3. PICK U : Configured(cache) \in Seq(U) /\ Range(Configured(cache)) = Configurable(cache)
  BY ConfiguredRange
<1>4. Blank \notin Configurable(cache)
  BY CorefileAssumption, Zenon DEF Configurable, Blank, Server
<1> HIDE DEF found, Found
<1>5. both \in Seq(T \cup U) /\ Range(both) = Range(found) \cup Configurable(cache)
  <2>1. found \in Seq(T \cup U) /\ Configured(cache) \in Seq(T \cup U)
    BY <1>2, <1>3
  <2> QED
    BY <1>3, <2>1, ConcatProperties, RangeConcatenation
<1> HIDE DEF both
<1>6. once \in Seq(T \cup U) /\ Range(once) = Range(both) /\ IsInjective(once)
  BY <1>5, OnceRange, Zenon
<1> HIDE DEF once
<1>7. Range(forward) = Range(once) \cap (Range(once) \ {Blank}) /\ IsInjective(forward)
  BY <1>6, KeptRange, Zenon
<1>8. Range(once) \cap (Range(once) \ {Blank}) = Configurable(cache) \cup Found
  BY <1>2, <1>4, <1>5, <1>6
<1> QED
  BY <1>1, <1>7, <1>8, Zenon DEF Found

=============================================================================
