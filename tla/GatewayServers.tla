---------------------------- MODULE GatewayServers ----------------------------
(***************************************************************************)
(* The listening servers of the edge gateway (pkg/gateway/gateway.go and   *)
(* server.go): the informer's goroutine turns Gateway objects into servers *)
(* on every listen address, one handler at a time and under gw.lock; each  *)
(* server has an accept loop that Stop waits for.  A pod that is being     *)
(* deleted may still hold an address, and the process exits, to be started *)
(* again by Kubernetes, when an update finds an address in use.            *)
(***************************************************************************)
EXTENDS ListenIPs

CONSTANTS
    NIC, IncludeIP, ExcludeIP,   \* the gateway's configuration
    Gateway,       \* gateway keys, namespace.name
    Specs,         \* the specs a gateway may have: sequences of [port, options]
    BadAddr,       \* addresses net.ListenTCP cannot be given
    MaxChanges,    \* how often Gateway objects change
    OldPod, Nil

VARIABLES
    api,               \* the Gateway objects
    known,             \* those the handlers were last told of
    serversByGateway,  \* gw.serversByGateway
    socket,            \* who listens on an address: a server, OldPod or Nil
    closing,           \* servers whose listener is closed and accept loop not yet left
    handler,           \* the running handler: [op, gw, spec, servers, next, isUpdate]
    running,           \* the process runs
    changes

gatewayVars == <<api, known, serversByGateway, socket, closing, handler, running, changes>>

listenIPs == GetIPsNeedListen(NIC, IncludeIP, ExcludeIP)

Port == UNION {{spec[i].port : i \in DOMAIN spec} : spec \in Specs}
Addr == Range(listenIPs) \X Port

NoHandler == [op |-> "none", gw |-> Nil, spec |-> Nil, servers |-> <<>>, next |-> 1, isUpdate |-> FALSE]

(* The servers of a gateway, in the order the two loops start them.        *)
Wanted(g, spec) ==
    [k \in 1..(Len(listenIPs) * Len(spec)) |->
        LET s == spec[((k - 1) % Len(spec)) + 1] IN
        [addr |-> <<listenIPs[((k - 1) \div Len(spec)) + 1], s.port>>, gw |-> g, options |-> s.options]]

(* All the servers there can be.                                           *)
Servers == UNION {Range(Wanted(g, spec)) : g \in Gateway, spec \in Specs}

ASSUME GatewayAssumption ==
    /\ NIC \in NICs /\ IncludeIP \in Lists \cup {All} /\ ExcludeIP \in Lists
    /\ \A spec \in Specs : spec \in Seq(Range(spec))
    /\ Nil \notin Specs /\ Nil \notin Seq(Servers)

ProcessStart ==
    /\ known = [g \in Gateway |-> Nil]
    /\ serversByGateway = [g \in Gateway |-> Nil]
    /\ closing = {}
    /\ handler = NoHandler
    /\ running = TRUE

GatewayInit ==
    /\ ProcessStart
    /\ api \in [Gateway -> Specs \cup {Nil}]
    /\ socket \in [Addr -> {Nil, OldPod}]
    /\ changes = 0

-----------------------------------------------------------------------------
(* The environment *)

ChangeGateway(g, spec) ==
    /\ changes < MaxChanges /\ api[g] # spec
    /\ api' = [api EXCEPT ![g] = spec]
    /\ changes' = changes + 1
    /\ UNCHANGED <<known, serversByGateway, socket, closing, handler, running>>

OldPodGone(a) ==
    /\ socket[a] = OldPod
    /\ socket' = [socket EXCEPT ![a] = Nil]
    /\ UNCHANGED <<api, known, serversByGateway, closing, handler, running, changes>>

Restart ==
    /\ ~running
    /\ known' = [g \in Gateway |-> Nil]
    /\ serversByGateway' = [g \in Gateway |-> Nil]
    /\ closing' = {}
    /\ handler' = NoHandler
    /\ running' = TRUE
    /\ UNCHANGED <<api, socket, changes>>

-----------------------------------------------------------------------------
(* The handlers *)

Handle(g, op, spec, servers, isUpdate) ==
    /\ running /\ handler.op = "none"
    /\ handler' = [op |-> op, gw |-> g, spec |-> spec, servers |-> servers, next |-> 1,
                   isUpdate |-> isUpdate]
    /\ known' = [known EXCEPT ![g] = spec]
    /\ UNCHANGED <<api, serversByGateway, socket, closing, running, changes>>

OnGatewayAdd(g) ==
    /\ known[g] = Nil /\ api[g] # Nil
    /\ Handle(g, "start", api[g], <<>>, FALSE)

Recorded(g) == IF serversByGateway[g] = Nil THEN <<>> ELSE serversByGateway[g]

(* A change, or the resync of every 15 minutes.                            *)
OnGatewayUpdate(g) ==
    /\ known[g] # Nil /\ api[g] # Nil
    /\ Handle(g, "stop", api[g], Recorded(g), TRUE)

OnGatewayDelete(g) ==
    /\ known[g] # Nil /\ api[g] = Nil
    /\ Handle(g, "stop", Nil, Recorded(g), FALSE)

Stopping == handler.servers[handler.next]

(* Server.Stop: close(srv.stop), listener.Close(), and wait for the loop.  *)
Stop ==
    /\ handler.op = "stop" /\ handler.next <= Len(handler.servers)
    /\ closing' = closing \cup {Stopping}
    /\ handler' = [handler EXCEPT !.op = "wait"]
    /\ UNCHANGED <<api, known, serversByGateway, socket, running, changes>>

(* Mutant: wg.Wait() is left out.                                          *)
Stopped_NoWait ==
    /\ handler.op = "wait"
    /\ handler' = [handler EXCEPT !.op = "stop", !.next = @ + 1]
    /\ UNCHANGED <<api, known, serversByGateway, socket, closing, running, changes>>

Stopped ==
    /\ handler.op = "wait" /\ Stopping \notin closing
    /\ handler' = [handler EXCEPT !.op = "stop", !.next = @ + 1]
    /\ UNCHANGED <<api, known, serversByGateway, socket, closing, running, changes>>

(* serve: Accept fails, the next select sees srv.stop, wg.Done().          *)
ServeExits(s) ==
    /\ s \in closing
    /\ closing' = closing \ {s}
    /\ socket' = [socket EXCEPT ![s.addr] = Nil]
    /\ UNCHANGED <<api, known, serversByGateway, handler, running, changes>>

(* Mutant: an update ends when the old servers are stopped.                *)
AllStopped_NoStart ==
    /\ handler.op = "stop" /\ handler.next > Len(handler.servers)
    /\ serversByGateway' = [serversByGateway EXCEPT ![handler.gw] = Nil]
    /\ handler' = NoHandler
    /\ UNCHANGED <<api, known, socket, closing, running, changes>>

(* delete(gw.serversByGateway, key), then the new servers or the end.      *)
AllStopped ==
    /\ handler.op = "stop" /\ handler.next > Len(handler.servers)
    /\ serversByGateway' = [serversByGateway EXCEPT ![handler.gw] = Nil]
    /\ handler' = IF handler.isUpdate
                  THEN [handler EXCEPT !.op = "start", !.servers = <<>>, !.next = 1]
                  ELSE NoHandler
    /\ UNCHANGED <<api, known, socket, closing, running, changes>>

Starting == Wanted(handler.gw, handler.spec)[handler.next]

MoreToStart == handler.op = "start" /\ handler.next <= Len(Wanted(handler.gw, handler.spec))

(* NewServer: listen, and the accept loop.                                 *)
NewServer ==
    /\ MoreToStart
    /\ Starting.addr \notin BadAddr /\ socket[Starting.addr] = Nil
    /\ socket' = [socket EXCEPT ![Starting.addr] = Starting]
    /\ handler' = [handler EXCEPT !.next = @ + 1, !.servers = Append(@, Starting)]
    /\ UNCHANGED <<api, known, serversByGateway, closing, running, changes>>

(* "address already in use": an add goes on to the next server, an update  *)
(* calls os.Exit(1).                                                       *)
InUse ==
    /\ MoreToStart
    /\ Starting.addr \notin BadAddr /\ socket[Starting.addr] # Nil
    /\ IF handler.isUpdate
       THEN /\ running' = FALSE
            /\ socket' = [a \in Addr |-> IF socket[a] = OldPod THEN OldPod ELSE Nil]
            /\ handler' = NoHandler /\ closing' = {}
       ELSE /\ handler' = [handler EXCEPT !.next = @ + 1]
            /\ UNCHANGED <<running, socket, closing>>
    /\ UNCHANGED <<api, known, serversByGateway, changes>>

ListenFails ==
    /\ MoreToStart /\ Starting.addr \in BadAddr
    /\ handler' = [handler EXCEPT !.next = @ + 1]
    /\ UNCHANGED <<api, known, serversByGateway, socket, closing, running, changes>>

(* Mutant: the servers are not recorded.                                   *)
AllStarted_Forgotten ==
    /\ handler.op = "start" /\ ~MoreToStart
    /\ serversByGateway' = [serversByGateway EXCEPT ![handler.gw] = <<>>]
    /\ handler' = NoHandler
    /\ UNCHANGED <<api, known, socket, closing, running, changes>>

AllStarted ==
    /\ handler.op = "start" /\ ~MoreToStart
    /\ serversByGateway' = [serversByGateway EXCEPT ![handler.gw] = handler.servers]
    /\ handler' = NoHandler
    /\ UNCHANGED <<api, known, socket, closing, running, changes>>

HandlerStep == Stop \/ Stopped \/ AllStopped \/ NewServer \/ InUse \/ ListenFails \/ AllStarted

GatewayNext ==
    \/ \E g \in Gateway, spec \in Specs \cup {Nil} : ChangeGateway(g, spec)
    \/ \E a \in Addr : OldPodGone(a)
    \/ Restart
    \/ \E g \in Gateway : OnGatewayAdd(g) \/ OnGatewayUpdate(g) \/ OnGatewayDelete(g)
    \/ HandlerStep
    \/ \E s \in closing : ServeExits(s)

GatewaySpec == GatewayInit /\ [][GatewayNext]_gatewayVars

(* The goroutines run, the informer delivers what it has for each gateway  *)
(* (and resyncs), the old pod goes, and Kubernetes restarts the container. *)
FairGatewaySpec ==
    /\ GatewaySpec
    /\ WF_gatewayVars(HandlerStep) /\ WF_gatewayVars(\E s \in closing : ServeExits(s))
    /\ WF_gatewayVars(Restart)
    /\ \A a \in Addr : WF_gatewayVars(OldPodGone(a))
    /\ \A g \in Gateway : /\ SF_gatewayVars(OnGatewayAdd(g)) /\ SF_gatewayVars(OnGatewayUpdate(g))
                          /\ SF_gatewayVars(OnGatewayDelete(g))

-----------------------------------------------------------------------------
(* Properties *)

GatewayTypeOK ==
    /\ api \in [Gateway -> Specs \cup {Nil}]
    /\ known \in [Gateway -> Specs \cup {Nil}]
    /\ \A g \in Gateway : serversByGateway[g] = Nil \/ serversByGateway[g] \in Seq(Servers)
    /\ socket \in [Addr -> Servers \cup {Nil, OldPod}]
    /\ closing \subseteq Servers
    /\ handler.op \in {"none", "stop", "wait", "start"}
    /\ running \in BOOLEAN
    /\ changes \in 0..MaxChanges

wantedIPs == Range(WantedIPs(NIC, IncludeIP, ExcludeIP))

Listening == {socket[a] : a \in Addr} \ {Nil, OldPod}

(* No listener is ever lost: a server that listens and is not stopped yet  *)
(* is in the list of its gateway, or in that of the running handler, so    *)
(* that the next update or delete can stop it.                             *)
ListenersOwned ==
    running => \A s \in Listening \ closing :
       \/ serversByGateway[s.gw] # Nil /\ s \in Range(serversByGateway[s.gw])
       \/ handler.gw = s.gw /\ s \in Range(handler.servers)

(* The gateway listens on addresses it was configured for only, and would  *)
(* for every other value of NIC, INCLUDE_IP and EXCLUDE_IP: the loops of   *)
(* GetIPsNeedListen skip no address and remove none too many.              *)
ListensOnWanted ==
    /\ FiltersAgree
    /\ \A s \in Listening : s.addr[1] \in wantedIPs

(* What the lists record is true: between two handlers each server of a    *)
(* list has its socket, and hosts, protocol and TLS settings (the options) *)
(* are those of the gateway as the handlers know it, never older ones.     *)
ServersCurrent ==
    running /\ handler.op = "none" =>
       \A g \in Gateway : serversByGateway[g] # Nil =>
          \A i \in DOMAIN serversByGateway[g] :
             LET s == serversByGateway[g][i] IN
             /\ socket[s.addr] = s
             /\ known[g] # Nil /\ s \in Range(Wanted(g, known[g]))

(* OnGatewayUpdate exits because "maybe old pod is deleting", or another   *)
(* gateway has the address.  It does not hold for a Gateway with two       *)
(* servers on one port, for which every resync exits.                      *)
ExitsForOthers ==
    [][running' \/ ~running \/ socket[Starting.addr] = OldPod
       \/ socket[Starting.addr].gw # handler.gw]_gatewayVars

(* Stop blocks until the accept loop is left, so that an update does not   *)
(* find a listener of its own gateway's earlier servers on the address:    *)
(* the process exits only for an old pod's socket, another gateway's, or   *)
(* that of a server which the same update has just started.                *)
NoNeedlessExit ==
    [][running' \/ ~running \/ socket[Starting.addr] = OldPod
       \/ socket[Starting.addr].gw # handler.gw
       \/ socket[Starting.addr] \in Range(handler.servers)]_gatewayVars

(* Of several servers on one address the first one has it.                 *)
Served(g) ==
    api[g] # Nil =>
       LET wanted == Wanted(g, api[g]) IN
       \A i \in DOMAIN wanted :
          \/ wanted[i].addr \in BadAddr
          \/ \E j \in 1..i : wanted[j].addr = wanted[i].addr /\ socket[wanted[i].addr] = wanted[j]

PortsOf(spec) == IF spec = Nil THEN {} ELSE {spec[i].port : i \in DOMAIN spec}
Contested(g) == \E h \in Gateway \ {g} : PortsOf(api[g]) \cap PortsOf(api[h]) # {}

(* Every gateway that has its ports for itself is served in the end, also  *)
(* when an old pod or a gateway that is gone still holds its address at    *)
(* first: the add gives up, the next resync exits or finds the address     *)
(* free.  Again and again, because each resync stops all servers of a      *)
(* gateway before it starts them anew.                                     *)
GatewaysServed == []<>(\A g \in Gateway : Contested(g) \/ Served(g))

=============================================================================
