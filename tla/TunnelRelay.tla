----------------------------- MODULE TunnelRelay -----------------------------
(***************************************************************************)
(* The relay nodes of one EdgeTunnel (pkg/tunnel/tunnel.go): the map from  *)
(* relay names to addresses, which the config watcher replaces when the    *)
(* config file changes, the relay finder extends with what the DHT knows,  *)
(* and streams and the heartbeat read, all without a lock; the relay       *)
(* service that follows the config; the connections that the bootstrap     *)
(* makes and the heartbeat keeps.                                          *)
(***************************************************************************)
EXTENDS Naturals, Sequences

CONSTANTS
    Self,          \* this node
    Peer,          \* the other nodes
    NoName,        \* the empty node name
    Configs,       \* the relayNodes a config file may have: <<[name, addrs]>>
    Truncated,     \* the content of a file that is being rewritten
    PeerAddrs,     \* a peer's addresses in the peerstore
    Modes,         \* ServerClientMode (the agent) or ClientMode (the gateway)
    Mounts,        \* whether the file is of a ConfigMap, or may or may not be
    MaxCandidates, \* the capacity of peerSource
    MinCandidates, \* what newEdgeTunnel gives to WithMinCandidates: 0
    MaxPolls,      \* how often BootstrapConnect tries in its minute
    EditWhileStarting, \* whether it changes before the watcher is there
    RetryTime,
    MaxEdits,      \* how often the file is replaced or written
    MaxDrops       \* how often a connection is lost

ASSUME RelayAssumption ==
    /\ Self \notin Peer /\ NoName \notin Peer \cup {Self} /\ Truncated \notin Configs
    /\ Mounts \subseteq BOOLEAN /\ RetryTime \in Nat \ {0}

VARIABLES
    inode, content, \* the file the path leads to
    mounted,       \* whether it is the file of a mounted ConfigMap
    watch,         \* the inode the watcher is on (0: none)
    events,        \* of the watcher
    edits, drops,
    mode,
    watcher,       \* where newEdgeTunnel, then runConfigWatcher is
    data,          \* doReload: what it has read
    loaded,        \* the relayNodes of the last assignment to relayMap
    relayMap, mapID, \* the map and its identity
    relayService, isRelay,
    newFailed,     \* whether the last relayv2.New failed
    finder,        \* where runRelayFinder is, and the peers still to do
    offered,       \* how many peers are in peerSource
    up, conns,     \* relays that can be reached, and those connected to
    todo,          \* connectToRelays: of each caller, the relays to do ...
    tries,         \* ... and the attempts so far
    polls, bad,    \* BootstrapConnect: its rounds, and badRelays of this one
    crashed

fileVars == <<inode, content, mounted, watch, events, edits>>
roleVars == <<mode, relayService, isRelay, newFailed>>
mapVars == <<loaded, relayMap, mapID>>
findVars == <<finder, offered>>
bootVars == <<polls, bad>>
connVars == <<up, conns, drops, todo, tries>>
relayVars == <<fileVars, watcher, data, mapVars, roleVars, findVars, connVars, bootVars, crashed>>

Caller == {"Bootstrap", "Watcher", "Heartbeat"}
NoFind == [pc |-> "idle", node |-> Self, id |-> 0, todo |-> {}]

-----------------------------------------------------------------------------
(* Addresses: where the IP is (Nowhere: an address that does not parse),   *)
(* and whether it leads over a relay.                                      *)
(* pkg/tunnel/util.go                                                      *)

(* A node without a name or with an address that does not parse is left    *)
(* out; of two of one name, the later one counts.                          *)
GenerateRelayMap(nodes) ==
    LET ok == {i \in DOMAIN nodes : nodes[i].name # NoName
                                    /\ \A a \in nodes[i].addrs : a.ip # "nowhere"}
        last(n) == CHOOSE i \in ok : nodes[i].name = n /\ \A j \in ok : nodes[j].name = n => j <= i
    IN  [n \in {nodes[i].name : i \in ok} |-> nodes[last(n)].addrs]

FilterPrivateMaddr(addrs) == {a \in addrs : a.ip \notin {"loopback", "private"}}
FilterCircuitMaddr(addrs) == {a \in addrs : ~a.circuit}

(* Mutant: only addresses over a relay are left out.                       *)
found_WithPrivate(p) == FilterCircuitMaddr(PeerAddrs[p])

(* What refreshRelayMap keeps of what the peerstore has of a peer.         *)
found(p) == FilterCircuitMaddr(FilterPrivateMaddr(PeerAddrs[p]))

(* newEdgeTunnel up to the bootstrap, with the config read before.         *)
RelayInit ==
    /\ inode = 1 /\ content \in Configs /\ watch = 0 /\ events = <<>> /\ edits = 0
    /\ mounted \in Mounts
    /\ watcher = "starting" /\ data = content
    /\ loaded = content /\ relayMap = GenerateRelayMap(content) /\ mapID = 1
    /\ mode \in Modes
    /\ isRelay = (Self \in DOMAIN relayMap) /\ newFailed = FALSE
    /\ relayService = (isRelay /\ mode = "ServerClient")
    /\ finder = NoFind /\ offered = 0
    /\ polls = 0 /\ bad = {}
    /\ up = Peer /\ conns = {} /\ drops = 0
    /\ todo = [c \in Caller |-> {}] /\ tries = [c \in Caller |-> [p \in Peer |-> 0]]
    /\ crashed = FALSE

-----------------------------------------------------------------------------
(* The config file *)

MayEdit == edits < MaxEdits /\ (watcher # "starting" \/ EditWhileStarting)

(* A ConfigMap update: the path leads to a new file, and the old one, with *)
(* the watch on it, is removed.                                            *)
SwapFile(new) ==
    /\ mounted /\ MayEdit /\ new # content
    /\ inode' = inode + 1 /\ content' = new /\ edits' = edits + 1
    /\ events' = IF watch = inode THEN Append(events, "Remove") ELSE events
    /\ watch' = 0
    /\ UNCHANGED <<mounted, watcher, data, mapVars, roleVars, findVars, connVars, bootVars, crashed>>

(* A normal file is rewritten: truncated, then written.                    *)
RewriteFile(new) ==
    /\ ~mounted
    /\ \/ MayEdit /\ edits + 1 < MaxEdits /\ content # Truncated /\ new = Truncated
       \/ content = Truncated /\ new \in Configs
    /\ content' = new /\ edits' = edits + 1
    /\ events' = IF watch = inode THEN Append(events, "Write") ELSE events
    /\ UNCHANGED <<inode, mounted, watch, watcher, data, mapVars, roleVars, findVars, connVars, bootVars, crashed>>

-----------------------------------------------------------------------------
(* BootstrapConnect: polls until all relays are connected to, or until its *)
(* minute is over, of which newEdgeTunnel only warns.                      *)

BootstrapPoll ==
    /\ watcher = "starting" /\ todo["Bootstrap"] = {}
    /\ polls = 0 \/ (bad # {} /\ polls < MaxPolls)
    /\ polls' = polls + 1 /\ bad' = {}
    /\ todo' = [todo EXCEPT !["Bootstrap"] = DOMAIN relayMap \ {Self}]
    /\ UNCHANGED <<fileVars, watcher, data, mapVars, roleVars, findVars, up, conns, drops, tries, crashed>>

BootstrapDial(p) ==
    /\ p \in todo["Bootstrap"]
    /\ conns' = conns \cup ({p} \cap up) /\ bad' = bad \cup ({p} \ up)
    /\ todo' = [todo EXCEPT !["Bootstrap"] = @ \ {p}]
    /\ UNCHANGED <<fileVars, watcher, data, mapVars, roleVars, findVars, up, drops, tries, polls, crashed>>

-----------------------------------------------------------------------------
(* runConfigWatcher and doReload *)

AddWatch ==
    /\ ~crashed /\ watcher = "starting" /\ polls > 0 /\ todo["Bootstrap"] = {}
    /\ watch' = inode /\ watcher' = "select" /\ polls' = 0 /\ bad' = {}
    /\ UNCHANGED <<inode, content, mounted, events, edits, data, mapVars, roleVars, findVars, connVars, crashed>>

TakeEvent ==
    /\ ~crashed /\ watcher = "select" /\ events # <<>>
    /\ watcher' = IF Head(events) = "Remove" THEN "readd" ELSE "read"
    /\ events' = Tail(events)
    /\ UNCHANGED <<inode, content, mounted, watch, edits, data, mapVars, roleVars, findVars, connVars, bootVars, crashed>>

(* Mutant: the watch went with the old file, and is not renewed.           *)
ReAdd_Skipped ==
    /\ ~crashed /\ watcher = "readd"
    /\ watcher' = "read"
    /\ UNCHANGED <<fileVars, data, mapVars, roleVars, findVars, connVars, bootVars, crashed>>

ReAdd ==
    /\ ~crashed /\ watcher = "readd"
    /\ watch' = inode /\ watcher' = "read"
    /\ UNCHANGED <<inode, content, mounted, events, edits, data, mapVars, roleVars, findVars, connVars, bootVars, crashed>>

ReAddFails ==
    /\ ~crashed /\ watcher = "readd"
    /\ watcher' = "stopped"
    /\ UNCHANGED <<fileVars, data, mapVars, roleVars, findVars, connVars, bootVars, crashed>>

(* doReload reads; a file without modules is a nil pointer.                *)
ReadFile ==
    /\ ~crashed /\ watcher = "read"
    /\ data' = content
    /\ watcher' = IF content = Truncated THEN "stopped" ELSE "assign"
    /\ crashed' = (content = Truncated)
    /\ UNCHANGED <<fileVars, mapVars, roleVars, findVars, connVars, bootVars>>

(* Mutant: a node that is a relay no more keeps the service.               *)
doReload_NoClose ==
    /\ ~crashed /\ watcher = "assign"
    /\ relayMap' = GenerateRelayMap(data) /\ loaded' = data /\ mapID' = mapID + 1
    /\ relayService' = (relayService \/ (Self \in DOMAIN relayMap' /\ mode = "ServerClient"))
    /\ isRelay' = IF mode = "ServerClient" THEN relayService' ELSE isRelay
    /\ watcher' = "connect"
    /\ UNCHANGED <<fileVars, data, mode, newFailed, findVars, connVars, bootVars, crashed>>

(* The new relay map, and the relay service this node has or not by it;    *)
(* relayv2.New may fail.                                                   *)
doReload ==
    /\ ~crashed /\ watcher = "assign"
    /\ relayMap' = GenerateRelayMap(data) /\ loaded' = data /\ mapID' = mapID + 1
    /\ \E failed \in BOOLEAN :
          LET start == Self \in DOMAIN relayMap' /\ ~relayService IN
          IF mode = "ServerClient"
          THEN /\ relayService' = (Self \in DOMAIN relayMap' /\ ~(start /\ failed))
               /\ isRelay' = IF start /\ failed THEN isRelay ELSE relayService'
               /\ newFailed' = (start /\ failed)
          ELSE UNCHANGED <<relayService, isRelay, newFailed>>
    /\ watcher' = "connect"
    /\ UNCHANGED <<fileVars, data, mode, findVars, connVars, bootVars, crashed>>

-----------------------------------------------------------------------------
(* runRelayFinder, which starts when the watch is there *)

(* AutoRelay asks for peerSource once it has too few candidates, and then  *)
(* takes what comes.                                                       *)
Asks(candidates) == candidates < MinCandidates

(* A send into peerSource waits while it is full; hostCtx never ends.      *)
Send ==
    /\ offered < MaxCandidates
    /\ offered' = IF Asks(0) THEN offered ELSE offered + 1

FindRound ==
    /\ ~crashed /\ watcher # "starting" /\ finder.pc = "idle"
    /\ finder' = [NoFind EXCEPT !.pc = "offer", !.todo = DOMAIN relayMap \ {Self}]
    /\ UNCHANGED <<fileVars, watcher, data, mapVars, roleVars, offered, connVars, bootVars, crashed>>

OfferRelay(p) ==
    /\ ~crashed /\ finder.pc = "offer" /\ p \in finder.todo
    /\ Send
    /\ finder' = [finder EXCEPT !.todo = @ \ {p}]
    /\ UNCHANGED <<fileVars, watcher, data, mapVars, roleVars, connVars, bootVars, crashed>>

(* The closest peers in the DHT of which the peerstore has addresses; none *)
(* also if the query fails.                                                *)
GetClosestPeers ==
    /\ ~crashed /\ finder.pc = "offer" /\ finder.todo = {}
    /\ \E closest \in SUBSET {p \in Peer : PeerAddrs[p] # {}} :
          finder' = [NoFind EXCEPT !.pc = IF closest = {} THEN "idle" ELSE "found", !.todo = closest]
    /\ UNCHANGED <<fileVars, watcher, data, mapVars, roleVars, offered, connVars, bootVars, crashed>>

(* The finder goes on with the peers it has left.                          *)
NextFound(rest) == [NoFind EXCEPT !.pc = IF rest = {} THEN "idle" ELSE "found", !.todo = rest]

(* A found peer is offered; if the node has a name for it, refreshRelayMap *)
(* looks it up.                                                            *)
Find(p) ==
    /\ ~crashed /\ finder.pc = "found" /\ p \in finder.todo
    /\ Send
    /\ \/ finder' = NextFound(finder.todo \ {p})
       \/ finder' = [pc |-> IF p \in DOMAIN relayMap THEN "append" ELSE "store",
                     node |-> p, id |-> mapID, todo |-> finder.todo \ {p}]
    /\ UNCHANGED <<fileVars, watcher, data, mapVars, roleVars, connVars, bootVars, crashed>>

(* refreshRelayMap: the name was not in the map; it is put into the map    *)
(* there is now. If a stream or connectToRelays is going over it at the    *)
(* time, the Go runtime may end the process.                               *)
StoreFound ==
    /\ ~crashed /\ finder.pc = "store"
    /\ relayMap' = [n \in DOMAIN relayMap \cup {finder.node} |->
                       IF n = finder.node THEN found(n) ELSE relayMap[n]]
    /\ crashed' \in BOOLEAN
    /\ finder' = NextFound(finder.todo)
    /\ UNCHANGED <<fileVars, watcher, data, loaded, mapID, roleVars, offered, connVars, bootVars>>

(* The name was there: its entry, perhaps of a replaced map, gets more     *)
(* addresses.                                                              *)
AppendFound ==
    /\ ~crashed /\ finder.pc = "append"
    /\ relayMap' = IF finder.id = mapID
                   THEN [relayMap EXCEPT ![finder.node] = @ \cup found(finder.node)] ELSE relayMap
    /\ finder' = NextFound(finder.todo)
    /\ UNCHANGED <<fileVars, watcher, data, loaded, mapID, roleVars, offered, connVars, bootVars, crashed>>

-----------------------------------------------------------------------------
(* connectToRelays, by the watcher after a reload and by the heartbeat *)

(* Mutant: the condition function ends the heartbeat with a lost relay.    *)
Beat_Ends ==
    /\ ~crashed /\ watcher # "starting" /\ todo["Heartbeat"] = {} /\ drops = 0
    /\ todo' = [todo EXCEPT !["Heartbeat"] = DOMAIN relayMap \ (conns \cup {Self})]
    /\ UNCHANGED <<fileVars, watcher, data, mapVars, roleVars, findVars, up, conns, drops, tries, bootVars, crashed>>

(* A heartbeat; relays that are connected and this node itself are passed. *)
Beat ==
    /\ ~crashed /\ watcher # "starting" /\ todo["Heartbeat"] = {}
    /\ todo' = [todo EXCEPT !["Heartbeat"] = DOMAIN relayMap \ (conns \cup {Self})]
    /\ UNCHANGED <<fileVars, watcher, data, mapVars, roleVars, findVars, up, conns, drops, tries, bootVars, crashed>>

WatcherConnects ==
    /\ ~crashed /\ watcher = "connect"
    /\ todo' = [todo EXCEPT !["Watcher"] = DOMAIN relayMap \ (conns \cup {Self})]
    /\ watcher' = "wait"
    /\ UNCHANGED <<fileVars, data, mapVars, roleVars, findVars, up, conns, drops, tries, bootVars, crashed>>

WatcherWaited ==
    /\ ~crashed /\ watcher = "wait" /\ todo["Watcher"] = {}
    /\ watcher' = "select"
    /\ UNCHANGED <<fileVars, data, mapVars, roleVars, findVars, connVars, bootVars, crashed>>

(* connectToRelay: an attempt, up to RetryTime of them.                    *)
connectToRelay(c, p) ==
    /\ ~crashed /\ c # "Bootstrap" /\ p \in todo[c]
    /\ conns' = conns \cup ({p} \cap up)
    /\ LET last == p \in up \/ tries[c][p] + 1 = RetryTime IN
       /\ todo' = [todo EXCEPT ![c] = IF last THEN @ \ {p} ELSE @]
       /\ tries' = [tries EXCEPT ![c][p] = IF last THEN 0 ELSE @ + 1]
    /\ UNCHANGED <<fileVars, watcher, data, mapVars, roleVars, findVars, up, drops, bootVars, crashed>>

(* A relay goes away, with the connection, and comes back.                 *)
RelayDown(p) ==
    /\ p \in up /\ drops < MaxDrops
    /\ up' = up \ {p} /\ conns' = conns \ {p} /\ drops' = drops + 1
    /\ UNCHANGED <<fileVars, watcher, data, mapVars, roleVars, findVars, todo, tries, bootVars, crashed>>

RelayUp(p) ==
    /\ p \in Peer \ up
    /\ up' = up \cup {p}
    /\ UNCHANGED <<fileVars, watcher, data, mapVars, roleVars, findVars, conns, drops, todo, tries, bootVars, crashed>>

Watcher == AddWatch \/ TakeEvent \/ ReAdd \/ ReadFile \/ doReload \/ WatcherConnects \/ WatcherWaited
Starting == BootstrapPoll \/ \E p \in Peer : BootstrapDial(p)
Finder ==
    \/ FindRound \/ GetClosestPeers \/ StoreFound \/ AppendFound
    \/ \E p \in Peer : OfferRelay(p) \/ Find(p)

RelayNext ==
    \/ \E new \in Configs : SwapFile(new)
    \/ \E new \in Configs \cup {Truncated} : RewriteFile(new)
    \/ Starting \/ Watcher \/ ReAddFails \/ Finder \/ Beat
    \/ \E c \in Caller, p \in Peer : connectToRelay(c, p)
    \/ \E p \in Peer : RelayDown(p) \/ RelayUp(p)

RelaySpec == RelayInit /\ [][RelayNext]_relayVars

(* newEdgeTunnel goes on, the goroutines of the tunnel are scheduled, and  *)
(* the periods of heartbeat and finder pass.                               *)
FairRelaySpec ==
    /\ RelaySpec
    /\ WF_relayVars(Starting) /\ WF_relayVars(Watcher) /\ WF_relayVars(Finder) /\ WF_relayVars(Beat)
    /\ \A c \in Caller, p \in Peer : WF_relayVars(connectToRelay(c, p))

-----------------------------------------------------------------------------
(* Properties *)

(* Types, and the bounds of the retries.                                   *)
RelayTypeOK ==
    /\ watcher \in {"starting", "select", "readd", "read", "assign", "connect", "wait", "stopped"}
    /\ watch \in 0..inode /\ DOMAIN relayMap \subseteq Peer \cup {Self}
    /\ {relayService, isRelay, newFailed, crashed} \subseteq BOOLEAN
    /\ conns \subseteq Peer /\ \A c \in Caller, p \in Peer : tries[c][p] \in 0..(RetryTime - 1)

(* runConfigWatcher: whenever the watcher waits and has no event to take,  *)
(* it has loaded what is in the file now, however updates and reloads      *)
(* overlap: no update is lost between an event and the renewed watch.      *)
LoadedIsCurrent == ~crashed /\ watcher = "select" /\ events = <<>> => loaded = content

(* doReload: whenever the watcher waits, the relay service of an agent     *)
(* runs exactly if the loaded config has this node, unless the service     *)
(* could not be made, and isRelay says so; a gateway on a relay node never *)
(* runs one.                                                               *)
RoleFollowsConfig ==
    watcher = "select" =>
        /\ relayService = (mode = "ServerClient" /\ Self \in DOMAIN GenerateRelayMap(loaded) /\ ~newFailed)
        /\ mode = "ServerClient" => isRelay = relayService

(* refreshRelayMap only adds: a relay of the loaded config keeps the       *)
(* addresses the config gives it. It does not hold, because the finder     *)
(* stores what it has looked up before the reload.                         *)
ConfiguredKept ==
    LET conf == GenerateRelayMap(loaded) IN
    \A n \in DOMAIN conf : n \in DOMAIN relayMap /\ conf[n] \subseteq relayMap[n]

(* refreshRelayMap and doReload: however the finder's lookup and store     *)
(* meet a reload, the relays of the loaded config stay in the map, no      *)
(* address of an older config does, and no address the finder has added is *)
(* of a private network or leads over another relay.                       *)
MapFollowsConfig ==
    LET conf == GenerateRelayMap(loaded) IN
    /\ DOMAIN conf \subseteq DOMAIN relayMap
    /\ \A n \in DOMAIN relayMap :
          LET added == relayMap[n] \ (IF n \in DOMAIN conf THEN conf[n] ELSE {}) IN
          \A a \in added : a \in PeerAddrs[n] /\ a.ip \notin {"loopback", "private"} /\ ~a.circuit

(* runRelayFinder runs every FinderPeriod: its rounds end. It does not     *)
(* hold: AutoRelay, which needs no candidates, never takes peerSource, and *)
(* the finder stays in the send that finds it full.                        *)
FinderRuns == []<>(finder.pc = "idle" \/ crashed)

(* doReload is prepared for any content the file can have while it is      *)
(* rewritten in place. It does not hold: doReload uses cfg.Modules, which  *)
(* is nil for a file cut short.                                            *)
ReloadSurvives == ~(crashed /\ data = Truncated)

(* runHeartbeat: a relay that stays in the map and can be reached is       *)
(* connected to again, also if it had been away for all the retries.       *)
RelaysConnected ==
    \A p \in Peer : <>[](p \in DOMAIN relayMap /\ p \in up) => <>[](p \in conns \/ crashed)

=============================================================================
