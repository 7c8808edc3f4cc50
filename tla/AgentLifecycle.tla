---------------------------- MODULE AgentLifecycle ----------------------------
(***************************************************************************)
(* The life of edgemesh-agent or edgemesh-gateway on a node (app/server.go *)
(* of cmd/edgemesh-agent and cmd/edgemesh-gateway, pkg/apis/module, and    *)
(* the Register, Start and Shutdown of the modules): prepare the node,     *)
(* register all modules in order, start those that are enabled, wait for a *)
(* signal, and shut all of them down at the same time, while the proxier's *)
(* sync loop, which nothing stops, goes on writing iptables.  A process    *)
(* may fail or be killed at any step; the next one starts on what it left  *)
(* on the node.                                                            *)
(***************************************************************************)
EXTENDS MeshConfig, Corefile

CONSTANTS
    Configs,       \* the configurations
    NoCIDR,        \* a node without pod network
    MaxSyncs,      \* how often the sync loop of a process runs
    MaxFaults      \* how many calls fail, processes are killed or signalled

ASSUME LifeAssumption ==
    /\ \A c \in Configs : /\ c.kubeAPI \in KubeAPI
                          /\ c.cidrs \subseteq CIDR /\ c.hostCIDR \in CIDR \cup {NoCIDR}
                          /\ c.cache.enable => c.cache \in Caches /\ c.cluster \in Clusters
    /\ MaxSyncs \in Nat /\ MaxFaults \in Nat

VARIABLES
    config,
    phase,         \* of the program, up to core.Run and Shutdown
    next,          \* registerModules: the next module
    errs,          \* whether a Register failed
    modules,       \* beehive's registered modules
    cached,        \* those module.Initialize has recorded for Shutdown
    started,       \* modules whose Start runs
    shutdown,      \* the Shutdown goroutine of a module
    todo,          \* CleanupLeftovers: the chains still to do
    sync, syncs,   \* the sync loop: the chain it is at, and how often it ran
    overlap,       \* history: the sync loop wrote during the shutdown
    corefile,      \* what UpdateCorefile has written
    kubeConfig,    \* the file prepareRun writes: "none", "partial", "whole"
    device,        \* the edgemesh device: "link", "addr", "up"
    hooks, chains, \* the proxier's chains in iptables, and those jumped to
    own, old,      \* chains with rules of this process, of an earlier one
    routes,        \* the networks routed to the tun device
    accept,        \* the rule WatchRoute adds to POSTROUTING
    faults

run == <<phase, next, errs, modules, cached, started>>
cleanup == <<shutdown, todo>>
iptables == <<hooks, chains, own, old>>
loop == <<sync, syncs, overlap>>
node == <<corefile, kubeConfig, device, routes, accept>>
lifeVars == <<config, run, cleanup, loop, node, iptables, faults>>

(* iptablesInit's order, and the two of CleanupLeftovers.                  *)
InitOrder == <<"containerPortal", "hostPortal", "containerNodePort", "hostNodePort", "nonLocal">>
HookOrder == <<"hostPortal", "containerPortal", "hostNodePort", "containerNodePort", "nonLocal">>
NatOrder == <<"containerPortal", "hostPortal", "hostNodePort", "containerNodePort">>
FilterOrder == <<"nonLocal">>

Chain == Range(InitOrder)
FirstChains(k) == {InitOrder[i] : i \in 1..k}
NoFile == [forward |-> <<>>, kubernetes |-> {}]
Ended == {"exited", "failed"}

LifeInit ==
    /\ config \in Configs
    /\ phase = "validate" /\ next = 1 /\ errs = FALSE
    /\ modules = {} /\ cached = {} /\ started = {}
    /\ shutdown = [m \in Module |-> "none"] /\ todo = <<>>
    /\ sync = 0 /\ syncs = 0 /\ overlap = FALSE
    /\ corefile = NoFile /\ kubeConfig = "none"
    /\ device = {} /\ routes = {} /\ accept = FALSE
    /\ hooks = {} /\ chains = {} /\ own = {} /\ old = {}
    /\ faults = 0

Fault == faults < MaxFaults /\ faults' = faults + 1

(* The process goes on to the next step ...                                *)
Goes(to) ==
    /\ phase' = to
    /\ UNCHANGED <<next, errs, modules, cached, started, cleanup, sync, syncs, routes, own, old>>

(* ... or ends: its memory is lost and, as it is not persistent, its tun   *)
(* device with the routes; the rules it wrote lead to ports nobody has.    *)
Dies(how) ==
    /\ phase' = how
    /\ next' = 1 /\ errs' = FALSE /\ modules' = {} /\ cached' = {} /\ started' = {}
    /\ shutdown' = [m \in Module |-> "none"] /\ todo' = <<>>
    /\ sync' = 0 /\ syncs' = 0
    /\ routes' = {}
    /\ own' = {} /\ old' = old \cup own

(* A call fails and has no effect, CoreDNS or the profiling server exits   *)
(* the process, or it is killed: by a signal too, before core.Run has      *)
(* installed the handler.                                                  *)
Fails ==
    /\ phase \notin Ended /\ Fault
    /\ Dies("failed")
    /\ UNCHANGED <<config, overlap, corefile, kubeConfig, device, accept, hooks, chains>>

(* A new container: with a new file system, unless the files are mounted.  *)
Restart ==
    /\ phase \in Ended
    /\ Goes("validate")
    /\ overlap' = FALSE
    /\ kubeConfig' \in {kubeConfig, "none"}
    /\ UNCHANGED <<config, corefile, device, accept, hooks, chains, faults>>

-----------------------------------------------------------------------------
(* prepareRun and NewClients                                               *)

Validate ==
    /\ phase = "validate"
    /\ IF Valid(config) THEN Goes("kubeconfig") ELSE Dies("failed")
    /\ UNCHANGED <<config, overlap, corefile, kubeConfig, device, accept, hooks, chains, faults>>

NeedsFile == Mode(config) = "EdgeMode" /\ kubeConfig = "none"

(* "If it already exists, we don't create it again."  The gateway needs no *)
(* device.                                                                 *)
SaveKubeConfigFile ==
    /\ phase = "kubeconfig"
    /\ kubeConfig' = IF NeedsFile THEN "whole" ELSE kubeConfig
    /\ Goes(IF config.program = "agent" THEN "device" ELSE "env")
    /\ UNCHANGED <<config, overlap, corefile, device, accept, hooks, chains, faults>>

(* The file is created, and writing it fails or is cut off.                *)
SavePartly ==
    /\ phase = "kubeconfig" /\ NeedsFile /\ Fault
    /\ kubeConfig' = "partial"
    /\ Dies("failed")
    /\ UNCHANGED <<config, overlap, corefile, device, accept, hooks, chains>>

(* Mutant: a device that is there is taken as it is.                       *)
EnsureBridgeDevice_AsFound ==
    /\ phase = "device" /\ "link" \in device
    /\ Goes("up")
    /\ UNCHANGED <<config, overlap, corefile, kubeConfig, device, accept, hooks, chains, faults>>

(* The device is there: its address is added again, an error not reported. *)
EnsureBridgeDevice ==
    /\ phase = "device" /\ "link" \in device
    /\ \/ device' = device \cup {"addr"} /\ UNCHANGED faults
       \/ UNCHANGED device /\ Fault
    /\ Goes("up")
    /\ UNCHANGED <<config, overlap, corefile, kubeConfig, accept, hooks, chains>>

AddBridgeDevice ==
    /\ phase = "device" /\ "link" \notin device
    /\ device' = device \cup {"link"}
    /\ Goes("address")
    /\ UNCHANGED <<config, overlap, corefile, kubeConfig, accept, hooks, chains, faults>>

AddrAdd ==
    /\ phase = "address"
    /\ device' = device \cup {"addr"}
    /\ Goes("up")
    /\ UNCHANGED <<config, overlap, corefile, kubeConfig, accept, hooks, chains, faults>>

SetupBridgeDevice ==
    /\ phase = "up"
    /\ device' = device \cup {"up"}
    /\ Goes("env")
    /\ UNCHANGED <<config, overlap, corefile, kubeConfig, accept, hooks, chains, faults>>

LookupEnv ==
    /\ phase = "env"
    /\ IF Environment(config) \subseteq config.env THEN Goes("clients") ELSE Dies("failed")
    /\ UNCHANGED <<config, overlap, corefile, kubeConfig, device, accept, hooks, chains, faults>>

(* A kubeConfig file that is cut off does not load.                        *)
NewClients ==
    /\ phase = "clients"
    /\ IF Mode(config) = "EdgeMode" /\ kubeConfig = "partial" THEN Dies("failed") ELSE Goes("register")
    /\ UNCHANGED <<config, overlap, corefile, kubeConfig, device, accept, hooks, chains, faults>>

-----------------------------------------------------------------------------
(* registerModules: one module after the other, an error or not            *)

Registering(m) ==
    phase = "register" /\ next <= Len(Order(config)) /\ Order(config)[next] = m

(* The module is registered, or its constructor has returned an error.     *)
Registered(m, ok) ==
    /\ modules' = IF ok THEN modules \cup {m} ELSE modules
    /\ errs' = (errs \/ ~ok)
    /\ next' = next + 1
    /\ UNCHANGED <<config, phase, cached, started, cleanup, loop>>

(* beehive keeps only modules that are enabled.                            *)
RegisterDisabled(m) ==
    /\ Registering(m) /\ m \notin Enabled(config)
    /\ next' = next + 1
    /\ UNCHANGED <<config, phase, errs, modules, cached, started, cleanup, loop, node, iptables, faults>>

(* EdgeDNS: UpdateCorefile.  GetInterfaceIP finds an address only on a     *)
(* device that has one; a failed call to the API server is a server less.  *)
RegisterDNS ==
    /\ Registering("edgedns") /\ "edgedns" \in Enabled(config)
    /\ \E ok \in IF config.cache.enable /\ config.cache.autoDetect THEN SUBSET Calls ELSE {Calls} :
          /\ IF ok = Calls THEN UNCHANGED faults ELSE Fault
          /\ IF "addr" \in device /\ HasUpstream(config.cache, config.cluster, ok)
             THEN /\ corefile' = UpdateCorefile(config.cache,
                                    [config.kubeAPI EXCEPT !.kubeConfig =
                                        IF Mode(config) = "EdgeMode" THEN "temp" ELSE @],
                                    config.cluster, ok)
                  /\ Registered("edgedns", TRUE)
             ELSE UNCHANGED corefile /\ Registered("edgedns", FALSE)
    /\ UNCHANGED <<kubeConfig, device, routes, accept, iptables>>

(* Mutant: the chain of the filter table is not flushed.                   *)
iptablesFlush_NatOnly(chs) == chs \ {"nonLocal"}

iptablesFlush(chs) == chs \cap Chain

(* EdgeProxy: createProxier sets the chains up and flushes them.           *)
RegisterProxy ==
    /\ Registering("edgeproxy") /\ "edgeproxy" \in Enabled(config)
    /\ IF "addr" \in device
       THEN /\ hooks' = Chain /\ chains' = Chain
            /\ old' = old \ iptablesFlush(old)
            /\ Registered("edgeproxy", TRUE)
       ELSE UNCHANGED <<hooks, chains, old>> /\ Registered("edgeproxy", FALSE)
    /\ UNCHANGED <<node, own, faults>>

(* iptablesInit stops where a call fails; iptablesFlush, or the listener   *)
(* of the Socks5 proxy, fails after it.  Nothing is undone.                *)
RegisterProxyFails ==
    /\ Registering("edgeproxy") /\ "edgeproxy" \in Enabled(config) /\ Fault
    /\ \E k \in 0..Len(InitOrder) :
          /\ hooks' = hooks \cup FirstChains(k) /\ chains' = chains \cup FirstChains(k)
          /\ old' \in IF k = Len(InitOrder) THEN {old, {}} ELSE {old}
    /\ Registered("edgeproxy", FALSE)
    /\ UNCHANGED <<node, own>>

(* WatchRoute: the networks that are not the node's own are routed to the  *)
(* tun device, but for those whose command fails.  Without a pod network   *)
(* of the node it stops at the first.                                      *)
WatchRoute(lost) ==
    IF config.hostCIDR = NoCIDR /\ config.cidrs # {}
    THEN UNCHANGED <<routes, accept>>
    ELSE /\ routes' = {net \in config.cidrs \ lost : ~CheckTunCIDR(net, config.hostCIDR)}
         /\ accept' = TRUE

(* EdgeCni: an error of WatchRoute is only logged.                         *)
RegisterCNI ==
    /\ Registering("edgecni") /\ "edgecni" \in Enabled(config)
    /\ \E lost \in SUBSET config.cidrs :
          /\ WatchRoute(lost)
          /\ IF lost = {} THEN UNCHANGED faults ELSE Fault
    /\ Registered("edgecni", TRUE)
    /\ UNCHANGED <<corefile, kubeConfig, device, iptables>>

RegisterOther(m) ==
    /\ Registering(m) /\ m \in {"edgetunnel", "edgegateway"} \cap Enabled(config)
    /\ Registered(m, TRUE)
    /\ UNCHANGED <<node, iptables, faults>>

(* Another constructor fails, as NewMeshAdapter does on a CIDR that does   *)
(* not parse, a Node it cannot get, or a tun device it cannot make; the    *)
(* modules after it are tried all the same.                                *)
RegisterFails(m) ==
    /\ Registering(m) /\ m \in Enabled(config) \ {"edgeproxy"} /\ Fault
    /\ Registered(m, FALSE)
    /\ UNCHANGED <<node, iptables>>

(* Run: all modules are started, or the process ends without Shutdown.     *)
Initialize ==
    /\ phase = "register" /\ next > Len(Order(config)) /\ ~errs
    /\ cached' = modules
    /\ phase' = "start"
    /\ UNCHANGED <<config, next, errs, modules, started, cleanup, loop, node, iptables, faults>>

RegisterErrors ==
    /\ phase = "register" /\ next > Len(Order(config)) /\ errs
    /\ Dies("failed")
    /\ UNCHANGED <<config, overlap, corefile, kubeConfig, device, accept, hooks, chains, faults>>

-----------------------------------------------------------------------------
(* core.Run: moduleKeeper starts every module in a goroutine of its own    *)

(* EdgeDNS: CoreDNS reads the Corefile, and the kubeConfig file if that    *)
(* names it, which is then no longer needed.                               *)
StartDNS ==
    /\ phase = "start" /\ "edgedns" \in modules \ started
    /\ IF /\ corefile.forward # <<>>
          /\ "kubeconfig" \in corefile.kubernetes /\ Mode(config) = "EdgeMode" => kubeConfig = "whole"
       THEN /\ started' = started \cup {"edgedns"}
            /\ kubeConfig' = IF config.kubeAPI.deleteKubeConfig THEN "none" ELSE kubeConfig
            /\ UNCHANGED <<phase, next, errs, modules, cached, cleanup, sync, syncs, routes, own, old>>
       ELSE Dies("failed") /\ UNCHANGED kubeConfig
    /\ UNCHANGED <<config, overlap, corefile, device, accept, hooks, chains, faults>>

(* EdgeProxy starts the sync loop.                                         *)
Start(m) ==
    /\ phase = "start" /\ m \in modules \ (started \cup {"edgedns"})
    /\ started' = started \cup {m}
    /\ sync' = IF m = "edgeproxy" THEN 1 ELSE sync
    /\ UNCHANGED <<config, phase, next, errs, modules, cached, cleanup, syncs, overlap, node, iptables, faults>>

(* The signal: core.Run returns, and the deferred module.Shutdown runs.    *)
Signal ==
    /\ phase = "start" /\ Fault
    /\ phase' = "shutdown"
    /\ shutdown' = [m \in Module |-> IF m \in cached THEN "begin" ELSE "none"]
    /\ UNCHANGED <<config, next, errs, modules, cached, started, todo, loop, node, iptables>>

-----------------------------------------------------------------------------
(* The sync loop: iptablesInit ensures each chain and then the jump to it; *)
(* a jump to a chain that has gone is an error and ends it.  Then the      *)
(* portals are opened, whether or not there was an error.                  *)

Syncing == phase \in {"start", "shutdown"} /\ sync > 0 /\ syncs < MaxSyncs
Portals == 2 * Len(InitOrder) + 1

EnsureChain ==
    /\ Syncing /\ sync % 2 = 1 /\ sync < Portals
    /\ chains' = chains \cup {InitOrder[(sync + 1) \div 2]}
    /\ sync' = sync + 1
    /\ overlap' = (overlap \/ phase = "shutdown")
    /\ UNCHANGED <<config, run, cleanup, syncs, node, hooks, own, old, faults>>

EnsureRule ==
    /\ Syncing /\ sync % 2 = 0
    /\ LET c == InitOrder[sync \div 2] IN
       /\ hooks' = hooks \cup ({c} \cap chains)
       /\ sync' = IF c \in chains THEN sync + 1 ELSE Portals
    /\ overlap' = (overlap \/ phase = "shutdown")
    /\ UNCHANGED <<config, run, cleanup, syncs, node, chains, own, old, faults>>

ensurePortals ==
    /\ Syncing /\ sync = Portals
    /\ own' = own \cup chains
    /\ sync' = 1 /\ syncs' = syncs + 1
    /\ overlap' = (overlap \/ phase = "shutdown")
    /\ UNCHANGED <<config, run, cleanup, node, hooks, chains, old, faults>>

-----------------------------------------------------------------------------
(* module.Shutdown: a goroutine for each cached module                     *)

(* CleanupAndExit of the proxy server calls CleanupLeftovers: first all    *)
(* jump rules are deleted ...                                              *)
CleanupAndExit ==
    /\ phase = "shutdown" /\ shutdown["edgeproxy"] = "begin"
    /\ shutdown' = [shutdown EXCEPT !["edgeproxy"] = "hooks"]
    /\ todo' = HookOrder
    /\ UNCHANGED <<config, run, loop, node, iptables, faults>>

(* Mutant: the last jump rule is forgotten.                                *)
DeleteRule_NotLast ==
    /\ phase = "shutdown" /\ shutdown["edgeproxy"] = "hooks"
    /\ hooks' = hooks \ {Head(todo)}
    /\ IF Len(todo) > 2
       THEN todo' = Tail(todo) /\ UNCHANGED shutdown
       ELSE /\ todo' \in {NatOrder \o FilterOrder, FilterOrder \o NatOrder}
            /\ shutdown' = [shutdown EXCEPT !["edgeproxy"] = "chains"]
    /\ UNCHANGED <<config, run, loop, node, chains, own, old, faults>>

DeleteRule ==
    /\ phase = "shutdown" /\ shutdown["edgeproxy"] = "hooks"
    /\ hooks' = hooks \ {Head(todo)}
    /\ IF Len(todo) > 1
       THEN todo' = Tail(todo) /\ UNCHANGED shutdown
       ELSE /\ todo' \in {NatOrder \o FilterOrder, FilterOrder \o NatOrder}
            /\ shutdown' = [shutdown EXCEPT !["edgeproxy"] = "chains"]
    /\ UNCHANGED <<config, run, loop, node, chains, own, old, faults>>

(* ... then the chains are flushed and deleted, which fails for one that   *)
(* is still jumped to; the tables come in the order of a Go map.           *)
DeleteChain ==
    /\ phase = "shutdown" /\ shutdown["edgeproxy"] = "chains"
    /\ chains' = chains \ ({Head(todo)} \ hooks)
    /\ own' = own \ {Head(todo)} /\ old' = old \ {Head(todo)}
    /\ todo' = Tail(todo)
    /\ shutdown' = [shutdown EXCEPT !["edgeproxy"] = IF Len(todo) > 1 THEN @ ELSE "done"]
    /\ UNCHANGED <<config, run, loop, node, hooks, faults>>

(* EdgeCni: CloseRoute first closes mesh.Close, which NewMeshAdapter has   *)
(* left nil: that panics and ends the process.                             *)
CloseRoute ==
    /\ phase = "shutdown" /\ shutdown["edgecni"] = "begin"
    /\ Dies("failed")
    /\ UNCHANGED <<config, overlap, corefile, kubeConfig, device, accept, hooks, chains, faults>>

(* Mutant: a module that was never started is waited for but not shut down *)
ShutdownOther_IfStarted(m) ==
    /\ phase = "shutdown" /\ shutdown[m] = "begin"
    /\ m \in {"edgedns", "edgetunnel", "edgegateway"} \cap started
    /\ shutdown' = [shutdown EXCEPT ![m] = "done"]
    /\ UNCHANGED <<config, run, todo, loop, node, iptables, faults>>

(* EdgeDNS and EdgeGateway have nothing to do; EdgeTunnel closes stopCh.   *)
ShutdownOther(m) ==
    /\ phase = "shutdown" /\ shutdown[m] = "begin"
    /\ m \in {"edgedns", "edgetunnel", "edgegateway"}
    /\ shutdown' = [shutdown EXCEPT ![m] = "done"]
    /\ UNCHANGED <<config, run, todo, loop, node, iptables, faults>>

(* wg.Wait() returns, and Run.                                             *)
Exit ==
    /\ phase = "shutdown" /\ \A m \in cached : shutdown[m] = "done"
    /\ Dies("exited")
    /\ UNCHANGED <<config, overlap, corefile, kubeConfig, device, accept, hooks, chains, faults>>

-----------------------------------------------------------------------------
Startup ==
    \/ Validate \/ SaveKubeConfigFile
    \/ EnsureBridgeDevice \/ AddBridgeDevice \/ AddrAdd \/ SetupBridgeDevice
    \/ LookupEnv \/ NewClients
    \/ RegisterDNS \/ RegisterProxy \/ RegisterCNI
    \/ \E m \in Module : RegisterDisabled(m) \/ RegisterOther(m)
    \/ Initialize \/ RegisterErrors
    \/ StartDNS \/ \E m \in Module : Start(m)

Shutdown ==
    \/ CleanupAndExit \/ DeleteRule \/ DeleteChain
    \/ CloseRoute
    \/ \E m \in Module : ShutdownOther(m)
    \/ Exit

LifeNext ==
    \/ Startup \/ Signal \/ Shutdown \/ Restart
    \/ EnsureChain \/ EnsureRule \/ ensurePortals
    \/ Fails \/ SavePartly \/ RegisterProxyFails
    \/ \E m \in Module : RegisterFails(m)

LifeSpec == LifeInit /\ [][LifeNext]_lifeVars

(* The program's own goroutines are scheduled, and the kubelet restarts a  *)
(* container that has ended.                                               *)
FairLifeSpec ==
    LifeSpec /\ WF_lifeVars(Startup) /\ WF_lifeVars(Shutdown) /\ WF_lifeVars(Restart)

-----------------------------------------------------------------------------
(* Properties *)

(* The variables have the types the program and the modules give them.     *)
LifeTypeOK ==
    /\ config \in Configs
    /\ config.kubeAPI \in KubeAPI
    /\ phase \in Ended \cup {"validate", "kubeconfig", "device", "address", "up", "env",
                             "clients", "register", "start", "shutdown"}
    /\ next \in 1..(Len(Order(config)) + 1)
    /\ cached \subseteq modules /\ started \subseteq modules /\ modules \subseteq Enabled(config)
    /\ shutdown \in [Module -> {"none", "begin", "hooks", "chains", "done"}]
    /\ hooks \subseteq chains /\ own \cup old \subseteq chains /\ chains \subseteq Chain
    /\ kubeConfig \in {"none", "partial", "whole"}
    /\ device \in SUBSET {"link", "addr", "up"}
    /\ routes \subseteq config.cidrs /\ config.cidrs \subseteq CIDR
    /\ {errs, overlap, accept} \subseteq BOOLEAN
    /\ sync \in 0..Portals /\ syncs \in 0..MaxSyncs /\ faults \in 0..MaxFaults

(* registerModules, Run: all or nothing. A module runs only in a process   *)
(* in which every enabled module was created, and all that run will be     *)
(* shut down.                                                              *)
AllOrNothing == started # {} => modules = Enabled(config) /\ started \subseteq cached

(* CreateEdgeMeshDevice: the modules that listen on the edgemesh device    *)
(* are only ever created on one that has its address and is up, also if an *)
(* earlier process was stopped in the middle of making it.                 *)
DeviceServes ==
    modules \cap {"edgedns", "edgeproxy"} # {} => device = {"link", "addr", "up"}

(* createProxier "Flush old iptables rules (since the bound ports will be  *)
(* invalid after a restart)": while a proxier runs there is no rule of an  *)
(* earlier process in any of its chains, however that ended.               *)
NoOldRules == "edgeproxy" \in modules => old = {}

(* Both, that is: every process finds the node ready for its modules,      *)
(* whatever an earlier one has left there when it was killed.              *)
FindsNodeReady == DeviceServes /\ NoOldRules

(* WatchRoute: no network with the addresses of the node's own pods is     *)
(* routed to the tun device, and if no command has failed every other is.  *)
RoutesForeign ==
    "edgecni" \in modules /\ config.hostCIDR # NoCIDR =>
        LET Foreign == {net \in config.cidrs : Addresses(net) # Addresses(config.hostCIDR)}
        IN  routes \subseteq Foreign /\ (faults = 0 => routes = Foreign)

(* UpdateCorefile computes what a cache should forward to, and the file    *)
(* CoreDNS is started with is one it wrote for the process's own           *)
(* configuration, whatever an earlier process left: a cache forwards to    *)
(* just the servers detected or configured, each once.  What is detected   *)
(* is all there is unless a call has failed.                               *)
CorefileForwards ==
    /\ CacheForwards
    /\ "edgedns" \in modules /\ config.cache.enable =>
          \E ok \in SUBSET Calls :
             /\ faults = 0 => ok = Calls
             /\ ForwardsTo(corefile.forward, config.cache, config.cluster, ok)

(* CleanupAndExit "remove iptables rules": an agent that has shut down and *)
(* exited leaves neither jump rules nor chains of its proxier behind.  It  *)
(* does not hold, as the sync loop can re-create a chain meanwhile.        *)
RulesRemoved == phase = "exited" /\ "edgeproxy" \in Enabled(config) => hooks = {} /\ chains = {}

(* An agent that has exited has removed its rules and those of all earlier *)
(* processes, if the sync loop, wherever it was at the signal, wrote       *)
(* nothing while CleanupLeftovers ran.                                     *)
RulesRemovedIfQuiet == ~overlap => RulesRemoved

(* EdgeCni.Shutdown "Cleanup iptables failed": an agent that has ended     *)
(* leaves no rule of its CNI module.  It does not hold: nothing deletes it.*)
AcceptRemoved == phase \in Ended => ~accept

(* module.Shutdown: a signal ends the process, even one that comes before  *)
(* every module has started, and however the sync loop goes on.            *)
SignalEnds == phase = "shutdown" ~> phase \in Ended

(* What an operator has to get right for the program to run.               *)
Startable ==
    /\ Valid(config) /\ Environment(config) \subseteq config.env
    /\ "edgedns" \in Enabled(config) /\ config.cache.enable =>
          \/ Configurable(config.cache) # {}
          \/ config.cache.autoDetect /\ Detectable(config.cluster, Calls) # {}

Up == phase = "start" /\ started = Enabled(config)

(* Run, prepareRun: whatever fails, and wherever processes are killed,     *)
(* after finitely many failures all enabled modules run and go on running, *)
(* unless a kubeConfig file that was written in part stays on the node.    *)
ComesUp == Startable /\ <>[](kubeConfig # "partial") => <>[]Up

(* prepareRun "If it already exists, we don't create it again": that makes *)
(* no difference.  It does not hold, as it may exist in part.              *)
ComesUpAlways == Startable => <>[]Up

=============================================================================
