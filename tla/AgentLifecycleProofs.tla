------------------------ MODULE AgentLifecycleProofs ------------------------
(***************************************************************************)
(* TLAPS proofs about the life of the two programs on a node, for every    *)
(* set of configurations, however often calls fail or processes are        *)
(* killed, and however often the sync loop runs.                           *)
(***************************************************************************)
EXTENDS AgentLifecycle, TLAPS

-----------------------------------------------------------------------------
(* The orders of modules and chains.                                       *)

LEMMA Chains ==
    /\ Chain = {"containerPortal", "hostPortal", "containerNodePort", "hostNodePort", "nonLocal"}
    /\ Len(InitOrder) = 5 /\ Portals = 11
    /\ \A i \in 1 .. 5 : InitOrder[i] \in Chain
    /\ \A k \in 0 .. 5 : FirstChains(k) \subseteq Chain
<1>1. Len(InitOrder) = 5 /\ Portals = 11
  BY DEF InitOrder, Portals
<1>2. DOMAIN InitOrder = 1 .. 5
  BY DEF InitOrder
<1>3. Chain = {"containerPortal", "hostPortal", "containerNodePort", "hostNodePort", "nonLocal"}
  <2>1. 1 .. 5 = {1, 2, 3, 4, 5}
    OBVIOUS
  <2> QED
    BY <1>2, <2>1 DEF Chain, Range, InitOrder
<1>4. \A i \in 1 .. 5 : InitOrder[i] \in Chain
  BY <1>2 DEF Chain, Range
<1> QED
  BY <1>1, <1>3, <1>4 DEF FirstChains

LEMMA Orders ==
    ASSUME NEW c
    PROVE  /\ Len(Order(c)) \in {2, 4}
           /\ \A i \in 1 .. Len(Order(c)) :
                 Order(c)[i] \in {"edgedns", "edgeproxy"} => c.program = "agent"
           /\ Enabled(c) \subseteq {Order(c)[i] : i \in 1 .. Len(Order(c))}
           /\ "edgeproxy" \in Module /\ "edgecni" \in Module
<1>1. Len(Order(c)) \in {2, 4} /\ DOMAIN Order(c) = 1 .. Len(Order(c))
  <2>1. Len(AgentOrder) = 4 /\ DOMAIN AgentOrder = 1 .. 4
    BY DEF AgentOrder
  <2>2. Len(GatewayOrder) = 2 /\ DOMAIN GatewayOrder = 1 .. 2
    BY DEF GatewayOrder
  <2> QED
    BY <2>1, <2>2 DEF Order
<1>2. Enabled(c) \subseteq {Order(c)[i] : i \in 1 .. Len(Order(c))}
  BY <1>1 DEF Enabled, Range
<1>3. ASSUME NEW i \in 1 .. Len(Order(c)), Order(c)[i] \in {"edgedns", "edgeproxy"}
      PROVE  c.program = "agent"
  BY <1>3 DEF Order, AgentOrder, GatewayOrder
<1>4. AgentOrder[2] \in Module /\ AgentOrder[4] \in Module
  BY DEF Module, Range, AgentOrder
<1> QED
  BY <1>1, <1>2, <1>3, <1>4 DEF AgentOrder

-----------------------------------------------------------------------------
(* Type correctness.                                                       *)

(* A step that goes on changes the phase and no more of the program.       *)
LEMMA GoesTyped ==
    ASSUME LifeTypeOK, NEW to, Goes(to), config' = config,
           to \in {"validate", "kubeconfig", "device", "address", "up", "env", "clients", "register"},
           UNCHANGED <<hooks, chains>>, overlap' \in BOOLEAN, accept' = accept,
           kubeConfig' \in {"none", "partial", "whole"},
           device' \in SUBSET {"link", "addr", "up"}, faults' \in 0 .. MaxFaults
    PROVE  LifeTypeOK'
BY DEF LifeTypeOK, Goes, cleanup

(* What a process leaves when it ends.                                     *)
LEMMA DiesTyped ==
    ASSUME LifeTypeOK, NEW how \in Ended, Dies(how), config' = config,
           UNCHANGED <<hooks, chains, overlap, accept, device>>,
           kubeConfig' \in {"none", "partial", "whole"}, faults' \in 0 .. MaxFaults
    PROVE  LifeTypeOK'
<1>1. Len(Order(config)) \in {2, 4} /\ Portals = 11
  BY Orders, Chains
<1>2. /\ phase' = how /\ next' = 1 /\ errs' = FALSE /\ modules' = {} /\ cached' = {}
      /\ started' = {} /\ shutdown' = [m \in Module |-> "none"] /\ sync' = 0 /\ syncs' = 0
      /\ routes' = {} /\ own' = {} /\ old' = old \cup own
  BY DEF Dies
<1>3. shutdown' \in [Module -> {"none", "begin", "hooks", "chains", "done"}]
  BY <1>2
<1>4. next' \in 1 .. (Len(Order(config)) + 1)
  BY <1>1, <1>2
<1>5. sync' \in 0 .. Portals /\ syncs' \in 0 .. MaxSyncs
  BY <1>1, <1>2, LifeAssumption
<1>6. {errs', overlap', accept'} \subseteq BOOLEAN
  BY <1>2, Zenon DEF LifeTypeOK
<1> QED
  BY <1>2, <1>3, <1>4, <1>5, <1>6 DEF LifeTypeOK

(* A Register, whether it fails or not.                                    *)
LEMMA RegisteredTyped ==
    ASSUME LifeTypeOK, NEW m, NEW ok \in BOOLEAN, Registering(m), m \in Enabled(config),
           Registered(m, ok), UNCHANGED <<kubeConfig, device>>,
           hooks' \subseteq chains', (own \cup old)' \subseteq chains', chains' \subseteq Chain,
           routes' \subseteq config.cidrs, accept' \in BOOLEAN, faults' \in 0 .. MaxFaults
    PROVE  LifeTypeOK'
<1>1. /\ modules' = (IF ok THEN modules \cup {m} ELSE modules)
      /\ errs' = (errs \/ ~ok) /\ next' = next + 1
      /\ UNCHANGED <<config, phase, cached, started, shutdown, todo, sync, syncs, overlap>>
  BY DEF Registered, cleanup, loop
<1>2. {errs', overlap', accept'} \subseteq BOOLEAN
  BY <1>1 DEF LifeTypeOK
<1>3. next' \in 1 .. (Len(Order(config)) + 1)
  BY <1>1, Orders DEF LifeTypeOK, Registering
<1> QED
  BY <1>1, <1>2, <1>3, Zenon DEF LifeTypeOK

LEMMA LifeTypeInit == LifeInit => LifeTypeOK
<1> SUFFICES ASSUME LifeInit PROVE LifeTypeOK
  OBVIOUS
<1>1. Len(Order(config)) \in {2, 4} /\ Portals = 11
  BY Orders, Chains
<1>2. shutdown \in [Module -> {"none", "begin", "hooks", "chains", "done"}]
  BY DEF LifeInit
<1>3. next \in 1 .. (Len(Order(config)) + 1)
  BY <1>1 DEF LifeInit
<1>4. sync \in 0 .. Portals /\ syncs \in 0 .. MaxSyncs /\ faults \in 0 .. MaxFaults
  BY <1>1, LifeAssumption DEF LifeInit
<1>5. {errs, overlap, accept} \subseteq BOOLEAN
  BY Zenon DEF LifeInit
<1>6. config \in Configs /\ config.kubeAPI \in KubeAPI /\ config.cidrs \subseteq CIDR
  BY LifeAssumption DEF LifeInit
<1> QED
  BY <1>2, <1>3, <1>4, <1>5, <1>6 DEF LifeInit, LifeTypeOK

(* The actions, by the part of the program they belong to.                 *)
Prepare ==
    \/ Validate \/ SaveKubeConfigFile
    \/ EnsureBridgeDevice \/ AddBridgeDevice \/ AddrAdd \/ SetupBridgeDevice
    \/ LookupEnv \/ NewClients
    \/ Restart \/ Fails \/ SavePartly

Register ==
    \/ RegisterDNS \/ RegisterProxy \/ RegisterProxyFails \/ RegisterCNI
    \/ \E m \in Module : RegisterDisabled(m) \/ RegisterOther(m) \/ RegisterFails(m)
    \/ Initialize \/ RegisterErrors

Running == StartDNS \/ (\E m \in Module : Start(m)) \/ Signal

Sync == EnsureChain \/ EnsureRule \/ ensurePortals

LEMMA Actions ==
    LifeNext <=> Prepare \/ Register \/ Running \/ Sync \/ Shutdown
BY DEF LifeNext, Startup, Prepare, Register, Running, Sync

LEMMA FaultTyped ==
    ASSUME LifeTypeOK, Fault
    PROVE  faults' \in 0 .. MaxFaults /\ faults' # 0
BY LifeAssumption DEF LifeTypeOK, Fault

LEMMA PrepareTyped ==
    ASSUME LifeTypeOK, Prepare
    PROVE  LifeTypeOK'
<1>t. /\ kubeConfig \in {"none", "partial", "whole"} /\ faults \in 0 .. MaxFaults
      /\ device \in SUBSET {"link", "addr", "up"} /\ overlap \in BOOLEAN
  BY DEF LifeTypeOK
<1>e. "failed" \in Ended
  BY DEF Ended
<1>1. CASE Validate
  BY <1>1, <1>t, <1>e, GoesTyped, DiesTyped DEF Validate
<1>2. CASE SaveKubeConfigFile
  BY <1>2, <1>t, GoesTyped DEF SaveKubeConfigFile
<1>3. CASE EnsureBridgeDevice
  <2>1. device' \in SUBSET {"link", "addr", "up"} /\ faults' \in 0 .. MaxFaults
    BY <1>3, <1>t, FaultTyped, Zenon DEF EnsureBridgeDevice
  <2> QED
    BY <1>3, <1>t, <2>1, GoesTyped DEF EnsureBridgeDevice
<1>4. CASE AddBridgeDevice
  BY <1>4, <1>t, GoesTyped DEF AddBridgeDevice
<1>5. CASE AddrAdd
  BY <1>5, <1>t, GoesTyped DEF AddrAdd
<1>6. CASE SetupBridgeDevice
  BY <1>6, <1>t, GoesTyped DEF SetupBridgeDevice
<1>7. CASE LookupEnv
  BY <1>7, <1>t, <1>e, GoesTyped, DiesTyped DEF LookupEnv
<1>8. CASE NewClients
  BY <1>8, <1>t, <1>e, GoesTyped, DiesTyped DEF NewClients
<1>9. CASE Restart
  BY <1>9, <1>t, GoesTyped, Zenon DEF Restart
<1>10. CASE Fails
  BY <1>10, <1>t, <1>e, FaultTyped, DiesTyped DEF Fails
<1>11. CASE SavePartly
  BY <1>11, <1>t, <1>e, FaultTyped, DiesTyped DEF SavePartly
<1> QED
  BY <1>1, <1>2, <1>3, <1>4, <1>5, <1>6, <1>7, <1>8, <1>9, <1>10, <1>11 DEF Prepare

LEMMA RegisterTyped ==
    ASSUME LifeTypeOK, Register
    PROVE  LifeTypeOK'
<1>t. /\ hooks \subseteq chains /\ own \cup old \subseteq chains /\ chains \subseteq Chain
      /\ routes \subseteq config.cidrs /\ accept \in BOOLEAN /\ faults \in 0 .. MaxFaults
  BY DEF LifeTypeOK
<1>1. CASE RegisterDNS
  <2>1. /\ faults' \in 0 .. MaxFaults
        /\ Registered("edgedns", TRUE) \/ Registered("edgedns", FALSE)
    BY <1>1, <1>t, FaultTyped, Zenon DEF RegisterDNS
  <2>2. /\ Registering("edgedns") /\ "edgedns" \in Enabled(config)
        /\ UNCHANGED <<kubeConfig, device, routes, accept, hooks, chains, own, old>>
    BY <1>1 DEF RegisterDNS, iptables
  <2> QED
    BY <1>t, <2>1, <2>2, RegisteredTyped, Zenon
<1>2. CASE RegisterProxy
  <2>1. /\ Registering("edgeproxy") /\ "edgeproxy" \in Enabled(config)
        /\ UNCHANGED <<kubeConfig, device, routes, accept, own, faults>>
        /\ Registered("edgeproxy", TRUE) \/ Registered("edgeproxy", FALSE)
    BY <1>2, Zenon DEF RegisterProxy, node
  <2>2. /\ hooks' \subseteq chains' /\ (own \cup old)' \subseteq chains'
        /\ chains' \subseteq Chain
    BY <1>2, <1>t, Zenon DEF RegisterProxy, node, iptablesFlush
  <2> QED
    BY <1>t, <2>1, <2>2, RegisteredTyped, Zenon
<1>3. CASE RegisterProxyFails
  <2>1. /\ Registering("edgeproxy") /\ "edgeproxy" \in Enabled(config)
        /\ UNCHANGED <<kubeConfig, device, routes, accept, own>>
        /\ Registered("edgeproxy", FALSE) /\ faults' \in 0 .. MaxFaults
    BY <1>3, FaultTyped, Zenon DEF RegisterProxyFails, node
  <2>2. PICK k \in 0 .. Len(InitOrder) :
           /\ hooks' = hooks \cup FirstChains(k) /\ chains' = chains \cup FirstChains(k)
           /\ old' \in IF k = Len(InitOrder) THEN {old, {}} ELSE {old}
    BY <1>3 DEF RegisterProxyFails
  <2>3. FirstChains(k) \subseteq Chain
    BY Chains
  <2>4. /\ hooks' \subseteq chains' /\ (own \cup old)' \subseteq chains'
        /\ chains' \subseteq Chain
    <3>1. old' \subseteq old /\ own' = own
      BY <2>1, <2>2
    <3> QED
      BY <1>t, <2>2, <2>3, <3>1
  <2> QED
    BY <1>t, <2>1, <2>4, RegisteredTyped, Zenon
<1>4. CASE RegisterCNI
  <2>1. PICK lost \in SUBSET config.cidrs :
           WatchRoute(lost) /\ (IF lost = {} THEN UNCHANGED faults ELSE Fault)
    BY <1>4 DEF RegisterCNI
  <2>2. faults' \in 0 .. MaxFaults
    BY <1>t, <2>1, FaultTyped
  <2>3. routes' \subseteq config.cidrs /\ accept' \in BOOLEAN
    BY <1>t, <2>1, Zenon DEF WatchRoute
  <2>4. /\ Registering("edgecni") /\ "edgecni" \in Enabled(config)
        /\ Registered("edgecni", TRUE)
        /\ UNCHANGED <<kubeConfig, device, hooks, chains, own, old>>
    BY <1>4, Zenon DEF RegisterCNI, iptables
  <2> QED
    BY <1>t, <2>2, <2>3, <2>4, RegisteredTyped, Zenon
<1>5. ASSUME NEW m \in Module, RegisterDisabled(m) PROVE LifeTypeOK'
  <2>1. /\ next' = next + 1 /\ next <= Len(Order(config)) 
        /\ UNCHANGED <<config, phase, errs, modules, cached, started, shutdown, sync, syncs,
                       overlap, kubeConfig, device, routes, accept, hooks, chains, own, old,
                       faults>>
    BY <1>5, Zenon DEF RegisterDisabled, Registering, cleanup, loop, node, iptables
  <2>2. next' \in 1 .. (Len(Order(config)) + 1)
    BY <2>1, Orders DEF LifeTypeOK
  <2> QED
    BY <2>1, <2>2 DEF LifeTypeOK
<1>6. ASSUME NEW m \in Module, RegisterOther(m) PROVE LifeTypeOK'
  <2>1. /\ Registering(m) /\ m \in Enabled(config) /\ Registered(m, TRUE)
        /\ UNCHANGED <<kubeConfig, device, routes, accept, hooks, chains, own, old, faults>>
    BY <1>6, Zenon DEF RegisterOther, node, iptables
  <2> QED
    BY <1>t, <2>1, RegisteredTyped, Zenon
<1>7. ASSUME NEW m \in Module, RegisterFails(m) PROVE LifeTypeOK'
  <2>1. /\ Registering(m) /\ m \in Enabled(config) /\ Registered(m, FALSE)
        /\ faults' \in 0 .. MaxFaults
        /\ UNCHANGED <<kubeConfig, device, routes, accept, hooks, chains, own, old>>
    BY <1>7, FaultTyped, Zenon DEF RegisterFails, node, iptables
  <2> QED
    BY <1>t, <2>1, RegisteredTyped, Zenon
<1>8. CASE Initialize
  <2>1. /\ cached' = modules /\ phase' = "start"
        /\ UNCHANGED <<config, next, errs, modules, started, shutdown, sync, syncs,
                       overlap, kubeConfig, device, routes, accept, hooks, chains, own, old,
                       faults>>
    BY <1>8 DEF Initialize, cleanup, loop, node, iptables
  <2> QED
    BY <2>1 DEF LifeTypeOK
<1>9. CASE RegisterErrors
  <2>1. "failed" \in Ended /\ kubeConfig \in {"none", "partial", "whole"}
    BY DEF Ended, LifeTypeOK
  <2> QED
    BY <1>9, <1>t, <2>1, DiesTyped DEF RegisterErrors
<1> QED
  BY <1>1, <1>2, <1>3, <1>4, <1>5, <1>6, <1>7, <1>8, <1>9, Zenon DEF Register

LEMMA RunningTyped ==
    ASSUME LifeTypeOK, Running
    PROVE  LifeTypeOK'
<1>1. CASE StartDNS
  <2>0. kubeConfig' \in {"none", "partial", "whole"} /\ faults \in 0 .. MaxFaults
    BY <1>1, Zenon DEF StartDNS, LifeTypeOK
  <2>1. CASE /\ started' = started \cup {"edgedns"}
             /\ UNCHANGED <<phase, next, errs, modules, cached, cleanup, sync, syncs,
                            routes, own, old>>
    <3>1. /\ "edgedns" \in modules
          /\ UNCHANGED <<config, overlap, device, accept, hooks, chains, faults, shutdown>>
      BY <1>1, <2>1, Zenon DEF StartDNS, cleanup
    <3> QED
      BY <2>0, <2>1, <3>1, Zenon DEF LifeTypeOK
  <2>2. CASE Dies("failed")
    BY <1>1, <2>0, <2>2, DiesTyped, Zenon DEF StartDNS, Ended
  <2> QED
    BY <1>1, <2>1, <2>2 DEF StartDNS
<1>2. ASSUME NEW m \in Module, Start(m) PROVE LifeTypeOK'
  <2>1. /\ m \in modules /\ started' = started \cup {m}
        /\ sync' = (IF m = "edgeproxy" THEN 1 ELSE sync)
        /\ UNCHANGED <<config, phase, next, errs, modules, cached, shutdown, syncs, overlap,
                       kubeConfig, device, routes, accept, hooks, chains, own, old, faults>>
    BY <1>2, Zenon DEF Start, cleanup, node, iptables
  <2>2. sync' \in 0 .. Portals
    <3>1. sync \in 0 .. Portals
      BY Zenon DEF LifeTypeOK
    <3>2. 1 \in 0 .. Portals
      BY Chains
    <3> QED
      BY <2>1, <3>1, <3>2, Zenon
  <2> QED
    BY <2>1, <2>2 DEF LifeTypeOK
<1>3. CASE Signal
  <2>1. /\ phase' = "shutdown"
        /\ shutdown' = [m \in Module |-> IF m \in cached THEN "begin" ELSE "none"]
        /\ UNCHANGED <<config, next, errs, modules, cached, started, sync, syncs, overlap,
                       kubeConfig, device, routes, accept, hooks, chains, own, old>>
    BY <1>3 DEF Signal, loop, node, iptables
  <2>2. faults' \in 0 .. MaxFaults
    BY <1>3, FaultTyped DEF Signal
  <2>3. shutdown' \in [Module -> {"none", "begin", "hooks", "chains", "done"}]
    BY <2>1
  <2> QED
    BY <2>1, <2>2, <2>3 DEF LifeTypeOK
<1> QED
  BY <1>1, <1>2, <1>3, Zenon DEF Running

LEMMA SyncTyped ==
    ASSUME LifeTypeOK, Sync
    PROVE  LifeTypeOK'
<1>0. sync \in 0 .. 11 /\ Portals = 11 /\ sync > 0 /\ syncs < MaxSyncs
  BY Chains, Zenon DEF LifeTypeOK, Sync, EnsureChain, EnsureRule, ensurePortals, Syncing
<1>1. /\ overlap' = (overlap \/ phase = "shutdown")
      /\ UNCHANGED <<config, phase, next, errs, modules, cached, started, shutdown,
                     kubeConfig, device, routes, accept, old, faults>>
  BY Zenon DEF Sync, EnsureChain, EnsureRule, ensurePortals, run, cleanup, node
<1>2. {errs', overlap', accept'} \subseteq BOOLEAN
  BY <1>1, Zenon DEF LifeTypeOK
<1>3. CASE EnsureChain
  <2>1. sync % 2 = 1 /\ sync < 11 /\ sync' = sync + 1 /\ UNCHANGED <<syncs, hooks, own>>
    BY <1>3, <1>0 DEF EnsureChain
  <2>2. sync' \in 0 .. Portals /\ (sync + 1) \div 2 \in 1 .. 5
    BY <1>0, <2>1
  <2>3. chains' = chains \cup {InitOrder[(sync + 1) \div 2]}
    BY <1>3 DEF EnsureChain
  <2>4. chains' \subseteq Chain /\ chains \subseteq chains'
    BY <2>2, <2>3, Chains, Zenon DEF LifeTypeOK
  <2> QED
    BY <1>1, <1>2, <2>1, <2>2, <2>4 DEF LifeTypeOK
<1>4. CASE EnsureRule
  <2>1. sync % 2 = 0 /\ UNCHANGED <<syncs, chains, own>>
    BY <1>4 DEF EnsureRule
  <2>2. sync' \in 0 .. Portals
    BY <1>4, <1>0, <2>1 DEF EnsureRule
  <2>3. hooks' \subseteq hooks \cup chains
    BY <1>4, Zenon DEF EnsureRule
  <2> QED
    BY <1>1, <1>2, <2>1, <2>2, <2>3, Zenon DEF LifeTypeOK
<1>5. CASE ensurePortals
  <2>1. own' = own \cup chains /\ sync' = 1 /\ syncs' = syncs + 1 /\ UNCHANGED <<hooks, chains>>
    BY <1>5, Zenon DEF ensurePortals
  <2>2. sync' \in 0 .. Portals /\ syncs' \in 0 .. MaxSyncs
    BY <1>0, <2>1, LifeAssumption DEF LifeTypeOK
  <2> QED
    BY <1>1, <1>2, <2>1, <2>2 DEF LifeTypeOK
<1> QED
  BY <1>3, <1>4, <1>5 DEF Sync

LEMMA ShutdownTyped ==
    ASSUME LifeTypeOK, Shutdown
    PROVE  LifeTypeOK'
<1>1. CASE CloseRoute \/ Exit
  <2>1. kubeConfig \in {"none", "partial", "whole"} /\ faults \in 0 .. MaxFaults
    BY Zenon DEF LifeTypeOK
  <2> QED
    BY <1>1, <2>1, DiesTyped DEF CloseRoute, Exit, Ended
<1>2. ASSUME ~(CloseRoute \/ Exit) PROVE LifeTypeOK'
  <2>1. UNCHANGED <<config, phase, next, errs, modules, cached, started, sync, syncs, overlap,
                    kubeConfig, device, routes, accept, faults>>
    BY <1>2, Zenon DEF Shutdown, CleanupAndExit, DeleteRule, DeleteChain, ShutdownOther, run, loop, node
  <2>2. shutdown' \in [Module -> {"none", "begin", "hooks", "chains", "done"}]
    BY <1>2, ZenonT(30) DEF Shutdown, CleanupAndExit, DeleteRule, DeleteChain, ShutdownOther, LifeTypeOK
  <2>3. /\ hooks' \subseteq chains' /\ (own \cup old)' \subseteq chains'
        /\ chains' \subseteq Chain
    BY <1>2, Zenon DEF Shutdown, CleanupAndExit, DeleteRule, DeleteChain, ShutdownOther, LifeTypeOK,
                iptables
  <2> QED
    BY <2>1, <2>2, <2>3, Zenon DEF LifeTypeOK
<1> QED
  BY <1>1, <1>2

LEMMA LifeTypeStep == LifeTypeOK /\ [LifeNext]_lifeVars => LifeTypeOK'
<1>1. ASSUME LifeTypeOK, UNCHANGED lifeVars PROVE LifeTypeOK'
  BY <1>1, Zenon DEF LifeTypeOK, lifeVars, run, cleanup, loop, node, iptables
<1> QED
  BY <1>1, Actions, PrepareTyped, RegisterTyped, RunningTyped, SyncTyped, ShutdownTyped, Zenon

(* The variables of the lifecycle keep their types; a jump rule leads to a *)
(* chain that exists, and rules are in chains that exist.                  *)
THEOREM LifeTypeCorrect == LifeSpec => []LifeTypeOK
BY LifeTypeInit, LifeTypeStep, PTL DEF LifeSpec

-----------------------------------------------------------------------------
(* Every process finds the node ready for its modules.                     *)

(* The device is never taken back, and has been made and set up before a   *)
(* module is registered.                                                   *)
NodeInv ==
    /\ "addr" \in device => "link" \in device
    /\ phase \in {"address", "up"} => "link" \in device
    /\ config.program = "agent" /\ phase \in {"env", "clients", "register", "start", "shutdown"}
         => {"link", "up"} \subseteq device
    /\ FindsNodeReady

(* A step without a Register: what it may do to the node.                  *)
LEMMA NodeKept ==
    ASSUME LifeTypeOK, LifeTypeOK', NodeInv, config' = config,
           device \subseteq device', "addr" \in device' => "link" \in device',
           modules' = {} \/ (modules' = modules /\ old' \subseteq old),
           phase' \in {"address", "up"} => "link" \in device',
           config.program = "agent" /\ phase' \in {"env", "clients", "register", "start", "shutdown"}
             => {"link", "up"} \subseteq device'
    PROVE  NodeInv'
BY Zenon DEF LifeTypeOK, NodeInv, FindsNodeReady, DeviceServes, NoOldRules

LEMMA NodeStep == LifeTypeOK /\ LifeTypeOK' /\ NodeInv /\ [LifeNext]_lifeVars => NodeInv'
<1> SUFFICES ASSUME LifeTypeOK, LifeTypeOK', NodeInv, [LifeNext]_lifeVars PROVE NodeInv'
  OBVIOUS
<1>1. CASE Prepare
  <2>1. config' = config
    BY <1>1, ZenonT(30) DEF Prepare, Validate, SaveKubeConfigFile, EnsureBridgeDevice, AddBridgeDevice,
                AddrAdd, SetupBridgeDevice, LookupEnv, NewClients, Restart, Fails, SavePartly
  <2>2. device \subseteq device' /\ ("addr" \in device' => "link" \in device')
    BY <1>1, Zenon DEF Prepare, Validate, SaveKubeConfigFile, EnsureBridgeDevice, AddBridgeDevice,
                AddrAdd, SetupBridgeDevice, LookupEnv, NewClients, Restart, Fails, SavePartly,
                NodeInv
  <2>3. modules' = {} \/ (modules' = modules /\ old' \subseteq old)
    BY <1>1, Zenon DEF Prepare, Validate, SaveKubeConfigFile, EnsureBridgeDevice, AddBridgeDevice,
                AddrAdd, SetupBridgeDevice, LookupEnv, NewClients, Restart, Fails, SavePartly,
                Goes, Dies
  <2>4. /\ phase' \in {"address", "up"} => "link" \in device'
        /\ config.program = "agent" /\ phase' \in {"env", "clients", "register", "start", "shutdown"}
             => {"link", "up"} \subseteq device'
    BY <1>1, ZenonT(30) DEF Prepare, Validate, SaveKubeConfigFile, EnsureBridgeDevice, AddBridgeDevice,
                AddrAdd, SetupBridgeDevice, LookupEnv, NewClients, Restart, Fails, SavePartly,
                Goes, Dies, NodeInv
  <2> QED
    BY <2>1, <2>2, <2>3, <2>4, NodeKept, Zenon
<1>2. CASE RegisterDNS
  <2>1. /\ UNCHANGED <<config, phase, device, old>>
        /\ modules' = modules \/ ("addr" \in device /\ modules' = modules \cup {"edgedns"})
    BY <1>2 DEF RegisterDNS, Registered, iptables
  <2>2. config.program = "agent" /\ phase = "register"
    <3>1. Registering("edgedns")
      BY <1>2, Zenon DEF RegisterDNS
    <3>2. next \in 1 .. (Len(Order(config)) + 1) /\ Len(Order(config)) \in {2, 4}
      BY Orders, Zenon DEF LifeTypeOK
    <3>3. next \in 1 .. Len(Order(config))
      BY <3>1, <3>2 DEF Registering
    <3> QED
      BY <3>1, <3>3, Orders, Zenon DEF Registering
  <2> QED
    BY <2>1, <2>2, Zenon DEF NodeInv, FindsNodeReady, DeviceServes, NoOldRules, LifeTypeOK
<1>3. CASE RegisterProxy
  <2>1. /\ UNCHANGED <<config, phase, device>>
        /\ \/ modules' = modules /\ old' = old
           \/ /\ "addr" \in device /\ modules' = modules \cup {"edgeproxy"}
              /\ old' = old \ (old \cap Chain)
    BY <1>3 DEF RegisterProxy, Registered, node, iptablesFlush
  <2>2. config.program = "agent" /\ phase = "register"
    <3>1. Registering("edgeproxy")
      BY <1>3, Zenon DEF RegisterProxy
    <3>2. next \in 1 .. (Len(Order(config)) + 1) /\ Len(Order(config)) \in {2, 4}
      BY Orders, Zenon DEF LifeTypeOK
    <3>3. next \in 1 .. Len(Order(config))
      BY <3>1, <3>2 DEF Registering
    <3> QED
      BY <3>1, <3>3, Orders, Zenon DEF Registering
  <2>3. old \subseteq Chain
    BY DEF LifeTypeOK
  <2> QED
    BY <2>1, <2>2, <2>3, ZenonT(30) DEF NodeInv, FindsNodeReady, DeviceServes, NoOldRules, LifeTypeOK
<1>4. CASE RegisterProxyFails
  <2>1. UNCHANGED <<config, phase, device, modules>>
    BY <1>4 DEF RegisterProxyFails, Registered, node
  <2>2. old' \subseteq old
    BY <1>4 DEF RegisterProxyFails
  <2> QED
    BY <2>1, <2>2, NodeKept DEF NodeInv
<1>5. CASE RegisterCNI \/ (\E m \in Module : RegisterDisabled(m) \/ RegisterOther(m) \/ RegisterFails(m))
  <2>1. UNCHANGED <<config, phase, device, old>>
    BY <1>5, Zenon DEF RegisterCNI, RegisterDisabled, RegisterOther, RegisterFails, Registered, node,
                iptables
  <2>2. \/ modules' = modules
        \/ \E m \in {"edgecni", "edgetunnel", "edgegateway"} : modules' = modules \cup {m}
    BY <1>5, Zenon DEF RegisterCNI, RegisterDisabled, RegisterOther, RegisterFails, Registered
  <2> QED
    BY <2>1, <2>2, Zenon DEF NodeInv, FindsNodeReady, DeviceServes, NoOldRules
<1>6. CASE Initialize \/ RegisterErrors \/ Running \/ Sync \/ Shutdown
  <2>1. UNCHANGED <<config, device>>
    BY <1>6, Zenon DEF Initialize, RegisterErrors, Running, StartDNS, Start, Signal, Sync, EnsureChain,
                EnsureRule, ensurePortals, Shutdown, CleanupAndExit, DeleteRule, DeleteChain,
                CloseRoute, ShutdownOther, Exit, run, node
  <2>2. modules' = {} \/ (modules' = modules /\ old' \subseteq old)
    BY <1>6, Zenon DEF Initialize, RegisterErrors, Running, StartDNS, Start, Signal, Sync, EnsureChain,
                EnsureRule, ensurePortals, Shutdown, CleanupAndExit, DeleteRule, DeleteChain,
                CloseRoute, ShutdownOther, Exit, run, iptables, Dies
  <2>3. phase' \in Ended \/ (phase \in {"register", "start", "shutdown"} /\ phase' \in {"start", "shutdown"})
    BY <1>6, Zenon DEF Initialize, RegisterErrors, Running, StartDNS, Start, Signal, Sync, EnsureChain,
                EnsureRule, ensurePortals, Syncing, Shutdown, CleanupAndExit, DeleteRule, DeleteChain,
                CloseRoute, ShutdownOther, Exit, run, Dies, Ended
  <2> QED
    BY <2>1, <2>2, <2>3, NodeKept DEF NodeInv, Ended
<1>7. CASE UNCHANGED lifeVars
  BY <1>7 DEF lifeVars, run, node, iptables, NodeInv, FindsNodeReady, DeviceServes, NoOldRules
<1> QED
  BY <1>1, <1>2, <1>3, <1>4, <1>5, <1>6, <1>7, Actions DEF Register

LEMMA NodeInit == LifeInit => NodeInv
BY DEF LifeInit, NodeInv, FindsNodeReady, DeviceServes, NoOldRules

(* CreateEdgeMeshDevice and createProxier: the modules that listen on the  *)
(* edgemesh device are created on one that is complete and up, and no rule *)
(* of an earlier process survives the start of a proxier, at whatever step *)
(* that process ended.                                                     *)
THEOREM NodeReady == LifeSpec => []FindsNodeReady
<1>1. NodeInv => FindsNodeReady
  BY DEF NodeInv
<1> QED
  BY <1>1, LifeTypeInit, LifeTypeStep, NodeInit, NodeStep, PTL DEF LifeSpec

-----------------------------------------------------------------------------
(* The routes of the CNI module.                                           *)

(* The number of addresses of a network.                                   *)
LEMMA NetSize ==
    ASSUME NEW net \in CIDR
    PROVE  /\ net.ip \in 0 .. 7 /\ net.len \in 0 .. 3
           /\ 2^(AddressBits - net.len) = IF net.len = 0 THEN 8
                                          ELSE IF net.len = 1 THEN 4
                                          ELSE IF net.len = 2 THEN 2 ELSE 1
           /\ 2^AddressBits - 1 = 7
<1>1. 2^3 = 8 /\ 2^2 = 4 /\ 2^1 = 2 /\ 2^0 = 1
  OBVIOUS
<1>2. AddressBits = 3 /\ 2^AddressBits - 1 = 7
  BY <1>1 DEF AddressBits
<1>3. net.ip \in 0 .. 7 /\ net.len \in 0 .. 3
  BY <1>2 DEF CIDR
<1>4. \/ net.len = 0 /\ 3 - net.len = 3
      \/ net.len = 1 /\ 3 - net.len = 2
      \/ net.len = 2 /\ 3 - net.len = 1
      \/ net.len = 3 /\ 3 - net.len = 0
  BY <1>3
<1>5. 2^(3 - net.len) = IF net.len = 0 THEN 8
                        ELSE IF net.len = 1 THEN 4
                        ELSE IF net.len = 2 THEN 2 ELSE 1
  <2>1. CASE net.len = 0
    BY <2>1, <1>1, <1>4
  <2>2. CASE net.len = 1
    BY <2>2, <1>1, <1>4
  <2>3. CASE net.len = 2
    BY <2>3, <1>1, <1>4
  <2>4. CASE net.len = 3
    BY <2>4, <1>1, <1>4
  <2> QED
    BY <1>4, <2>1, <2>2, <2>3, <2>4
<1> QED
  BY <1>2, <1>3, <1>5

(* CheckTunCIDR compares networks by their addresses.                      *)
LEMMA CheckedBySet ==
    ASSUME NEW net \in CIDR, NEW host \in CIDR
    PROVE  CheckTunCIDR(net, host) <=> Addresses(net) = Addresses(host)
<1> DEFINE s == 2^(AddressBits - net.len)
           t == 2^(AddressBits - host.len)
           a == net.ip
           b == host.ip
<1>1. /\ a \in 0 .. 7 /\ b \in 0 .. 7 /\ net.len \in 0 .. 3 /\ host.len \in 0 .. 3
      /\ s = IF net.len = 0 THEN 8 ELSE IF net.len = 1 THEN 4 ELSE IF net.len = 2 THEN 2 ELSE 1
      /\ t = IF host.len = 0 THEN 8 ELSE IF host.len = 1 THEN 4 ELSE IF host.len = 2 THEN 2 ELSE 1
      /\ 2^AddressBits - 1 = 7
  BY NetSize
<1>2. /\ \A ip : InNet(net, ip) <=> ip \div s = a \div s
      /\ \A ip : InNet(host, ip) <=> ip \div t = b \div t
  BY Zenon DEF InNet
<1>3. /\ Addresses(net) = {ip \in 0 .. 7 : ip \div s = a \div s}
      /\ Addresses(host) = {ip \in 0 .. 7 : ip \div t = b \div t}
  BY <1>1, <1>2, Zenon DEF Addresses
<1>4. CheckTunCIDR(net, host) <=> a \div t = b \div t /\ host.len = net.len
  BY <1>2 DEF CheckTunCIDR
<1> HIDE DEF s, t, a, b
<1>5. s \in {8, 4, 2, 1} /\ t \in {8, 4, 2, 1} /\ (s = t <=> host.len = net.len)
  BY <1>1
<1>6. ASSUME s = t, a \div t = b \div t PROVE Addresses(net) = Addresses(host)
  BY <1>3, <1>6
<1>7. ASSUME Addresses(net) = Addresses(host) PROVE a \div t = b \div t /\ s = t
  <2>1. \A ip \in 0 .. 7 : ip \div s = a \div s <=> ip \div t = b \div t
    BY <1>3, <1>7, Zenon
  <2>2. a \div t = b \div t
    BY <1>1, <2>1
  <2>3. ASSUME NEW u \in {8, 4, 2, 1}, NEW v \in {8, 4, 2, 1}, v < u, NEW c \in 0 .. 7
        PROVE  \E ip \in 0 .. 7 : ip \div u = c \div u /\ ip \div v # c \div v
    <3> DEFINE lo == (c \div u) * u
               hi == (c \div u) * u + u - 1
    <3>1. lo \in 0 .. 7 /\ hi \in 0 .. 7 /\ lo \div u = c \div u /\ hi \div u = c \div u
      BY <2>3
    <3>2. lo \div v # hi \div v
      BY <2>3
    <3> HIDE DEF lo, hi
    <3> QED
      BY <3>1, <3>2
  <2>4. CASE s < t
    <3>1. PICK ip \in 0 .. 7 : ip \div t = a \div t /\ ip \div s # a \div s
      BY <1>1, <1>5, <2>3, <2>4
    <3> QED
      BY <2>1, <2>2, <3>1, Zenon
  <2>5. CASE t < s
    <3>1. PICK ip \in 0 .. 7 : ip \div s = a \div s /\ ip \div t # a \div t
      BY <1>1, <1>5, <2>3, <2>5
    <3> QED
      BY <2>1, <2>2, <3>1, Zenon
  <2>6. s < t \/ t < s \/ s = t
    BY <1>5
  <2> QED
    BY <2>2, <2>4, <2>5, <2>6
<1> QED
  BY <1>4, <1>5, <1>6, <1>7

(* A step that leaves the routes and the CNI module alone, or ends both.   *)
LEMMA RoutesKept ==
    ASSUME RoutesForeign, config' = config, faults' = 0 => faults = 0,
           \/ "edgecni" \notin modules'
           \/ "edgecni" \in modules /\ routes' = routes
    PROVE  RoutesForeign'
BY DEF RoutesForeign

LEMMA RoutesStep ==
    LifeTypeOK /\ LifeTypeOK' /\ RoutesForeign /\ [LifeNext]_lifeVars => RoutesForeign'
<1> SUFFICES ASSUME LifeTypeOK, LifeTypeOK', RoutesForeign, [LifeNext]_lifeVars
             PROVE  RoutesForeign'
  OBVIOUS
<1>1. CASE RegisterCNI
  <2>1. PICK lost \in SUBSET config.cidrs :
           WatchRoute(lost) /\ (IF lost = {} THEN UNCHANGED faults ELSE Fault)
    BY <1>1, Zenon DEF RegisterCNI
  <2>2. config' = config
    BY <1>1, Zenon DEF RegisterCNI, Registered
  <2> DEFINE Foreign == {net \in config.cidrs : Addresses(net) # Addresses(config.hostCIDR)}
  <2>3. ASSUME config.hostCIDR # NoCIDR
        PROVE  routes' \subseteq Foreign /\ (faults' = 0 => routes' = Foreign)
    <3>1. config.hostCIDR \in CIDR /\ config.cidrs \subseteq CIDR
      BY <2>3, LifeAssumption, Zenon DEF LifeTypeOK
    <3>2. routes' = {net \in config.cidrs \ lost : ~CheckTunCIDR(net, config.hostCIDR)}
      BY <2>1, <2>3, Zenon DEF WatchRoute
    <3>3. \A net \in config.cidrs :
             CheckTunCIDR(net, config.hostCIDR) <=> Addresses(net) = Addresses(config.hostCIDR)
      BY <3>1, CheckedBySet
    <3>4. faults' = 0 => lost = {}
      BY <2>1, FaultTyped
    <3> QED
      BY <3>2, <3>3, <3>4, Zenon
  <2> QED
    BY <2>2, <2>3, Zenon DEF RoutesForeign
<1>2. ASSUME ~RegisterCNI, LifeNext PROVE RoutesForeign'
  <2>1. CASE Prepare
    <3>1. config' = config
      BY <2>1, Zenon DEF Prepare, Validate, SaveKubeConfigFile, EnsureBridgeDevice, AddBridgeDevice,
                AddrAdd, SetupBridgeDevice, LookupEnv, NewClients, Restart, Fails, SavePartly
    <3>2. modules' = {} \/ (modules' = modules /\ routes' = routes)
      BY <2>1, Zenon DEF Prepare, Validate, SaveKubeConfigFile, EnsureBridgeDevice, AddBridgeDevice,
                AddrAdd, SetupBridgeDevice, LookupEnv, NewClients, Restart, Fails, SavePartly,
                Goes, Dies
    <3>3. faults' = faults \/ Fault
      BY <2>1, Zenon DEF Prepare, Validate, SaveKubeConfigFile, EnsureBridgeDevice, AddBridgeDevice,
                AddrAdd, SetupBridgeDevice, LookupEnv, NewClients, Restart, Fails, SavePartly
    <3> QED
      BY <3>1, <3>2, <3>3, RoutesKept, FaultTyped, Zenon
  <2>2. CASE Register
    <3>1. config' = config
      BY <2>2, Zenon DEF Register, RegisterDNS, RegisterProxy, RegisterProxyFails, RegisterCNI,
                  RegisterDisabled, RegisterOther, RegisterFails, Initialize, RegisterErrors,
                  Registered
    <3>2. \/ modules' = {}
          \/ routes' = routes /\ ("edgecni" \in modules' => "edgecni" \in modules)
      <4>1. CASE RegisterDNS
        BY <4>1, SMTT(20) DEF RegisterDNS, Registered
      <4>2. CASE RegisterProxy \/ RegisterProxyFails
        BY <4>2 DEF RegisterProxy, RegisterProxyFails, Registered, node
      <4>3. CASE Initialize \/ RegisterErrors
        BY <4>3, Zenon DEF Initialize, RegisterErrors, Dies, node
      <4>4. ASSUME NEW m \in Module, RegisterDisabled(m) \/ RegisterOther(m) \/ RegisterFails(m)
            PROVE  routes' = routes /\ ("edgecni" \in modules' => "edgecni" \in modules)
        BY <4>4 DEF RegisterDisabled, RegisterOther, RegisterFails, Registered, node
      <4> QED
        BY <1>2, <2>2, <4>1, <4>2, <4>3, <4>4 DEF Register
    <3>3. faults' = faults \/ Fault
      <4>1. CASE RegisterDNS
        BY <4>1 DEF RegisterDNS
      <4>2. CASE RegisterProxy \/ RegisterProxyFails \/ Initialize \/ RegisterErrors
        BY <4>2, Zenon DEF RegisterProxy, RegisterProxyFails, Initialize, RegisterErrors
      <4>3. ASSUME NEW m \in Module, RegisterDisabled(m) \/ RegisterOther(m) \/ RegisterFails(m)
            PROVE  faults' = faults \/ Fault
        BY <4>3, Zenon DEF RegisterDisabled, RegisterOther, RegisterFails
      <4> QED
        BY <1>2, <2>2, <4>1, <4>2, <4>3 DEF Register
    <3> QED
      BY <3>1, <3>2, <3>3, RoutesKept, FaultTyped, Zenon
  <2>3. CASE Running \/ Sync \/ Shutdown
    <3>1. config' = config
      BY <2>3, Zenon DEF Running, StartDNS, Start, Signal, Sync, EnsureChain, EnsureRule, ensurePortals,
                  Shutdown, CleanupAndExit, DeleteRule, DeleteChain, CloseRoute, ShutdownOther,
                  Exit
    <3>2. modules' = {} \/ (modules' = modules /\ routes' = routes)
      BY <2>3, Zenon DEF Running, StartDNS, Start, Signal, Sync, EnsureChain, EnsureRule, ensurePortals,
                  Shutdown, CleanupAndExit, DeleteRule, DeleteChain, CloseRoute, ShutdownOther,
                  Exit, Dies, run, node
    <3>3. faults' = faults \/ Fault
      BY <2>3, Zenon DEF Running, StartDNS, Start, Signal, Sync, EnsureChain, EnsureRule, ensurePortals,
                  Shutdown, CleanupAndExit, DeleteRule, DeleteChain, CloseRoute, ShutdownOther,
                  Exit
    <3> QED
      BY <3>1, <3>2, <3>3, RoutesKept, FaultTyped
  <2> QED
    BY <1>2, <2>1, <2>2, <2>3, Actions
<1>3. CASE UNCHANGED lifeVars
  BY <1>3, Zenon DEF lifeVars, run, node, RoutesForeign
<1> QED
  BY <1>1, <1>2, <1>3, Zenon

(* WatchRoute: never a route to a network of the node's own addresses, and *)
(* one to every other network if no command has failed.                    *)
THEOREM OnlyForeignRouted == LifeSpec => []RoutesForeign
<1>1. LifeInit => RoutesForeign
  BY Zenon DEF LifeInit, RoutesForeign
<1> QED
  BY <1>1, LifeTypeInit, LifeTypeStep, RoutesStep, PTL DEF LifeSpec

-----------------------------------------------------------------------------
(* Registration: all modules that are enabled, or none.                    *)

(* While nothing has failed, every module the loop of registerModules has  *)
(* passed is registered if it is enabled.                                  *)
RegInv ==
    /\ phase \notin {"start", "shutdown"} => started = {}
    /\ phase \notin {"register", "start", "shutdown"} => next = 1
    /\ phase = "register" /\ ~errs =>
          \A i \in 1 .. next - 1 :
             Order(config)[i] \in Enabled(config) => Order(config)[i] \in modules
    /\ phase \in {"start", "shutdown"} => cached = Enabled(config)

LEMMA RegDies ==
    ASSUME NEW how \in Ended, Dies(how)
    PROVE  RegInv'
BY DEF Dies, Ended, RegInv

LEMMA RegGoes ==
    ASSUME RegInv, NEW to, Goes(to), config' = config,
           phase \notin {"register", "start", "shutdown"}, to \notin {"start", "shutdown"}
    PROVE  RegInv'
<1>1. phase' = to /\ next' = 1 /\ started' = {}
  BY DEF Goes, RegInv
<1>2. 1 .. next' - 1 = {}
  BY <1>1
<1> QED
  BY <1>1, <1>2 DEF RegInv

(* One more module of the order.                                           *)
LEMMA RegNext ==
    ASSUME LifeTypeOK, RegInv, NEW m, Registering(m), next' = next + 1,
           UNCHANGED <<config, phase, started>>, modules \subseteq modules',
           ~errs' => ~errs /\ (m \in Enabled(config) => m \in modules')
    PROVE  RegInv'
<1>1. phase = "register" /\ started' = {} /\ phase' = "register"
  BY DEF RegInv, Registering
<1>2. ASSUME ~errs', NEW i \in 1 .. next' - 1, Order(config)[i] \in Enabled(config)
      PROVE  Order(config)[i] \in modules'
  <2>1. CASE i = next
    BY <1>2, <2>1 DEF Registering
  <2>2. CASE i # next
    <3>1. i \in 1 .. next - 1
      BY <2>2 DEF LifeTypeOK
    <3> QED
      BY <1>1, <1>2, <3>1, Zenon DEF RegInv
  <2> QED
    BY <2>1, <2>2
<1> QED
  BY <1>1, <1>2 DEF RegInv

LEMMA RegStep == LifeTypeOK /\ RegInv /\ [LifeNext]_lifeVars => RegInv'
<1> SUFFICES ASSUME LifeTypeOK, RegInv, [LifeNext]_lifeVars PROVE RegInv'
  OBVIOUS
<1>1. CASE Prepare
  <2>1. \/ \E how \in Ended : Dies(how)
        \/ /\ phase \notin {"register", "start", "shutdown"}
           /\ \E to : Goes(to) /\ to \notin {"start", "shutdown"}
    <3>1. CASE Restart \/ SaveKubeConfigFile \/ EnsureBridgeDevice
      BY <3>1 DEF SaveKubeConfigFile, EnsureBridgeDevice, Restart, Ended
    <3>2. CASE AddBridgeDevice \/ AddrAdd \/ SetupBridgeDevice
      BY <3>2 DEF AddBridgeDevice, AddrAdd, SetupBridgeDevice
    <3>3. CASE Validate \/ LookupEnv \/ NewClients
      BY <3>3 DEF Validate, LookupEnv, NewClients, Ended
    <3>4. CASE Fails \/ SavePartly
      BY <3>4 DEF Fails, SavePartly, Ended
    <3> QED
      BY <1>1, <3>1, <3>2, <3>3, <3>4, Zenon DEF Prepare
  <2>2. config' = config
    BY <1>1, Zenon DEF Prepare, Validate, SaveKubeConfigFile, EnsureBridgeDevice, AddBridgeDevice,
                AddrAdd, SetupBridgeDevice, LookupEnv, NewClients, Restart, Fails, SavePartly
  <2> QED
    BY <2>1, <2>2, RegDies, RegGoes, ZenonT(30)
<1>2. CASE RegisterDNS \/ RegisterProxy \/ RegisterProxyFails \/ RegisterCNI
  <2>1. \E m, ok : Registering(m) /\ Registered(m, ok)
    BY <1>2, Zenon DEF RegisterDNS, RegisterProxy, RegisterProxyFails, RegisterCNI
  <2>2. PICK m, ok : Registering(m) /\ Registered(m, ok)
    BY <2>1
  <2>3. /\ next' = next + 1 /\ UNCHANGED <<config, phase, started>> /\ modules \subseteq modules'
        /\ ~errs' => ~errs /\ (m \in Enabled(config) => m \in modules')
    BY <2>2, Zenon DEF Registered
  <2> QED
    BY <2>2, <2>3, RegNext
<1>3. ASSUME NEW m \in Module, RegisterDisabled(m) \/ RegisterOther(m) \/ RegisterFails(m)
      PROVE  RegInv'
  <2>1. Registering(m)
    BY <1>3, Zenon DEF RegisterDisabled, RegisterOther, RegisterFails
  <2>2. /\ next' = next + 1 /\ UNCHANGED <<config, phase, started>> /\ modules \subseteq modules'
        /\ ~errs' => ~errs /\ (m \in Enabled(config) => m \in modules')
    <3>1. CASE RegisterDisabled(m)
      BY <3>1, Zenon DEF RegisterDisabled
    <3>2. CASE RegisterOther(m) \/ RegisterFails(m)
      <4>1. \E ok : Registered(m, ok)
        BY <3>2, Zenon DEF RegisterOther, RegisterFails
      <4> QED
        BY <4>1, Zenon DEF Registered
    <3> QED
      BY <1>3, <3>1, <3>2
  <2> QED
    BY <2>1, <2>2, RegNext
<1>4. CASE Initialize
  <2>1. /\ phase = "register" /\ next > Len(Order(config)) /\ ~errs
        /\ cached' = modules /\ phase' = "start" /\ config' = config
    BY <1>4, Zenon DEF Initialize
  <2>2. Enabled(config) \subseteq modules
    <3>1. \A i \in 1 .. Len(Order(config)) : i \in 1 .. next - 1
      <4>1. next \in 1 .. (Len(Order(config)) + 1) /\ Len(Order(config)) \in {2, 4}
        BY Orders, Zenon DEF LifeTypeOK
      <4> QED
        BY <2>1, <4>1
    <3>2. Enabled(config) \subseteq {Order(config)[i] : i \in 1 .. Len(Order(config))}
      BY Orders, Zenon
    <3> QED
      BY <2>1, <3>1, <3>2, ZenonT(30) DEF RegInv
  <2>3. modules \subseteq Enabled(config)
    BY Zenon DEF LifeTypeOK
  <2> QED
    BY <2>1, <2>2, <2>3, Zenon DEF RegInv
<1>5. CASE RegisterErrors \/ CloseRoute \/ Exit
  BY <1>5, RegDies, Zenon DEF RegisterErrors, CloseRoute, Exit, Ended
<1>6. CASE StartDNS \/ (\E m \in Module : Start(m)) \/ Signal
  <2>1. \/ Dies("failed")
        \/ phase = "start" /\ phase' \in {"start", "shutdown"} /\ UNCHANGED <<config, cached>>
    BY <1>6, Zenon DEF StartDNS, Start, Signal
  <2> QED
    BY <2>1, RegDies, Zenon DEF RegInv, Ended
<1>7. CASE UNCHANGED <<config, run>>
  BY <1>7, Zenon DEF RegInv, run
<1>8. CASE Sync
  BY <1>7, <1>8, Zenon DEF Sync, EnsureChain, EnsureRule, ensurePortals
<1>9. CASE CleanupAndExit \/ DeleteRule \/ DeleteChain \/ (\E m \in Module : ShutdownOther(m))
  BY <1>7, <1>9 DEF CleanupAndExit, DeleteRule, DeleteChain, ShutdownOther
<1>10. CASE UNCHANGED lifeVars
  BY <1>7, <1>10 DEF lifeVars
<1> QED
  BY <1>1, <1>2, <1>3, <1>4, <1>5, <1>6, <1>8, <1>9, <1>10, Actions, Zenon
  DEF Register, Running, Shutdown

LEMMA RegInit == LifeInit => RegInv
<1>1. 1 .. 1 - 1 = {}
  OBVIOUS
<1> QED
  BY <1>1 DEF LifeInit, RegInv

(* registerModules and Run: a module runs only in a process in which every *)
(* enabled module was created, and all that run will be shut down.         *)
THEOREM RegisteredOrNothing == LifeSpec => []AllOrNothing
<1>1. LifeTypeOK /\ RegInv => AllOrNothing
  BY Zenon DEF LifeTypeOK, RegInv, AllOrNothing
<1> QED
  BY <1>1, LifeTypeInit, LifeTypeStep, RegInit, RegStep, PTL DEF LifeSpec

-----------------------------------------------------------------------------
(* The shutdown of the proxier.                                            *)

LEMMA HeadOfRange ==
    ASSUME NEW S, NEW s \in Seq(S), s # <<>>
    PROVE  /\ Tail(s) \in Seq(S)
           /\ \A T : T \subseteq Range(s) => T \ {Head(s)} \subseteq Range(Tail(s))
           /\ Len(s) > 1 => Tail(s) # <<>>
           /\ ~(Len(s) > 1) => Range(s) = {Head(s)}
<1>1. Len(s) \in Nat \ {0} /\ Head(s) = s[1]
  OBVIOUS
<1>2. /\ Tail(s) \in Seq(S) /\ Len(Tail(s)) = Len(s) - 1
      /\ \A i \in 1 .. Len(Tail(s)) : Tail(s)[i] = s[i + 1]
  OBVIOUS
<1>3. /\ Range(s) = {s[i] : i \in 1 .. Len(s)}
      /\ Range(Tail(s)) = {Tail(s)[i] : i \in 1 .. Len(Tail(s))}
  <2>1. DOMAIN s = 1 .. Len(s) /\ DOMAIN Tail(s) = 1 .. Len(Tail(s))
    BY <1>2
  <2> QED
    BY <2>1, Zenon DEF Range
<1>4. ASSUME NEW x \in Range(s), x # Head(s) PROVE x \in Range(Tail(s))
  <2>1. PICK i \in 1 .. Len(s) : x = s[i]
    BY <1>3
  <2>2. i - 1 \in 1 .. Len(Tail(s)) /\ (i - 1) + 1 = i
    BY <1>1, <1>2, <1>4, <2>1
  <2>3. Tail(s)[i - 1] = s[i]
    BY <1>2, <2>2
  <2> QED
    BY <1>3, <2>1, <2>2, <2>3, Zenon
<1>5. Len(s) > 1 => Tail(s) # <<>>
  <2>1. Len(<<>>) = 0
    OBVIOUS
  <2>2. Len(s) > 1 => Len(Tail(s)) # 0
    BY <1>1, <1>2, SMTT(20)
  <2> QED
    BY <2>1, <2>2, Zenon
<1>6. ASSUME ~(Len(s) > 1) PROVE Range(s) = {Head(s)}
  <2>1. 1 .. Len(s) = {1}
    BY <1>1, <1>6
  <2> QED
    BY <1>1, <1>3, <2>1
<1> QED
  BY <1>2, <1>4, <1>5, <1>6

(* The orders CleanupLeftovers goes through name every chain.              *)
LEMMA CleanupOrders ==
    \A s \in {HookOrder, NatOrder \o FilterOrder, FilterOrder \o NatOrder} :
       s \in Seq(Chain) /\ s # <<>> /\ Range(s) = Chain
<1>1. HookOrder \in Seq(Chain) /\ NatOrder \in Seq(Chain) /\ FilterOrder \in Seq(Chain)
  BY Chains DEF HookOrder, NatOrder, FilterOrder
<1>2. Range(HookOrder) = Chain
  <2>1. DOMAIN HookOrder = {1, 2, 3, 4, 5}
    BY DEF HookOrder
  <2> QED
    BY <2>1, Chains DEF Range, HookOrder
<1>3. Range(NatOrder) \cup Range(FilterOrder) = Chain
  <2>1. DOMAIN NatOrder = {1, 2, 3, 4} /\ DOMAIN FilterOrder = {1}
    BY DEF NatOrder, FilterOrder
  <2>2. Range(NatOrder) = {"containerPortal", "hostPortal", "hostNodePort", "containerNodePort"}
    BY <2>1 DEF Range, NatOrder
  <2>3. Range(FilterOrder) = {"nonLocal"}
    BY <2>1 DEF Range, FilterOrder
  <2> QED
    BY <2>2, <2>3, Chains
<1>4. /\ NatOrder \o FilterOrder \in Seq(Chain) /\ FilterOrder \o NatOrder \in Seq(Chain)
      /\ Range(NatOrder \o FilterOrder) = Chain /\ Range(FilterOrder \o NatOrder) = Chain
  <2>1. NatOrder \o FilterOrder \in Seq(Chain) /\ FilterOrder \o NatOrder \in Seq(Chain)
    BY <1>1
  <2>2. ASSUME NEW s \in Seq(Chain), NEW t \in Seq(Chain)
        PROVE  Range(s \o t) = Range(s) \cup Range(t)
    <3> DEFINE u == s \o t
    <3>1. /\ DOMAIN s = 1..Len(s) /\ DOMAIN t = 1..Len(t) /\ DOMAIN u = 1..(Len(s) + Len(t))
          /\ Len(s) \in Nat /\ Len(t) \in Nat
          /\ \A i \in 1..Len(s) : u[i] = s[i]
          /\ \A i \in 1..Len(t) : u[Len(s) + i] = t[i]
      OBVIOUS
    <3> HIDE DEF u
    <3>2. ASSUME NEW i \in 1..(Len(s) + Len(t)) PROVE u[i] \in Range(s) \cup Range(t)
      <4>1. CASE i <= Len(s)
        BY <3>1, <4>1, SMTT(20) DEF Range
      <4>2. CASE i > Len(s)
        <5>1. i - Len(s) \in 1..Len(t) /\ Len(s) + (i - Len(s)) = i
          BY <3>1, <4>2
        <5> QED
          BY <3>1, <5>1, Zenon DEF Range
      <4> QED
        BY <3>1, <4>1, <4>2
    <3>3. ASSUME NEW i \in 1..Len(t) PROVE Len(s) + i \in 1..(Len(s) + Len(t))
      BY <3>1
    <3>4. ASSUME NEW i \in 1..Len(s) PROVE i \in 1..(Len(s) + Len(t))
      BY <3>1
    <3>5. Range(s) \subseteq Range(u) /\ Range(t) \subseteq Range(u)
      BY <3>1, <3>3, <3>4, Zenon DEF Range
    <3> QED
      BY <3>1, <3>2, <3>5, Zenon DEF Range, u
  <2>3. /\ Range(NatOrder \o FilterOrder) = Range(NatOrder) \cup Range(FilterOrder)
        /\ Range(FilterOrder \o NatOrder) = Range(FilterOrder) \cup Range(NatOrder)
    BY <1>1, <2>2
  <2>4. Range(FilterOrder) \cup Range(NatOrder) = Chain
    BY <1>3
  <2> QED
    BY <1>3, <2>1, <2>3, <2>4, Zenon
<1>5. Range(<<>>) = {} /\ Chain # {}
  BY Chains DEF Range
<1> QED
  BY <1>1, <1>2, <1>4, <1>5, Zenon

(* Where CleanupLeftovers is, in a shutdown the sync loop keeps out of: a  *)
(* jump rule or a chain that is still there is still to be deleted.        *)
Cleaned ==
    /\ shutdown["edgeproxy"] = "hooks" =>
          todo \in Seq(Chain) /\ todo # <<>> /\ hooks \subseteq Range(todo)
    /\ shutdown["edgeproxy"] = "chains" =>
          todo \in Seq(Chain) /\ todo # <<>> /\ hooks = {} /\ chains \subseteq Range(todo)
    /\ shutdown["edgeproxy"] = "done" => hooks = {} /\ chains = {}

CleanInv == RulesRemovedIfQuiet /\ (phase = "shutdown" /\ ~overlap => Cleaned)

LEMMA CleanElsewhere ==
    ASSUME phase' \notin {"exited", "shutdown"}
    PROVE  CleanInv'
BY DEF CleanInv, RulesRemovedIfQuiet, RulesRemoved

LEMMA CleanWithin ==
    ASSUME phase' = "shutdown", ~overlap' => Cleaned'
    PROVE  CleanInv'
BY DEF CleanInv, RulesRemovedIfQuiet, RulesRemoved

LEMMA CleanDeleteRule ==
    ASSUME LifeTypeOK, CleanInv, DeleteRule
    PROVE  CleanInv'
<1>1. /\ phase = "shutdown" /\ phase' = "shutdown" /\ overlap' = overlap /\ chains' = chains
      /\ shutdown["edgeproxy"] = "hooks" /\ hooks' = hooks \ {Head(todo)}
  BY DEF DeleteRule, run, loop
<1> SUFFICES ASSUME ~overlap PROVE Cleaned'
  BY <1>1, CleanWithin
<1>2. todo \in Seq(Chain) /\ todo # <<>> /\ hooks \subseteq Range(todo)
  BY <1>1, Zenon DEF CleanInv, Cleaned
<1>3. /\ Tail(todo) \in Seq(Chain) /\ hooks \ {Head(todo)} \subseteq Range(Tail(todo))
      /\ Len(todo) > 1 => Tail(todo) # <<>>
      /\ ~(Len(todo) > 1) => Range(todo) = {Head(todo)}
  BY <1>2, HeadOfRange
<1>4. CASE Len(todo) > 1
  <2>1. todo' = Tail(todo) /\ shutdown' = shutdown
    BY <1>4 DEF DeleteRule
  <2> QED
    BY <1>1, <1>3, <1>4, <2>1, Zenon DEF Cleaned
<1>5. CASE ~(Len(todo) > 1)
  <2>1. /\ todo' \in {NatOrder \o FilterOrder, FilterOrder \o NatOrder}
        /\ shutdown' = [shutdown EXCEPT !["edgeproxy"] = "chains"]
    BY <1>5, Zenon DEF DeleteRule
  <2>2. shutdown'["edgeproxy"] = "chains"
    BY <2>1, Orders DEF LifeTypeOK
  <2>3. todo' \in Seq(Chain) /\ todo' # <<>> /\ Range(todo') = Chain
    BY <2>1, CleanupOrders, Zenon
  <2>4. hooks' = {} /\ chains' \subseteq Chain
    BY <1>1, <1>2, <1>3, <1>5, ZenonT(30) DEF LifeTypeOK
  <2> QED
    BY <2>2, <2>3, <2>4, Zenon DEF Cleaned
<1> QED
  BY <1>4, <1>5, Zenon

LEMMA CleanDeleteChain ==
    ASSUME LifeTypeOK, CleanInv, DeleteChain
    PROVE  CleanInv'
<1>1. /\ phase = "shutdown" /\ phase' = "shutdown" /\ overlap' = overlap /\ hooks' = hooks
      /\ shutdown["edgeproxy"] = "chains" /\ chains' = chains \ ({Head(todo)} \ hooks)
      /\ todo' = Tail(todo)
      /\ shutdown' = [shutdown EXCEPT !["edgeproxy"] = IF Len(todo) > 1 THEN @ ELSE "done"]
  BY DEF DeleteChain, run, loop
<1> SUFFICES ASSUME ~overlap PROVE Cleaned'
  BY <1>1, CleanWithin
<1>2. todo \in Seq(Chain) /\ todo # <<>> /\ hooks = {} /\ chains \subseteq Range(todo)
  BY <1>1, Zenon DEF CleanInv, Cleaned
<1>3. /\ Tail(todo) \in Seq(Chain) /\ chains \ {Head(todo)} \subseteq Range(Tail(todo))
      /\ Len(todo) > 1 => Tail(todo) # <<>>
      /\ ~(Len(todo) > 1) => Range(todo) = {Head(todo)}
  BY <1>2, HeadOfRange, Zenon
<1>4. shutdown'["edgeproxy"] = IF Len(todo) > 1 THEN "chains" ELSE "done"
  BY <1>1, Orders, Zenon DEF LifeTypeOK
<1>5. hooks' = {} /\ chains' = chains \ {Head(todo)}
  BY <1>1, <1>2
<1>6. CASE Len(todo) > 1
  <2>1. shutdown'["edgeproxy"] = "chains"
    BY <1>4, <1>6
  <2> QED
    BY <1>1, <1>3, <1>5, <1>6, <2>1, Zenon DEF Cleaned
<1>7. CASE ~(Len(todo) > 1)
  <2>1. shutdown'["edgeproxy"] = "done"
    BY <1>4, <1>7, Zenon
  <2>2. chains' = {}
    BY <1>2, <1>3, <1>5, <1>7, Zenon
  <2> QED
    BY <1>5, <2>1, <2>2, Zenon DEF Cleaned
<1> QED
  BY <1>6, <1>7, Zenon

LEMMA CleanStep == LifeTypeOK /\ RegInv /\ CleanInv /\ [LifeNext]_lifeVars => CleanInv'
<1> SUFFICES ASSUME LifeTypeOK, RegInv, CleanInv, [LifeNext]_lifeVars PROVE CleanInv'
  OBVIOUS
<1>1. CASE Prepare
  <2>1. phase' \notin {"exited", "shutdown"}
    BY <1>1, Zenon DEF Prepare, Validate, SaveKubeConfigFile, EnsureBridgeDevice, AddBridgeDevice,
                AddrAdd, SetupBridgeDevice, LookupEnv, NewClients, Restart, Fails, SavePartly,
                Goes, Dies
  <2> QED
    BY <2>1, CleanElsewhere, ZenonT(30)
<1>2. CASE Register
  <2>1. ASSUME NEW m, Registering(m), UNCHANGED phase PROVE phase' \notin {"exited", "shutdown"}
    BY <2>1, Zenon DEF Registering
  <2>2. CASE RegisterDNS \/ RegisterProxy \/ RegisterProxyFails \/ RegisterCNI
    BY <2>1, <2>2, CleanElsewhere, Zenon
    DEF RegisterDNS, RegisterProxy, RegisterProxyFails, RegisterCNI, Registered
  <2>3. CASE \E m \in Module : RegisterDisabled(m) \/ RegisterOther(m) \/ RegisterFails(m)
    BY <2>1, <2>3, CleanElsewhere, Zenon DEF RegisterDisabled, RegisterOther, RegisterFails, Registered
  <2>4. CASE Initialize \/ RegisterErrors
    BY <2>4, CleanElsewhere DEF Initialize, RegisterErrors, Dies
  <2> QED
    BY <1>2, <2>2, <2>3, <2>4 DEF Register
<1>3. CASE Running
  <2>1. CASE StartDNS \/ (\E m \in Module : Start(m))
    BY <2>1, CleanElsewhere, Zenon DEF StartDNS, Start, Dies
  <2>2. CASE Signal
    <3>1. phase' = "shutdown" /\ shutdown'["edgeproxy"] \in {"begin", "none"}
      BY <2>2, Orders DEF Signal
    <3> QED
      BY <3>1, CleanWithin, Zenon DEF Cleaned
  <2> QED
    BY <1>3, <2>1, <2>2, Zenon DEF Running
<1>4. CASE Sync
  <2>1. phase' = phase /\ phase \in {"start", "shutdown"} /\ (phase = "shutdown" => overlap')
    BY <1>4, Zenon DEF Sync, EnsureChain, EnsureRule, ensurePortals, Syncing, run
  <2> QED
    BY <2>1, CleanElsewhere, CleanWithin
<1>5. CASE CleanupAndExit
  <2>1. /\ phase = "shutdown" /\ phase' = "shutdown"
        /\ shutdown' = [shutdown EXCEPT !["edgeproxy"] = "hooks"]
        /\ todo' = HookOrder /\ hooks' = hooks
    BY <1>5, Zenon DEF CleanupAndExit, run, iptables
  <2>2. shutdown'["edgeproxy"] = "hooks"
    BY <2>1, Orders, Zenon DEF LifeTypeOK
  <2>3. todo' \in Seq(Chain) /\ todo' # <<>> /\ Range(todo') = Chain
    BY <2>1, CleanupOrders, Zenon
  <2>4. hooks' \subseteq Chain
    BY <2>1 DEF LifeTypeOK
  <2>5. Cleaned'
    BY <2>2, <2>3, <2>4, Zenon DEF Cleaned
  <2> QED
    BY <2>1, <2>5, CleanWithin, Zenon
<1>6. CASE CloseRoute
  BY <1>6, CleanElsewhere, Zenon DEF CloseRoute, Dies
<1>7. ASSUME NEW m \in Module, ShutdownOther(m) PROVE CleanInv'
  <2>1. /\ phase = "shutdown" /\ phase' = "shutdown" /\ m # "edgeproxy"
        /\ shutdown' = [shutdown EXCEPT ![m] = "done"]
        /\ UNCHANGED <<overlap, todo, hooks, chains>>
    BY <1>7, Zenon DEF ShutdownOther, run, loop, iptables
  <2>2. shutdown'["edgeproxy"] = shutdown["edgeproxy"]
    BY <2>1, Orders, Zenon DEF LifeTypeOK
  <2>3. ~overlap => Cleaned'
    BY <2>1, <2>2 DEF CleanInv, Cleaned
  <2> QED
    BY <2>1, <2>3, CleanWithin, Zenon
<1>8. CASE Exit
  <2>1. /\ phase = "shutdown" /\ \A m \in cached : shutdown[m] = "done"
        /\ phase' = "exited" /\ UNCHANGED <<config, overlap, hooks, chains>>
    BY <1>8 DEF Exit, Dies
  <2>2. "edgeproxy" \in Enabled(config) => shutdown["edgeproxy"] = "done"
    BY <2>1, Zenon DEF RegInv
  <2> QED
    BY <2>1, <2>2, Zenon DEF CleanInv, Cleaned, RulesRemovedIfQuiet, RulesRemoved
<1>9. CASE UNCHANGED lifeVars
  BY <1>9, Zenon DEF lifeVars, run, loop, cleanup, iptables, CleanInv, Cleaned, RulesRemovedIfQuiet,
              RulesRemoved
<1> QED
  BY SMTT(20), <1>1, <1>2, <1>3, <1>4, <1>5, <1>6, <1>7, <1>8, <1>9, CleanDeleteRule, CleanDeleteChain,
     Actions DEF Shutdown

(* CleanupAndExit "remove iptables rules": a process with the proxy that   *)
(* exits after a signal leaves neither a jump rule nor a chain, of its own *)
(* or of a process before it, if the sync loop did not write meanwhile.    *)
THEOREM QuietShutdownCleans == LifeSpec => []RulesRemovedIfQuiet
<1>1. LifeInit => CleanInv
  BY DEF LifeInit, CleanInv, RulesRemovedIfQuiet, RulesRemoved
<1>2. CleanInv => RulesRemovedIfQuiet
  BY DEF CleanInv
<1> QED
  BY <1>1, <1>2, LifeTypeInit, LifeTypeStep, RegInit, RegStep, CleanStep, PTL DEF LifeSpec

-----------------------------------------------------------------------------
(* The Corefile of the process.                                            *)

(* What UpdateCorefile has the file forward to; it does not depend on how  *)
(* the API server is reached.                                              *)
Forwarded(cache, cluster, ok) ==
    UpdateCorefile(cache, [master |-> FALSE, kubeConfig |-> ""], cluster, ok).forward

Written ==
    "edgedns" \in modules =>
        \E ok \in SUBSET Calls :
           /\ faults = 0 => ok = Calls
           /\ corefile.forward = Forwarded(config.cache, config.cluster, ok)

(* A step that does not register EdgeDNS.                                  *)
KeepsFile ==
    /\ config' = config /\ corefile' = corefile
    /\ "edgedns" \in modules' => "edgedns" \in modules
    /\ faults' = faults \/ Fault

LEMMA WrittenKept ==
    ASSUME LifeTypeOK, Written, KeepsFile
    PROVE  Written'
<1>1. faults' = 0 => faults = 0
  BY FaultTyped, Zenon DEF KeepsFile
<1> QED
  BY <1>1, Zenon DEF Written, KeepsFile

LEMMA WrittenByDNS ==
    ASSUME LifeTypeOK, Written, RegisterDNS
    PROVE  Written'
<1> DEFINE kubeAPI == [config.kubeAPI EXCEPT !.kubeConfig =
                          IF Mode(config) = "EdgeMode" THEN "temp" ELSE @]
<1>1. PICK ok \in SUBSET Calls :
        /\ IF ok = Calls THEN UNCHANGED faults ELSE Fault
        /\ \/ /\ corefile' = UpdateCorefile(config.cache, kubeAPI, config.cluster, ok)
              /\ config' = config
           \/ UNCHANGED <<config, corefile, modules>>
  BY Zenon DEF RegisterDNS, Registered
<1> HIDE DEF kubeAPI
<1>2. CASE UNCHANGED <<config, corefile, modules>>
  BY <1>1, <1>2, WrittenKept, Zenon DEF KeepsFile
<1>3. CASE corefile' = UpdateCorefile(config.cache, kubeAPI, config.cluster, ok) /\ config' = config
  <2>1. corefile'.forward = Forwarded(config.cache, config.cluster, ok)
    BY <1>3 DEF Forwarded, UpdateCorefile, getStubDomainStr
  <2>2. faults' = 0 => ok = Calls
    BY <1>1, FaultTyped, Zenon
  <2> QED
    BY <1>3, <2>1, <2>2, Zenon DEF Written
<1> QED
  BY <1>1, <1>2, <1>3, Zenon

LEMMA WrittenStep == LifeTypeOK /\ Written /\ [LifeNext]_lifeVars => Written'
<1> SUFFICES ASSUME LifeTypeOK, Written, [LifeNext]_lifeVars PROVE Written'
  OBVIOUS
<1>1. CASE Prepare
  <2>1. config' = config /\ corefile' = corefile
    BY <1>1, Zenon DEF Prepare, Validate, SaveKubeConfigFile, EnsureBridgeDevice, AddBridgeDevice,
                AddrAdd, SetupBridgeDevice, LookupEnv, NewClients, Restart, Fails, SavePartly
  <2>2. modules' = modules \/ modules' = {}
    BY <1>1, Zenon DEF Prepare, Validate, SaveKubeConfigFile, EnsureBridgeDevice, AddBridgeDevice,
                AddrAdd, SetupBridgeDevice, LookupEnv, NewClients, Restart, Fails, SavePartly,
                Goes, Dies
  <2>3. faults' = faults \/ Fault
    BY <1>1, Zenon DEF Prepare, Validate, SaveKubeConfigFile, EnsureBridgeDevice, AddBridgeDevice,
                AddrAdd, SetupBridgeDevice, LookupEnv, NewClients, Restart, Fails, SavePartly
  <2> QED
    BY <2>1, <2>2, <2>3, WrittenKept, Zenon DEF KeepsFile
<1>2. CASE RegisterDNS
  BY <1>2, WrittenByDNS, Zenon
<1>3. CASE RegisterProxy \/ RegisterProxyFails
  <2>1. \E ok : Registered("edgeproxy", ok)
    BY <1>3, Zenon DEF RegisterProxy, RegisterProxyFails
  <2>2. corefile' = corefile /\ (faults' = faults \/ Fault)
    BY <1>3, Zenon DEF RegisterProxy, RegisterProxyFails, node
  <2>3. "edgedns" # "edgeproxy"
    OBVIOUS
  <2> QED
    BY <2>1, <2>2, <2>3, WrittenKept, Zenon DEF KeepsFile, Registered
<1>4. CASE RegisterCNI
  <2>1. Registered("edgecni", TRUE) /\ corefile' = corefile /\ (faults' = faults \/ Fault)
    BY <1>4, Zenon DEF RegisterCNI
  <2>2. "edgedns" # "edgecni"
    OBVIOUS
  <2> QED
    BY <2>1, <2>2, WrittenKept, Zenon DEF KeepsFile, Registered
<1>5. ASSUME NEW m \in Module, RegisterDisabled(m) \/ RegisterOther(m) \/ RegisterFails(m)
      PROVE  Written'
  <2>1. /\ config' = config /\ corefile' = corefile /\ (faults' = faults \/ Fault)
        /\ modules' = modules \/ modules' = modules \cup ({m} \cap {"edgetunnel", "edgegateway"})
    BY <1>5, Zenon DEF RegisterDisabled, RegisterOther, RegisterFails, Registered, node
  <2>2. "edgedns" \notin {"edgetunnel", "edgegateway"}
    OBVIOUS
  <2> QED
    BY <2>1, <2>2, WrittenKept, Zenon DEF KeepsFile
<1>6. CASE Initialize \/ RegisterErrors \/ Running
  <2>1. /\ config' = config /\ corefile' = corefile /\ (faults' = faults \/ Fault)
        /\ modules' = modules \/ modules' = {}
    BY <1>6, Zenon DEF Initialize, RegisterErrors, Running, StartDNS, Start, Signal, Dies, node
  <2> QED
    BY <2>1, WrittenKept, Zenon DEF KeepsFile
<1>7. CASE Sync
  <2>1. UNCHANGED <<config, corefile, modules, faults>>
    BY <1>7, Zenon DEF Sync, EnsureChain, EnsureRule, ensurePortals, run, node
  <2> QED
    BY <2>1, WrittenKept, Zenon DEF KeepsFile
<1>8. CASE Shutdown
  <2>1. /\ UNCHANGED <<config, corefile, faults>>
        /\ modules' = modules \/ modules' = {}
    BY <1>8, Zenon DEF Shutdown, CleanupAndExit, DeleteRule, DeleteChain, CloseRoute, ShutdownOther,
                Exit, Dies, run, node
  <2> QED
    BY <2>1, WrittenKept, Zenon DEF KeepsFile
<1>9. CASE UNCHANGED lifeVars
  <2>1. UNCHANGED <<config, corefile, modules, faults>>
    BY <1>9, Zenon DEF lifeVars, run, node
  <2> QED
    BY <2>1, WrittenKept, Zenon DEF KeepsFile
<1> QED
  BY <1>1, <1>2, <1>3, <1>4, <1>5, <1>6, <1>7, <1>8, <1>9, Actions, Zenon DEF Register

(* EdgeDNS: across failures, kills and restarts, the Corefile CoreDNS      *)
(* starts with forwards to just the servers detected or configured for     *)
(* this process, all of those that exist unless a call has failed.  What   *)
(* UpdateCorefile computes, CacheForwards, is proved in GatewayProofs.     *)
THEOREM CorefileCurrent ==
    ASSUME CacheForwards
    PROVE  LifeSpec => []CorefileForwards
<1>1. LifeInit => Written
  BY Zenon DEF LifeInit, Written
<1>2. LifeTypeOK /\ Written => CorefileForwards
  <2> SUFFICES ASSUME LifeTypeOK, Written, "edgedns" \in modules, config.cache.enable
               PROVE  \E ok \in SUBSET Calls :
                         /\ faults = 0 => ok = Calls
                         /\ ForwardsTo(corefile.forward, config.cache, config.cluster, ok)
    BY Zenon DEF CorefileForwards
  <2>1. config.cache \in Caches /\ config.cluster \in Clusters
    BY LifeAssumption, Zenon DEF LifeTypeOK
  <2>2. PICK ok \in SUBSET Calls :
          /\ faults = 0 => ok = Calls
          /\ corefile.forward = Forwarded(config.cache, config.cluster, ok)
    BY Zenon DEF Written
  <2>3. ForwardsTo(Forwarded(config.cache, config.cluster, ok), config.cache, config.cluster, ok)
    BY <2>1, Zenon DEF CacheForwards, Forwarded
  <2> QED
    BY <2>2, <2>3, Zenon
<1> QED
  BY <1>1, <1>2, LifeTypeInit, LifeTypeStep, WrittenStep, PTL DEF LifeSpec

=============================================================================
