----------------------------- MODULE ServiceSync -----------------------------
(***************************************************************************)
(* How pkg/loadbalancer turns Service events into NewService and           *)
(* DeleteService calls when the gateway runs it: the callbacks of the      *)
(* Service informer record changes, and syncServices takes all recorded    *)
(* changes and merges them into lb.serviceMap.  syncServices runs in three *)
(* goroutines: the loop of the BoundedFrequencyRunner and one goroutine    *)
(* each that OnServiceSynced and OnEndpointsSynced start.  A step is what  *)
(* a goroutine does between two operations other goroutines can see: an    *)
(* atomic access, a critical section of serviceChangesLock or of lb.lock,  *)
(* taking or releasing lb.mu.                                              *)
(***************************************************************************)
EXTENDS LoadBalancer

CONSTANTS
    ServiceSpecs,   \* contents of Services
    MaxVersion      \* bound on the number of versions the apiserver stores

VARIABLES
    svcObj,         \* Service object of each name the informer holds, or Nil
    version,        \* last resourceVersion handed out
    serviceChanges, \* lb.serviceChanges
    serviceMap,     \* lb.serviceMap
    synced,         \* lb.servicesSynced and lb.endpointsSynced
    initialized,    \* lb.initialized
    handler,        \* where OnServiceSynced and OnEndpointsSynced are
    runRequested,   \* the element in the run channel of the syncRunner
    pc,             \* where each run of syncServices is
    changes,        \* the local variable changes of each run
    mu,             \* the run that holds lb.mu, or Nil
    task,           \* ports the holder of lb.mu has yet to treat
    ahead,          \* history: the runs that took changes before a run that
                    \* waits for lb.mu, and wait as well
    overtaken       \* history: changes were merged before older ones

syncVars == <<svcObj, version, serviceChanges, serviceMap, synced, initialized,
              handler, runRequested, pc, changes, mu, task, ahead, overtaken>>
allVars == <<vars, syncVars>>
informerVars == <<svcObj, version>>
handshakeVars == <<synced, initialized, handler>>
lockVars == <<mu, task>>
historyVars == <<ahead, overtaken>>

Informers == {"services", "endpoints"}
Threads == Informers \cup {"runner"}

(* What merging looks at: config stands for all sameConfig compares but    *)
(* the session affinity, skip for ShouldSkipService.                       *)
ServiceSpecType ==
    [ports : SUBSET Ports, config : STRING, skip : BOOLEAN,
     affinity : {"None", "ClientIP"}, ttl : 0 .. DefaultTtl]

ASSUME SyncAssumption ==
    /\ ServiceSpecs \subseteq ServiceSpecType
    /\ \A s \in ServiceSpecs : s.affinity = "ClientIP" => s.ttl \in Ttls
    /\ MaxVersion \in Nat
    /\ Nil \notin Threads

NoChange == [n \in {} |-> Nil]
NoTask == [name |-> Nil, current |-> Nil, merge |-> {}, unmerge |-> {}, clean |-> {}]

portsOf(service) ==
    IF service = Nil \/ service.spec.skip THEN {} ELSE service.spec.ports

-----------------------------------------------------------------------------
(* Callbacks of the Service informer *)

(* Mutant: the latest previous object is kept.                             *)
recordChange_LatestPrevious(n, previous, current) ==
    [previous |-> previous, current |-> current]

(* The oldest previous object of the changes not yet taken is kept.        *)
recordChange(n, previous, current) ==
    [previous |-> IF n \in DOMAIN serviceChanges
                  THEN serviceChanges[n].previous ELSE previous,
     current |-> current]

serviceChange(n, previous, current) ==
    LET change == recordChange(n, previous, current)
        effect == change.previous # change.current
    IN  /\ serviceChanges' =
              [x \in (DOMAIN serviceChanges \ {n}) \cup (IF effect THEN {n} ELSE {}) |->
                 IF x = n THEN change ELSE serviceChanges[x]]
        /\ runRequested' = (runRequested \/ (effect /\ initialized))
        /\ svcObj' = [svcObj EXCEPT ![n] = current]
        /\ UNCHANGED <<vars, serviceMap, handshakeVars, pc, changes, lockVars,
                       historyVars>>

NewVersion(spec) == [spec |-> spec, rv |-> version + 1]

OnServiceAdd(n, spec) ==
    /\ version < MaxVersion /\ svcObj[n] = Nil
    /\ serviceChange(n, Nil, NewVersion(spec))
    /\ version' = version + 1

OnServiceUpdate(n, spec) ==
    /\ version < MaxVersion /\ svcObj[n] # Nil
    /\ serviceChange(n, svcObj[n], NewVersion(spec))
    /\ version' = version + 1

OnServiceResync(n) ==
    /\ svcObj[n] # Nil
    /\ serviceChange(n, svcObj[n], svcObj[n])
    /\ UNCHANGED version

OnServiceDelete(n) ==
    /\ svcObj[n] # Nil
    /\ serviceChange(n, svcObj[n], Nil)
    /\ UNCHANGED version

-----------------------------------------------------------------------------
(* OnServiceSynced and OnEndpointsSynced *)

Other(h) == IF h = "services" THEN "endpoints" ELSE "services"

(* Mutant: the flag is not stored.                                         *)
StoreSynced_Forgotten(h) ==
    /\ handler[h] = "waiting"
    /\ handler' = [handler EXCEPT ![h] = "stored"]
    /\ UNCHANGED <<vars, informerVars, serviceChanges, serviceMap, synced,
                   initialized, runRequested, pc, changes, lockVars, historyVars>>

StoreSynced(h) ==
    /\ handler[h] = "waiting"
    /\ synced' = [synced EXCEPT ![h] = TRUE]
    /\ handler' = [handler EXCEPT ![h] = "stored"]
    /\ UNCHANGED <<vars, informerVars, serviceChanges, serviceMap, initialized,
                   runRequested, pc, changes, lockVars, historyVars>>

LoadOther(h) ==
    /\ handler[h] = "stored"
    /\ IF synced[Other(h)]
       THEN handler' = [handler EXCEPT ![h] = "initialize"] /\ UNCHANGED pc
       ELSE /\ handler' = [handler EXCEPT ![h] = "done"]
            /\ pc' = [pc EXCEPT ![h] = "start"]
    /\ UNCHANGED <<vars, informerVars, serviceChanges, serviceMap, synced,
                   initialized, runRequested, changes, lockVars, historyVars>>

StoreInitialized(h) ==
    /\ handler[h] = "initialize"
    /\ initialized' = TRUE
    /\ handler' = [handler EXCEPT ![h] = "done"]
    /\ pc' = [pc EXCEPT ![h] = "start"]
    /\ UNCHANGED <<vars, informerVars, serviceChanges, serviceMap, synced,
                   runRequested, changes, lockVars, historyVars>>

-----------------------------------------------------------------------------
(* The loop of the BoundedFrequencyRunner: a request or the timer starts a *)
(* run; a request the limiter turns down only sets the timer.              *)

StartRun ==
    /\ pc["runner"] = "idle"
    /\ pc' = [pc EXCEPT !["runner"] = "start"]
    /\ UNCHANGED <<vars, informerVars, serviceChanges, serviceMap, handshakeVars,
                   changes, lockVars, historyVars>>

TakeRequest ==
    /\ runRequested
    /\ runRequested' = FALSE
    /\ \/ StartRun
       \/ /\ pc["runner"] = "idle"
          /\ UNCHANGED <<vars, informerVars, serviceChanges, serviceMap,
                         handshakeVars, pc, changes, lockVars, historyVars>>

TimerFires == StartRun /\ UNCHANGED runRequested

-----------------------------------------------------------------------------
(* syncServices *)

CheckInitialized(t) ==
    /\ pc[t] = "start"
    /\ pc' = [pc EXCEPT ![t] = IF initialized THEN "take" ELSE "idle"]
    /\ UNCHANGED <<vars, informerVars, serviceChanges, serviceMap, handshakeVars,
                   runRequested, changes, lockVars, historyVars>>

TakeChanges(t) ==
    /\ pc[t] = "take"
    /\ changes' = [changes EXCEPT ![t] = serviceChanges]
    /\ serviceChanges' = NoChange
    /\ pc' = [pc EXCEPT ![t] = "lock"]
    /\ ahead' = [ahead EXCEPT ![t] = {u \in Threads : pc[u] = "lock"}]
    /\ UNCHANGED <<vars, informerVars, serviceMap, handshakeVars, runRequested,
                   lockVars, overtaken>>

LockMu(t) ==
    /\ pc[t] = "lock" /\ mu = Nil
    /\ mu' = t
    /\ pc' = [pc EXCEPT ![t] = "merge"]
    /\ ahead' = [u \in Threads |-> IF u = t THEN {} ELSE ahead[u] \ {t}]
    /\ overtaken' = (overtaken \/ \E u \in ahead[t] : DOMAIN changes[u] \cap DOMAIN changes[t] # {})
    /\ UNCHANGED <<vars, informerVars, serviceChanges, serviceMap, handshakeVars,
                   runRequested, changes, task>>

portsToUnmerge(change) == portsOf(change.previous) \ portsOf(change.current)

TaskDone == task.merge = {} /\ task.unmerge = {}

(* The next of the changes, in the order of the Go map, i.e. any.          *)
NextChange(t, n) ==
    LET change == changes[t][n]
    IN  /\ pc[t] = "merge" /\ TaskDone
        /\ n \in DOMAIN changes[t]
        /\ task' = [task EXCEPT !.name = n, !.current = change.current,
                                !.merge = portsOf(change.current),
                                !.unmerge = portsToUnmerge(change)]
        /\ changes' = [changes EXCEPT ![t] = Restrict(@, DOMAIN @ \ {n})]
        /\ UNCHANGED <<vars, informerVars, serviceChanges, serviceMap,
                       handshakeVars, runRequested, pc, mu, historyVars>>

sameConfig(info, service) ==
    info.config = service.spec.config /\ info.sessionAffinityType = service.spec.affinity

newInfo(service) ==
    [config |-> service.spec.config,
     sessionAffinityType |-> service.spec.affinity,
     stickyMaxAgeSeconds |->
        IF service.spec.affinity = "ClientIP" THEN service.spec.ttl ELSE 0]

(* Mutant: a port whose info differs gets a new entry.                     *)
mergeService_NewEntry(t, p) ==
    LET sp == <<task.name, p>>
        info == newInfo(task.current)
    IN  /\ pc[t] = "merge" /\ p \in task.merge
        /\ task' = [task EXCEPT !.merge = @ \ {p}]
        /\ IF sp \in DOMAIN serviceMap /\ sameConfig(serviceMap[sp], task.current)
           THEN UNCHANGED <<serviceMap, services>>
           ELSE /\ serviceMap' = [x \in DOMAIN serviceMap \cup {sp} |->
                                    IF x = sp THEN info ELSE serviceMap[x]]
                /\ services' = [x \in DOMAIN services \cup {sp} |->
                      IF x = sp
                      THEN emptyState(info.sessionAffinityType, info.stickyMaxAgeSeconds)
                      ELSE services[x]]
        /\ UNCHANGED <<policyMap, epObj, drObj, answer, panicked, overlooked>>
        /\ UNCHANGED <<informerVars, serviceChanges, handshakeVars, runRequested,
                       pc, changes, mu, historyVars>>

(* One port in the loop of mergeService; a port whose info differs is      *)
(* replaced without DeleteService.                                         *)
mergeService(t, p) ==
    LET sp == <<task.name, p>>
        info == newInfo(task.current)
    IN  /\ pc[t] = "merge" /\ p \in task.merge
        /\ task' = [task EXCEPT !.merge = @ \ {p}]
        /\ IF sp \in DOMAIN serviceMap /\ sameConfig(serviceMap[sp], task.current)
           THEN UNCHANGED <<serviceMap, vars>>
           ELSE /\ serviceMap' = [x \in DOMAIN serviceMap \cup {sp} |->
                                    IF x = sp THEN info ELSE serviceMap[x]]
                /\ NewService(sp, info.sessionAffinityType, info.stickyMaxAgeSeconds)
        /\ UNCHANGED <<informerVars, serviceChanges, handshakeVars, runRequested,
                       pc, changes, mu, historyVars>>

(* One port in the loop of unmergeService.                                 *)
unmergeService(t, p) ==
    LET sp == <<task.name, p>>
    IN  /\ pc[t] = "merge" /\ task.merge = {} /\ p \in task.unmerge
        /\ task' = [task EXCEPT !.unmerge = @ \ {p}]
        /\ IF sp \in DOMAIN serviceMap
           THEN /\ serviceMap' = Restrict(serviceMap, DOMAIN serviceMap \ {sp})
                /\ DeleteService(sp)
           ELSE UNCHANGED <<serviceMap, vars>>
        /\ UNCHANGED <<informerVars, serviceChanges, handshakeVars, runRequested,
                       pc, changes, mu, historyVars>>

StartCleanup(t) ==
    /\ pc[t] = "merge" /\ TaskDone /\ DOMAIN changes[t] = {}
    /\ pc' = [pc EXCEPT ![t] = "cleanup"]
    /\ task' = [NoTask EXCEPT !.clean = DOMAIN serviceMap]
    /\ UNCHANGED <<vars, informerVars, serviceChanges, serviceMap, handshakeVars,
                   runRequested, changes, mu, historyVars>>

cleanupStaleStickySessions(t, sp) ==
    /\ pc[t] = "cleanup" /\ sp \in task.clean
    /\ task' = [task EXCEPT !.clean = @ \ {sp}]
    /\ CleanupStaleStickySessions(sp)
    /\ UNCHANGED <<informerVars, serviceChanges, serviceMap, handshakeVars,
                   runRequested, pc, changes, mu, historyVars>>

UnlockMu(t) ==
    /\ pc[t] = "cleanup" /\ task.clean = {}
    /\ mu' = Nil
    /\ pc' = [pc EXCEPT ![t] = "idle"]
    /\ UNCHANGED <<vars, informerVars, serviceChanges, serviceMap, handshakeVars,
                   runRequested, changes, task, historyVars>>

-----------------------------------------------------------------------------
SyncInit ==
    /\ Init
    /\ svcObj = [n \in Names |-> Nil]
    /\ version = 0
    /\ serviceChanges = NoChange
    /\ serviceMap = [sp \in {} |-> Nil]
    /\ synced = [h \in Informers |-> FALSE]
    /\ initialized = FALSE
    /\ handler = [h \in Informers |-> "waiting"]
    /\ runRequested = FALSE
    /\ pc = [t \in Threads |-> "idle"]
    /\ changes = [t \in Threads |-> NoChange]
    /\ mu = Nil
    /\ task = NoTask
    /\ ahead = [t \in Threads |-> {}]
    /\ overtaken = FALSE

ServiceCallbacks ==
    \E n \in Names :
        \/ \E spec \in ServiceSpecs : OnServiceAdd(n, spec) \/ OnServiceUpdate(n, spec)
        \/ OnServiceResync(n)
        \/ OnServiceDelete(n)

EndpointsCallbacks ==
    /\ \E n \in Names, obj \in EndpointsObject :
          OnEndpointsAdd(n, obj) \/ OnEndpointsUpdate(n, obj) \/ OnEndpointsDelete(n)
    /\ UNCHANGED syncVars

SyncedCallback(h) == StoreSynced(h) \/ LoadOther(h) \/ StoreInitialized(h)

syncServices(t) ==
    \/ CheckInitialized(t)
    \/ TakeChanges(t)
    \/ LockMu(t)
    \/ \E n \in Names : NextChange(t, n)
    \/ \E p \in Ports : mergeService(t, p) \/ unmergeService(t, p)
    \/ StartCleanup(t)
    \/ \E sp \in SvcPort : cleanupStaleStickySessions(t, sp)
    \/ UnlockMu(t)

SyncNext ==
    \/ ServiceCallbacks
    \/ EndpointsCallbacks
    \/ \E h \in Informers : SyncedCallback(h)
    \/ TakeRequest
    \/ TimerFires
    \/ \E t \in Threads : syncServices(t)

SyncSpec == SyncInit /\ [][SyncNext]_allVars

(* The caches sync, some goroutine runs as long as one of them can, and    *)
(* the runner's timer is always set. A run that waits for lb.mu has taken  *)
(* its changes already, so that nothing need be assumed about who gets the *)
(* lock, or about which goroutine is scheduled.                            *)
FairSyncSpec ==
    /\ SyncSpec
    /\ WF_allVars(\E h \in Informers : SyncedCallback(h))
    /\ WF_allVars(TimerFires)
    /\ WF_allVars(\E t \in Threads : syncServices(t))

-----------------------------------------------------------------------------
(* Properties *)

SyncTypeOK ==
    /\ version \in 0 .. MaxVersion
    /\ DOMAIN serviceChanges \subseteq Names
    /\ DOMAIN serviceMap \subseteq SvcPort
    /\ synced \in [Informers -> BOOLEAN]
    /\ initialized \in BOOLEAN /\ runRequested \in BOOLEAN /\ overtaken \in BOOLEAN
    /\ handler \in [Informers -> {"waiting", "stored", "initialize", "done"}]
    /\ pc \in [Threads -> {"idle", "start", "take", "lock", "merge", "cleanup"}]
    /\ mu \in Threads \cup {Nil}
    /\ \A t \in Threads : pc[t] \in {"merge", "cleanup"} <=> mu = t
    /\ \A t \in Threads : DOMAIN changes[t] \subseteq Names
    /\ task.merge \subseteq Ports /\ task.unmerge \subseteq Ports
    /\ task.clean \subseteq DOMAIN serviceMap

(* The goroutines use lb.services as the callers LoadBalancer allows for:  *)
(* every step is one call of its interface, with a session affinity and a  *)
(* timeout that fit, or leaves it alone, so that what is proved of         *)
(* LoadBalancer holds while three runs of syncServices merge changes.      *)
IsBalancer == Spec

(* A port GetServicePortName can find has an entry in lb.services, of the  *)
(* session affinity its Service asked for, whatever Endpoints events and   *)
(* merges of other changes came between.                                   *)
MergedIsBalanced ==
    \A sp \in DOMAIN serviceMap :
        /\ sp \in DOMAIN services
        /\ services[sp].affinityType = serviceMap[sp].sessionAffinityType

(* Nothing is merged from partial data: lb.serviceMap stays empty until    *)
(* both informers have synced.                                             *)
NoPartialMerge ==
    DOMAIN serviceMap # {} => synced["services"] /\ synced["endpoints"]

(* When both Synced callbacks are through, the load balancer is            *)
(* initialized: they cannot both miss the flag of the other.               *)
SyncedHandshake ==
    handler["services"] = "done" /\ handler["endpoints"] = "done" => initialized

Quiescent ==
    /\ initialized
    /\ DOMAIN serviceChanges = {}
    /\ \A t \in Threads : pc[t] \in {"idle", "start", "take"}

MapAgrees ==
    \A n \in Names :
        LET merged == {p \in Ports : <<n, p>> \in DOMAIN serviceMap}
        IN  /\ merged = portsOf(svcObj[n])
            /\ \A p \in merged : sameConfig(serviceMap[<<n, p>>], svcObj[n])

(* Once every recorded change is merged, lb.serviceMap has the ports of    *)
(* the current Services with their current configuration, provided that no *)
(* run merged newer changes of a Service before older ones.                *)
InOrderConverged == Quiescent /\ ~overtaken => MapAgrees

(* The comment in serviceChange: correct unmerging depends on the next     *)
(* update or delete after a merge. Here: InOrderConverged without its      *)
(* proviso, which does not hold, since syncServices takes changes under    *)
(* one lock and merges them under another.                                 *)
Converged == Quiescent => MapAgrees

(* The comment in OnEndpointsUpdate: the affinity of an entry made for     *)
(* endpoints is updated once NewService is called. It does not hold of the *)
(* timeout, only, see MergedIsBalanced, of the affinity type.              *)
TimeoutUpdated ==
    \A sp \in DOMAIN serviceMap \cap DOMAIN services :
        serviceMap[sp].sessionAffinityType = "ClientIP" =>
            services[sp].ttlSeconds = serviceMap[sp].stickyMaxAgeSeconds

(* Every recorded change is taken by a run of syncServices, or collapses.  *)
ChangesTaken ==
    \A n \in Names : n \in DOMAIN serviceChanges ~> n \notin DOMAIN serviceChanges

=============================================================================
