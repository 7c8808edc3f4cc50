-------------------------- MODULE ServiceSyncProofs --------------------------
(***************************************************************************)
(* TLAPS proofs about ServiceSync, for every set of names, ports, Services *)
(* and versions: the two Synced callbacks cannot miss each other, the      *)
(* goroutines of syncServices use the load balancer as LoadBalancer        *)
(* specifies, and the merged ports are those of the current Services once  *)
(* every change taken in order is merged.                                  *)
(***************************************************************************)
EXTENDS ServiceSync, TLAPS

ObjOK(service) == service = Nil \/ service.spec \in ServiceSpecs

ChangesOK(c) == \A n \in DOMAIN c : ObjOK(c[n].current)

TaskShape == DOMAIN task = DOMAIN NoTask

(* What syncServices passes to NewService comes from a Service.            *)
ObjectsOK ==
    /\ DOMAIN svcObj = Names /\ \A n \in Names : ObjOK(svcObj[n])
    /\ ChangesOK(serviceChanges)
    /\ DOMAIN changes = Threads /\ \A t \in Threads : ChangesOK(changes[t])
    /\ TaskShape
    /\ task.merge # {} => task.name \in Names /\ task.current.spec \in ServiceSpecs
    /\ task.unmerge # {} => task.name \in Names

(* The flags of the handshake: initialized is stored only where both       *)
(* informers have synced, and nothing is merged before.                    *)
HandshakeOK ==
    /\ DOMAIN handler = Informers /\ DOMAIN synced = Informers
    /\ DOMAIN pc = Threads
    /\ \A h \in Informers : handler[h] # "waiting" => synced[h]
    /\ \A h \in Informers : handler[h] = "initialize" => synced[Other(h)]
    /\ initialized => synced["services"] /\ synced["endpoints"]
    /\ \A t \in Threads : pc[t] \notin {"idle", "start"} => initialized
    /\ DOMAIN serviceMap # {} => initialized
    /\ SyncedHandshake

-----------------------------------------------------------------------------
(* The handshake *)

LEMMA HandshakeStep ==
    ASSUME HandshakeOK, [SyncNext]_allVars
    PROVE  HandshakeOK'
<1> USE DEF HandshakeOK, SyncedHandshake, Informers, Threads, Other
<1>1. CASE ServiceCallbacks
  <2>1. UNCHANGED <<serviceMap, handshakeVars, pc>>
    BY <1>1, ZenonT(30) DEF ServiceCallbacks, OnServiceAdd, OnServiceUpdate, OnServiceResync,
                OnServiceDelete, serviceChange
  <2> QED
    BY <2>1 DEF handshakeVars
<1>2. CASE EndpointsCallbacks
  BY <1>2 DEF EndpointsCallbacks, syncVars
<1>3. ASSUME NEW h \in Informers, SyncedCallback(h)
      PROVE  HandshakeOK'
  <2>1. CASE StoreSynced(h)
    BY <2>1 DEF StoreSynced
  <2>2. CASE LoadOther(h)
    BY <2>2 DEF LoadOther
  <2>3. CASE StoreInitialized(h)
    BY <2>3 DEF StoreInitialized
  <2> QED
    BY <1>3, <2>1, <2>2, <2>3 DEF SyncedCallback
<1>4. CASE TakeRequest \/ TimerFires
  BY <1>4 DEF TakeRequest, TimerFires, StartRun, handshakeVars
<1>5. ASSUME NEW t \in Threads, syncServices(t)
      PROVE  HandshakeOK'
  <2>1. UNCHANGED <<synced, initialized, handler>>
    BY <1>5, Zenon DEF syncServices, CheckInitialized, TakeChanges, LockMu, NextChange,
                mergeService, unmergeService, StartCleanup, cleanupStaleStickySessions,
                UnlockMu, handshakeVars
  <2>2. \/ pc' = pc
        \/ pc' = [pc EXCEPT ![t] = "idle"]
        \/ initialized /\ \E label \in {"take", "lock", "merge", "cleanup"} :
                            pc' = [pc EXCEPT ![t] = label]
    BY <1>5, ZenonT(30) DEF syncServices, CheckInitialized, TakeChanges, LockMu, NextChange,
                mergeService, unmergeService, StartCleanup, cleanupStaleStickySessions,
                UnlockMu
  <2>3. serviceMap' = serviceMap \/ initialized
    BY <1>5, Zenon DEF syncServices, CheckInitialized, TakeChanges, LockMu, NextChange,
                mergeService, unmergeService, StartCleanup, cleanupStaleStickySessions,
                UnlockMu
  <2> QED
    BY <2>1, <2>2, <2>3
<1>6. CASE UNCHANGED allVars
  BY <1>6 DEF allVars, syncVars
<1> QED
  BY <1>1, <1>2, <1>3, <1>4, <1>5, <1>6, Zenon DEF SyncNext

LEMMA HandshakeInvariance == SyncSpec => []HandshakeOK
<1>1. SyncInit => HandshakeOK
  BY DEF SyncInit, HandshakeOK, SyncedHandshake, Informers, Threads, Other
<1>2. HandshakeOK /\ [SyncNext]_allVars => HandshakeOK'
  BY HandshakeStep
<1> QED
  BY <1>1, <1>2, PTL DEF SyncSpec

(* When OnServiceSynced and OnEndpointsSynced are both through, the load   *)
(* balancer is initialized.                                                *)
THEOREM Handshake == SyncSpec => []SyncedHandshake
<1>1. HandshakeOK => SyncedHandshake
  BY DEF HandshakeOK
<1> QED
  BY <1>1, HandshakeInvariance, PTL

(* syncServices merges nothing before both informers have synced.          *)
THEOREM NothingPartial == SyncSpec => []NoPartialMerge
<1>1. HandshakeOK => NoPartialMerge
  BY DEF HandshakeOK, NoPartialMerge
<1> QED
  BY <1>1, HandshakeInvariance, PTL

-----------------------------------------------------------------------------
(* The load balancer under syncServices *)

(* newInfo gives NewService a session affinity and a timeout that fit.     *)
LEMMA InfoFits ==
    ASSUME NEW service, service.spec \in ServiceSpecs
    PROVE  LET info == newInfo(service)
           IN  /\ info.sessionAffinityType \in {"None", "ClientIP"}
               /\ info.stickyMaxAgeSeconds \in Ttls \cup {0}
               /\ info.sessionAffinityType = "None" <=> info.stickyMaxAgeSeconds = 0
<1>1. /\ service.spec.affinity \in {"None", "ClientIP"}
      /\ service.spec.affinity = "ClientIP" => service.spec.ttl \in Ttls
  BY SyncAssumption DEF ServiceSpecType
<1>2. 0 \notin Ttls
  BY ConstantsAssumption
<1> QED
  BY <1>1, <1>2 DEF newInfo

LEMMA ObjectsStep ==
    ASSUME ObjectsOK, [SyncNext]_allVars
    PROVE  ObjectsOK'
<1>1. CASE ServiceCallbacks
  <2>1. PICK n \in Names :
          \E previous, current : ObjOK(current) /\ serviceChange(n, previous, current)
    <3>1. \A spec \in ServiceSpecs : ObjOK(NewVersion(spec))
      BY DEF ObjOK, NewVersion
    <3>2. ObjOK(Nil) /\ \A n \in Names : ObjOK(svcObj[n])
      BY DEF ObjOK, ObjectsOK
    <3> QED
      BY <1>1, <3>1, <3>2 DEF ServiceCallbacks, OnServiceAdd, OnServiceUpdate,
                              OnServiceResync, OnServiceDelete
  <2>2. PICK previous, current : ObjOK(current) /\ serviceChange(n, previous, current)
    BY <2>1
  <2>3. UNCHANGED <<changes, task>> /\ svcObj' = [svcObj EXCEPT ![n] = current]
    BY <2>2 DEF serviceChange, lockVars
  <2>4. ChangesOK(serviceChanges')
    <3>1. recordChange(n, previous, current).current = current
      BY DEF recordChange
    <3>2. ASSUME NEW x \in DOMAIN serviceChanges'
          PROVE  \/ x = n /\ serviceChanges'[x].current = current
                 \/ x \in DOMAIN serviceChanges /\ serviceChanges'[x] = serviceChanges[x]
      BY <2>2, <3>1, <3>2, Zenon DEF serviceChange
    <3> QED
      BY <2>2, <3>2 DEF ChangesOK, ObjectsOK
  <2> QED
    BY <2>2, <2>3, <2>4 DEF ObjectsOK, TaskShape
<1>2. CASE EndpointsCallbacks
  BY <1>2, Zenon DEF EndpointsCallbacks, syncVars, ObjectsOK, ChangesOK, TaskShape
<1>3. CASE TakeRequest \/ TimerFires \/ \E h \in Informers : SyncedCallback(h)
  <2>1. UNCHANGED <<svcObj, serviceChanges, changes, task>>
    BY <1>3 DEF SyncedCallback, StoreSynced, LoadOther, StoreInitialized, TakeRequest,
                TimerFires, StartRun, informerVars, lockVars
  <2> QED
    BY <2>1, Zenon DEF ObjectsOK, ChangesOK, TaskShape
<1>4. ASSUME NEW t \in Threads, syncServices(t)
      PROVE  ObjectsOK'
  <2>1. CASE TakeChanges(t)
    <3>1. /\ changes' = [changes EXCEPT ![t] = serviceChanges]
          /\ serviceChanges' = NoChange /\ UNCHANGED <<svcObj, task>>
      BY <2>1 DEF TakeChanges, informerVars, lockVars
    <3>2. ChangesOK(serviceChanges')
      BY <3>1 DEF ChangesOK, NoChange
    <3>3. DOMAIN changes' = Threads /\ \A u \in Threads : ChangesOK(changes'[u])
      BY <3>1 DEF ObjectsOK
    <3> QED
      BY <3>1, <3>2, <3>3 DEF ObjectsOK, TaskShape
  <2>2. ASSUME NEW n \in Names, NextChange(t, n)
        PROVE  ObjectsOK'
    <3> DEFINE change == changes[t][n]
    <3>1. /\ n \in DOMAIN changes[t]
          /\ task' = [task EXCEPT !.name = n, !.current = change.current,
                                  !.merge = portsOf(change.current),
                                  !.unmerge = portsToUnmerge(change)]
          /\ changes' = [changes EXCEPT ![t] =
                            Restrict(changes[t], DOMAIN changes[t] \ {n})]
          /\ UNCHANGED <<svcObj, serviceChanges>>
      BY <2>2 DEF NextChange, informerVars
    <3>2. DOMAIN changes' = Threads /\ \A u \in Threads : ChangesOK(changes'[u])
      BY <3>1 DEF ObjectsOK, ChangesOK, Restrict
    <3>3. ObjOK(change.current)
      BY <3>1, Zenon DEF ObjectsOK, ChangesOK, TaskShape
    <3>4. portsOf(change.current) # {} => change.current.spec \in ServiceSpecs
      BY <3>3 DEF portsOf, ObjOK
    <3> HIDE DEF change
    <3>5. TaskShape'
      BY <3>1 DEF ObjectsOK, TaskShape, NoTask
    <3>6. /\ task'.merge = portsOf(change.current) /\ task'.name = n
          /\ task'.current = change.current
      BY <3>1 DEF ObjectsOK, TaskShape, NoTask
    <3> QED
      BY <3>1, <3>2, <3>4, <3>5, <3>6, Zenon DEF ObjectsOK, ChangesOK
  <2>3. ASSUME NEW p \in Ports, mergeService(t, p) \/ unmergeService(t, p)
        PROVE  ObjectsOK'
    <3>1. /\ UNCHANGED <<svcObj, serviceChanges, changes>>
          /\ \/ task' = [task EXCEPT !.merge = task.merge \ {p}]
             \/ task' = [task EXCEPT !.unmerge = task.unmerge \ {p}]
      BY <2>3 DEF mergeService, unmergeService, informerVars
    <3>2. /\ TaskShape' /\ task'.name = task.name /\ task'.current = task.current
          /\ task'.merge \subseteq task.merge /\ task'.unmerge \subseteq task.unmerge
      BY <3>1 DEF ObjectsOK, TaskShape, NoTask
    <3> QED
      BY <3>1, <3>2 DEF ObjectsOK, ChangesOK
  <2>4. CASE StartCleanup(t)
    <3>1. /\ UNCHANGED <<svcObj, serviceChanges, changes>>
          /\ task' = [NoTask EXCEPT !.clean = DOMAIN serviceMap]
      BY <2>4 DEF StartCleanup, informerVars
    <3>2. TaskShape' /\ task'.merge = {} /\ task'.unmerge = {}
      BY <3>1 DEF NoTask, TaskShape
    <3> QED
      BY <3>1, <3>2 DEF ObjectsOK, ChangesOK
  <2>5. ASSUME NEW sp \in SvcPort, cleanupStaleStickySessions(t, sp)
        PROVE  ObjectsOK'
    <3>1. /\ UNCHANGED <<svcObj, serviceChanges, changes>>
          /\ task' = [task EXCEPT !.clean = task.clean \ {sp}]
      BY <2>5 DEF cleanupStaleStickySessions, informerVars
    <3>2. /\ TaskShape' /\ task'.name = task.name /\ task'.current = task.current
          /\ task'.merge = task.merge /\ task'.unmerge = task.unmerge
      BY <3>1, Zenon DEF ObjectsOK, TaskShape, NoTask
    <3> QED
      BY <3>1, <3>2 DEF ObjectsOK, ChangesOK
  <2>6. CASE CheckInitialized(t) \/ LockMu(t) \/ UnlockMu(t)
    <3>1. UNCHANGED <<svcObj, serviceChanges, changes, task>>
      BY <2>6, Zenon DEF CheckInitialized, LockMu, UnlockMu, informerVars, lockVars
    <3> QED
      BY <3>1 DEF ObjectsOK, ChangesOK, TaskShape
  <2> QED
    BY <1>4, <2>1, <2>2, <2>3, <2>4, <2>5, <2>6, ZenonT(30) DEF syncServices
<1>5. CASE UNCHANGED allVars
  BY <1>5 DEF allVars, syncVars, ObjectsOK, ChangesOK, TaskShape
<1> QED
  BY <1>1, <1>2, <1>3, <1>4, <1>5, Zenon DEF SyncNext

(* Every step of syncServices is a call LoadBalancer allows, or none.      *)
LEMMA BalancerStep ==
    ASSUME ObjectsOK, [SyncNext]_allVars
    PROVE  [Next]_vars
<1>1. CASE EndpointsCallbacks
  <2>1. Callbacks
    BY <1>1 DEF EndpointsCallbacks, Callbacks
  <2> QED
    BY <2>1 DEF Next
<1>2. CASE ServiceCallbacks \/ TakeRequest \/ TimerFires
           \/ \E h \in Informers : SyncedCallback(h)
  <2>1. UNCHANGED vars
    BY <1>2, ZenonT(30) DEF ServiceCallbacks, OnServiceAdd, OnServiceUpdate, OnServiceResync,
                OnServiceDelete, serviceChange, SyncedCallback, StoreSynced, LoadOther,
                StoreInitialized, TakeRequest, TimerFires, StartRun
  <2> QED
    BY <2>1, SMTT(20)
<1>3. ASSUME NEW t \in Threads, syncServices(t)
      PROVE  [Next]_vars
  <2>1. ASSUME NEW p \in Ports, mergeService(t, p)
        PROVE  [Next]_vars
    <3> DEFINE sp == <<task.name, p>>
               info == newInfo(task.current)
    <3>1. /\ p \in task.merge
          /\ \/ UNCHANGED vars
             \/ NewService(sp, info.sessionAffinityType, info.stickyMaxAgeSeconds)
      BY <2>1 DEF mergeService
    <3>2. task.name \in Names /\ task.current.spec \in ServiceSpecs
      BY <3>1 DEF ObjectsOK
    <3>3. sp \in SvcPort
      BY <3>2 DEF SvcPort
    <3>4. /\ info.sessionAffinityType \in {"None", "ClientIP"}
          /\ info.stickyMaxAgeSeconds \in Ttls \cup {0}
          /\ info.sessionAffinityType = "None" <=> info.stickyMaxAgeSeconds = 0
      BY <3>2, InfoFits
    <3> HIDE DEF sp, info
    <3>5. NewService(sp, info.sessionAffinityType, info.stickyMaxAgeSeconds) => Calls
      BY <3>3, <3>4 DEF Calls
    <3> QED
      BY <3>1, <3>5 DEF Next
  <2>2. ASSUME NEW p \in Ports, unmergeService(t, p)
        PROVE  [Next]_vars
    <3>1. /\ p \in task.unmerge
          /\ UNCHANGED vars \/ DeleteService(<<task.name, p>>)
      BY <2>2, Zenon DEF unmergeService
    <3>2. <<task.name, p>> \in SvcPort
      BY <3>1 DEF ObjectsOK, SvcPort
    <3> QED
      BY <3>1, <3>2 DEF Next, Calls
  <2>3. ASSUME NEW sp \in SvcPort, cleanupStaleStickySessions(t, sp)
        PROVE  [Next]_vars
    BY <2>3 DEF cleanupStaleStickySessions, Next, Calls
  <2>4. CASE \/ CheckInitialized(t) \/ TakeChanges(t) \/ LockMu(t) \/ StartCleanup(t)
             \/ UnlockMu(t) \/ \E n \in Names : NextChange(t, n)
    BY <2>4, Zenon DEF CheckInitialized, TakeChanges, LockMu, StartCleanup, UnlockMu, NextChange
  <2> QED
    BY <1>3, <2>1, <2>2, <2>3, <2>4 DEF syncServices
<1>4. CASE UNCHANGED allVars
  BY <1>4, Zenon DEF allVars
<1> QED
  BY <1>1, <1>2, <1>3, <1>4 DEF SyncNext

LEMMA ObjectsInvariance == SyncSpec => []ObjectsOK
<1>1. SyncInit => ObjectsOK
  BY DEF SyncInit, ObjectsOK, ObjOK, ChangesOK, NoChange, NoTask, TaskShape
<1>2. ObjectsOK /\ [SyncNext]_allVars => ObjectsOK'
  BY ObjectsStep
<1> QED
  BY <1>1, <1>2, PTL DEF SyncSpec

(* The gateway's load balancer, with three goroutines that merge Service   *)
(* changes into it, implements LoadBalancer.                               *)
THEOREM SyncRefines == SyncSpec => IsBalancer
<1>1. SyncInit => Init
  BY DEF SyncInit
<1>2. ObjectsOK /\ [SyncNext]_allVars => [Next]_vars
  BY BalancerStep
<1> QED
  BY <1>1, <1>2, ObjectsInvariance, PTL DEF SyncSpec, IsBalancer, Spec

-----------------------------------------------------------------------------
(* Chains of changes.  P are the runs that have taken a change of a        *)
(* Service and not yet merged it, chg is their change, order says which    *)
(* took it before which, R is the change recorded since (a set of at most  *)
(* one), obj the object the informer holds, and b the one merged last.     *)

(* x is what the changes of the runs S lead to.                            *)
After(chg, order, S, b, x) ==
    /\ S = {} => x = b
    /\ \A u \in S : (\A v \in S \ {u} : <<v, u>> \in order) => x = chg[u].current

(* Each change starts where the one before it ended, from b to obj.        *)
Linked(P, chg, order, R, obj, b) ==
    /\ \A t \in P : After(chg, order, {u \in P : <<u, t>> \in order}, b, chg[t].previous)
    /\ \A c \in R : After(chg, order, P, b, c.previous) /\ c.current = obj
    /\ R = {} => After(chg, order, P, b, obj)

LEMMA AfterSame ==
    ASSUME NEW chg, NEW chg2, NEW order, NEW order2, NEW S, NEW b, NEW x,
           \A t \in S : chg2[t] = chg[t],
           \A t, u \in S : <<u, t>> \in order2 <=> <<u, t>> \in order,
           After(chg, order, S, b, x)
    PROVE  After(chg2, order2, S, b, x)
<1>1. ASSUME NEW u \in S, \A v \in S \ {u} : <<v, u>> \in order2
      PROVE  x = chg2[u].current
  <2>1. \A v \in S \ {u} : <<v, u>> \in order
    BY <1>1
  <2>2. x = chg[u].current
    BY <2>1, Zenon DEF After
  <2> QED
    BY <2>2, Zenon
<1> QED
  BY <1>1, Zenon DEF After

LEMMA LinkedSame ==
    ASSUME NEW P, NEW chg, NEW chg2, NEW order, NEW order2, NEW R, NEW obj, NEW b,
           \A t \in P : chg2[t] = chg[t],
           \A t, u \in P : <<u, t>> \in order2 <=> <<u, t>> \in order,
           Linked(P, chg, order, R, obj, b)
    PROVE  Linked(P, chg2, order2, R, obj, b)
<1>1. ASSUME NEW x, After(chg, order, P, b, x) PROVE After(chg2, order2, P, b, x)
  BY <1>1, AfterSame
<1>2. ASSUME NEW t \in P
      PROVE  After(chg2, order2, {u \in P : <<u, t>> \in order2}, b, chg2[t].previous)
  <2> DEFINE S == {u \in P : <<u, t>> \in order}
  <2>1. {u \in P : <<u, t>> \in order2} = S /\ chg2[t].previous = chg[t].previous
    OBVIOUS
  <2>2. After(chg, order, S, b, chg[t].previous)
    BY Zenon DEF Linked
  <2>3. S \subseteq P
    OBVIOUS
  <2> HIDE DEF S
  <2>4. After(chg2, order2, S, b, chg[t].previous)
    BY <2>2, <2>3, AfterSame, Zenon
  <2> QED
    BY <2>1, <2>4, Zenon
<1> QED
  BY <1>1, <1>2, Zenon DEF Linked

(* serviceChange: the oldest previous object is kept, and a change that    *)
(* leads back to it is dropped.                                            *)
LEMMA LinkedRecord ==
    ASSUME NEW P, NEW chg, NEW order, NEW R, NEW obj, NEW b,
           Linked(P, chg, order, R, obj, b),
           NEW prev, NEW cur, \A c \in R : prev = c.previous, R = {} => prev = obj,
           NEW R2, prev # cur => R2 = {[previous |-> prev, current |-> cur]},
           prev = cur => R2 = {}
    PROVE  Linked(P, chg, order, R2, cur, b)
<1>1. After(chg, order, P, b, prev)
  BY Zenon DEF Linked
<1>2. CASE prev = cur
  BY <1>1, <1>2, Zenon DEF Linked
<1>3. CASE prev # cur
  <2>1. \A c \in R2 : c.previous = prev /\ c.current = cur
    BY <1>3
  <2>2. R2 # {}
    BY <1>3, Zenon
  <2> QED
    BY <1>1, <2>1, <2>2, Zenon DEF Linked
<1> QED
  BY <1>2, <1>3

(* A run takes the recorded change: it comes after all others.             *)
LEMMA LinkedTake ==
    ASSUME NEW P, NEW chg, NEW chg2, NEW order, NEW order2, NEW obj, NEW b, NEW c, NEW t,
           t \notin P, Linked(P, chg, order, {c}, obj, b),
           chg2[t] = c, \A u \in P : chg2[u] = chg[u],
           \A u, v \in P : <<u, v>> \in order2 <=> <<u, v>> \in order,
           \A u \in P : <<u, t>> \in order2 /\ <<t, u>> \notin order2,
           <<t, t>> \notin order2
    PROVE  Linked(P \cup {t}, chg2, order2, {}, obj, b)
<1> DEFINE P2 == P \cup {t}
<1>1. Linked(P, chg2, order2, {c}, obj, b)
  BY LinkedSame
<1>2. ASSUME NEW u \in P
      PROVE  After(chg2, order2, {v \in P2 : <<v, u>> \in order2}, b, chg2[u].previous)
  <2>1. {v \in P2 : <<v, u>> \in order2} = {v \in P : <<v, u>> \in order2}
    BY Zenon
  <2> QED
    BY <1>1, <2>1, Zenon DEF Linked
<1>3. After(chg2, order2, {v \in P2 : <<v, t>> \in order2}, b, chg2[t].previous)
  <2>1. {v \in P2 : <<v, t>> \in order2} = P
    BY Zenon
  <2>2. After(chg2, order2, P, b, c.previous)
    BY <1>1, Zenon DEF Linked
  <2> QED
    BY <2>1, <2>2, Zenon
<1>4. After(chg2, order2, P2, b, obj)
  <2>1. ASSUME NEW u \in P2, \A v \in P2 \ {u} : <<v, u>> \in order2
        PROVE  u = t
    BY <2>1, Zenon
  <2>2. obj = chg2[t].current
    BY <1>1, Zenon DEF Linked
  <2>3. P2 # {}
    OBVIOUS
  <2> HIDE DEF P2
  <2> QED
    BY <2>1, <2>2, <2>3, Zenon DEF After
<1> QED
  BY <1>2, <1>3, <1>4, Zenon DEF Linked

(* The oldest change is merged: it starts from b, and what it leads to is  *)
(* what is merged then.                                                    *)
LEMMA LinkedMerge ==
    ASSUME NEW P, NEW chg, NEW chg2, NEW order, NEW R, NEW obj, NEW b, NEW t \in P,
           Linked(P, chg, order, R, obj, b),
           \A u \in P \ {t} : <<t, u>> \in order /\ chg2[u] = chg[u],
           \A u \in P : <<u, t>> \notin order
    PROVE  /\ chg[t].previous = b
           /\ Linked(P \ {t}, chg2, order, R, obj, chg[t].current)
<1> DEFINE P2 == P \ {t}
           b2 == chg[t].current
<1>1. chg[t].previous = b
  <2>1. {u \in P : <<u, t>> \in order} = {}
    OBVIOUS
  <2>2. After(chg, order, {}, b, chg[t].previous)
    BY <2>1, Zenon DEF Linked
  <2> QED
    BY <2>2, Zenon DEF After
<1>2. ASSUME NEW S \in SUBSET P, t \in S, NEW x, After(chg, order, S, b, x)
      PROVE  After(chg2, order, S \ {t}, b2, x)
  <2>1. ASSUME S \ {t} = {} PROVE x = b2
    <3>1. \A v \in S \ {t} : <<v, t>> \in order
      BY <2>1
    <3> QED
      BY <1>2, <3>1, Zenon DEF After
  <2>2. ASSUME NEW u \in S \ {t}, \A v \in (S \ {t}) \ {u} : <<v, u>> \in order
        PROVE  x = chg2[u].current
    <3>1. \A v \in S \ {u} : <<v, u>> \in order
      BY <1>2, <2>2, Zenon
    <3>2. x = chg[u].current
      BY <1>2, <3>1 DEF After
    <3> QED
      BY <3>2, Zenon
  <2> QED
    BY <2>1, <2>2, Zenon DEF After
<1>3. ASSUME NEW u \in P2
      PROVE  After(chg2, order, {v \in P2 : <<v, u>> \in order}, b2, chg2[u].previous)
  <2> DEFINE S == {v \in P : <<v, u>> \in order}
  <2>1. S \in SUBSET P /\ t \in S /\ {v \in P2 : <<v, u>> \in order} = S \ {t}
    OBVIOUS
  <2>2. After(chg, order, S, b, chg[u].previous)
    BY Zenon DEF Linked
  <2>3. chg2[u].previous = chg[u].previous
    BY Zenon
  <2> HIDE DEF S
  <2>4. After(chg2, order, S \ {t}, b2, chg[u].previous)
    BY <1>2, <2>1, <2>2, Zenon
  <2> QED
    BY <2>1, <2>3, <2>4, Zenon
<1>4. ASSUME NEW x, After(chg, order, P, b, x) PROVE After(chg2, order, P2, b2, x)
  BY <1>2, <1>4
<1>5. Linked(P2, chg2, order, R, obj, b2)
  <2> HIDE DEF P2, b2
  <2> QED
    BY <1>3, <1>4, Zenon DEF Linked
<1> QED
  BY <1>1, <1>5, Zenon

-----------------------------------------------------------------------------
(* Where the runs of syncServices are.                                     *)

(* A run has changes only between taking and merging them, only the holder *)
(* of lb.mu merges, and of two runs that wait for it one came first.       *)
ThreadInv ==
    /\ pc \in [Threads -> {"idle", "start", "take", "lock", "merge", "cleanup"}]
    /\ \A t \in Threads : pc[t] \in {"merge", "cleanup"} <=> mu = t
    /\ \A t \in Threads : pc[t] \notin {"lock", "merge"} => DOMAIN changes[t] = {}
    /\ (\A t \in Threads : pc[t] # "merge") => TaskDone
    /\ DOMAIN ahead = Threads
    /\ \A t \in Threads : pc[t] # "lock" => ahead[t] = {}
    /\ \A t \in Threads : ahead[t] \subseteq {u \in Threads \ {t} : pc[u] = "lock"}
    /\ \A t, u \in Threads : t # u /\ pc[t] = "lock" /\ pc[u] = "lock"
                               => t \in ahead[u] \/ u \in ahead[t]

(* The goroutine of a Synced callback starts when that is done.            *)
StartedOnce ==
    /\ DOMAIN handler = Informers
    /\ \A h \in Informers : handler[h] # "done" => pc[h] = "idle"

(* A run starts or gives up: nothing else changes.                         *)
LEMMA ThreadsKept ==
    ASSUME ThreadInv, NEW t \in Threads, NEW label \in {"idle", "start", "take"},
           pc[t] \in {"idle", "start"}, pc' = [pc EXCEPT ![t] = label],
           UNCHANGED <<changes, mu, task, ahead>>
    PROVE  ThreadInv'
<1>1. pc' \in [Threads -> {"idle", "start", "take", "lock", "merge", "cleanup"}]
  BY Zenon DEF ThreadInv
<1>2. \A u \in Threads : \/ pc'[u] = pc[u]
                         \/ pc[u] \in {"idle", "start"} /\ pc'[u] \in {"idle", "start", "take"}
  BY DEF ThreadInv
<1>3. \A u \in Threads : /\ pc'[u] = "lock" <=> pc[u] = "lock"
                         /\ pc'[u] = "merge" <=> pc[u] = "merge"
                         /\ pc'[u] = "cleanup" <=> pc[u] = "cleanup"
  BY <1>2
<1>4. /\ \A u \in Threads : pc'[u] \in {"merge", "cleanup"} <=> mu' = u
      /\ \A u \in Threads : pc'[u] \notin {"lock", "merge"} => DOMAIN changes'[u] = {}
  BY <1>3, Zenon DEF ThreadInv
<1>5. (\A u \in Threads : pc'[u] # "merge") => TaskDone'
  BY <1>3, Zenon DEF ThreadInv, TaskDone
<1>6. /\ \A u \in Threads : ahead'[u] \subseteq {v \in Threads \ {u} : pc'[v] = "lock"}
      /\ \A u \in Threads : pc'[u] # "lock" => ahead'[u] = {}
  BY <1>3 DEF ThreadInv
<1>7. \A v, u \in Threads : v # u /\ pc'[v] = "lock" /\ pc'[u] = "lock"
                              => v \in ahead'[u] \/ u \in ahead'[v]
  BY <1>3, Zenon DEF ThreadInv
<1> QED
  BY <1>1, <1>4, <1>5, <1>6, <1>7, ZenonT(30) DEF ThreadInv

LEMMA StartedStep ==
    ASSUME HandshakeOK, StartedOnce, ThreadInv, [SyncNext]_allVars
    PROVE  StartedOnce'
<1>1. CASE UNCHANGED <<handler, pc>>
  BY <1>1 DEF StartedOnce
<1>2. CASE ServiceCallbacks \/ EndpointsCallbacks \/ UNCHANGED allVars
  <2>1. UNCHANGED <<handler, pc>>
    BY <1>2, ZenonT(30) DEF ServiceCallbacks, OnServiceAdd, OnServiceUpdate, OnServiceResync,
                OnServiceDelete, serviceChange, EndpointsCallbacks, allVars, syncVars,
                handshakeVars
  <2> QED
    BY <1>1, <2>1
<1>3. ASSUME NEW h \in Informers, SyncedCallback(h) PROVE StartedOnce'
  <2>1. \/ pc' = pc /\ \E label : handler' = [handler EXCEPT ![h] = label]
        \/ pc' = [pc EXCEPT ![h] = "start"] /\ handler' = [handler EXCEPT ![h] = "done"]
    BY <1>3, Zenon DEF SyncedCallback, StoreSynced, LoadOther, StoreInitialized
  <2>2. handler[h] # "done"
    BY <1>3 DEF SyncedCallback, StoreSynced, LoadOther, StoreInitialized
  <2> QED
    BY <2>1, <2>2 DEF StartedOnce, ThreadInv, Threads
<1>4. CASE TakeRequest \/ TimerFires
  <2>1. handler' = handler /\ (pc' = pc \/ pc' = [pc EXCEPT !["runner"] = "start"])
    BY <1>4 DEF TakeRequest, TimerFires, StartRun, handshakeVars
  <2>2. \A h \in Informers : h # "runner"
    BY DEF Informers
  <2>3. \A h \in Informers : h \in DOMAIN pc
    BY DEF ThreadInv, Threads
  <2>4. \A h \in Informers : pc'[h] = pc[h]
    BY <2>1, <2>2, <2>3
  <2> QED
    BY <2>1, <2>4, Zenon DEF StartedOnce
<1>5. ASSUME NEW t \in Threads, syncServices(t) PROVE StartedOnce'
  <2>1. UNCHANGED handler /\ (pc' = pc \/ \E label : pc' = [pc EXCEPT ![t] = label])
    BY <1>5, Zenon DEF syncServices, CheckInitialized, TakeChanges, LockMu, NextChange,
                mergeService, unmergeService, StartCleanup, cleanupStaleStickySessions,
                UnlockMu, handshakeVars
  <2>2. pc[t] # "idle"
    BY <1>5, Zenon DEF syncServices, CheckInitialized, TakeChanges, LockMu, NextChange,
                mergeService, unmergeService, StartCleanup, cleanupStaleStickySessions,
                UnlockMu
  <2>3. \A h \in Informers : h \in DOMAIN pc
    BY DEF ThreadInv, Threads
  <2>4. \A h \in Informers : h # t => pc'[h] = pc[h]
    BY <2>1, <2>3
  <2> QED
    BY <2>1, <2>2, <2>4, Zenon DEF StartedOnce
<1> QED
  BY <1>2, <1>3, <1>4, <1>5, Zenon DEF SyncNext

LEMMA ThreadStep ==
    ASSUME ObjectsOK, StartedOnce, ThreadInv, [SyncNext]_allVars
    PROVE  ThreadInv'
<1>1. CASE UNCHANGED <<pc, changes, mu, task, ahead>>
  BY <1>1 DEF ThreadInv, TaskDone
<1>2. CASE ServiceCallbacks \/ EndpointsCallbacks \/ UNCHANGED allVars
  <2>1. UNCHANGED <<pc, changes, mu, task, ahead>>
    BY <1>2, ZenonT(30) DEF ServiceCallbacks, OnServiceAdd, OnServiceUpdate, OnServiceResync,
                OnServiceDelete, serviceChange, EndpointsCallbacks, allVars, syncVars, lockVars,
                historyVars
  <2> QED
    BY <1>1, <2>1
<1>3. ASSUME NEW h \in Informers, SyncedCallback(h) PROVE ThreadInv'
  <2>1. /\ UNCHANGED <<changes, mu, task, ahead>>
        /\ pc' = pc \/ pc' = [pc EXCEPT ![h] = "start"]
    BY <1>3, Zenon DEF SyncedCallback, StoreSynced, LoadOther, StoreInitialized, lockVars,
                       historyVars
  <2>2. pc[h] = "idle" /\ h \in Threads
    BY <1>3 DEF SyncedCallback, StoreSynced, LoadOther, StoreInitialized, StartedOnce, Threads
  <2> QED
    BY <1>1, <2>1, <2>2, ThreadsKept
<1>4. CASE TakeRequest \/ TimerFires
  <2>1. /\ UNCHANGED <<changes, mu, task, ahead>>
        /\ pc' = pc \/ pc' = [pc EXCEPT !["runner"] = "start"]
        /\ pc["runner"] = "idle" /\ "runner" \in Threads
    BY <1>4 DEF TakeRequest, TimerFires, StartRun, lockVars, historyVars, Threads
  <2> QED
    BY <1>1, <2>1, ThreadsKept, Zenon
<1>5. ASSUME NEW t \in Threads, CheckInitialized(t) PROVE ThreadInv'
  <2>1. /\ UNCHANGED <<changes, mu, task, ahead>> /\ pc[t] = "start"
        /\ pc' = [pc EXCEPT ![t] = "take"] \/ pc' = [pc EXCEPT ![t] = "idle"]
    BY <1>5, Zenon DEF CheckInitialized, lockVars, historyVars
  <2> QED
    BY <2>1, ThreadsKept
<1>6. ASSUME NEW t \in Threads, TakeChanges(t) PROVE ThreadInv'
  <2>1. /\ pc[t] = "take" /\ changes' = [changes EXCEPT ![t] = serviceChanges]
        /\ pc' = [pc EXCEPT ![t] = "lock"]
        /\ ahead' = [ahead EXCEPT ![t] = {u \in Threads : pc[u] = "lock"}]
        /\ UNCHANGED <<mu, task>>
    BY <1>6, Zenon DEF TakeChanges, lockVars
  <2>2. /\ pc' \in [Threads -> {"idle", "start", "take", "lock", "merge", "cleanup"}]
        /\ pc'[t] = "lock" /\ \A u \in Threads \ {t} : pc'[u] = pc[u]
    BY <2>1, Zenon DEF ThreadInv
  <2>3. \A u \in Threads \ {t} : changes'[u] = changes[u]
    BY <2>1, Zenon DEF ObjectsOK
  <2>4. /\ DOMAIN ahead' = Threads /\ ahead'[t] = {u \in Threads : pc[u] = "lock"}
        /\ \A u \in Threads \ {t} : ahead'[u] = ahead[u]
    BY <2>1, Zenon DEF ThreadInv
  <2>5. \A u \in Threads : pc'[u] \in {"merge", "cleanup"} <=> mu' = u
    BY <2>1, <2>2 DEF ThreadInv
  <2>6. \A u \in Threads : pc'[u] \notin {"lock", "merge"} => DOMAIN changes'[u] = {}
    BY <2>2, <2>3, Zenon DEF ThreadInv
  <2>7. (\A u \in Threads : pc'[u] # "merge") => TaskDone'
    BY <2>1, <2>2, Zenon DEF ThreadInv, TaskDone
  <2>8. \A u \in Threads : ahead'[u] \subseteq {v \in Threads \ {u} : pc'[v] = "lock"}
    <3>1. ahead'[t] \subseteq {v \in Threads \ {t} : pc'[v] = "lock"}
      BY <2>1, <2>2, <2>4, Zenon
    <3>2. ASSUME NEW u \in Threads \ {t}
          PROVE  ahead'[u] \subseteq {v \in Threads \ {u} : pc'[v] = "lock"}
      BY <2>2, <2>4, Zenon DEF ThreadInv
    <3> QED
      BY <3>1, <3>2, Zenon
  <2>9. ASSUME NEW v \in Threads, NEW u \in Threads, v # u, pc'[v] = "lock", pc'[u] = "lock"
        PROVE  v \in ahead'[u] \/ u \in ahead'[v]
    <3>1. CASE v # t /\ u # t
      <4>1. pc[v] = "lock" /\ pc[u] = "lock" /\ ahead'[v] = ahead[v] /\ ahead'[u] = ahead[u]
        BY <2>2, <2>4, <2>9, <3>1, ZenonT(30)
      <4> QED
        BY <2>9, <4>1, Zenon DEF ThreadInv
    <3>2. CASE v = t
      BY <2>2, <2>4, <2>9, <3>2, ZenonT(30)
    <3>3. CASE u = t
      BY <2>2, <2>4, <2>9, <3>3
    <3> QED
      BY <3>1, <3>2, <3>3
  <2>10. \A u \in Threads : pc'[u] # "lock" => ahead'[u] = {}
    BY <2>2, <2>4, Zenon DEF ThreadInv
  <2> QED
    BY <2>2, <2>4, <2>5, <2>6, <2>7, <2>8, <2>9, <2>10, ZenonT(30) DEF ThreadInv
<1>7. ASSUME NEW t \in Threads, LockMu(t) PROVE ThreadInv'
  <2>1. /\ pc[t] = "lock" /\ mu = Nil /\ mu' = t
        /\ pc' = [pc EXCEPT ![t] = "merge"]
        /\ ahead' = [u \in Threads |-> IF u = t THEN {} ELSE ahead[u] \ {t}]
        /\ UNCHANGED <<changes, task>>
    BY <1>7, Zenon DEF LockMu
  <2>2. /\ pc' \in [Threads -> {"idle", "start", "take", "lock", "merge", "cleanup"}]
        /\ pc'[t] = "merge" /\ \A u \in Threads \ {t} : pc'[u] = pc[u]
    BY <2>1, Zenon DEF ThreadInv
  <2>3. /\ DOMAIN ahead' = Threads /\ ahead'[t] = {}
        /\ \A u \in Threads \ {t} : ahead'[u] = ahead[u] \ {t}
    BY <2>1
  <2>4. \A u \in Threads : u # Nil
    BY SyncAssumption, Zenon
  <2>5. \A u \in Threads : pc'[u] \in {"merge", "cleanup"} <=> mu' = u
    BY <2>1, <2>2, <2>4 DEF ThreadInv
  <2>6. \A u \in Threads : pc'[u] \notin {"lock", "merge"} => DOMAIN changes'[u] = {}
    BY <2>1, <2>2, Zenon DEF ThreadInv
  <2>7. \A u \in Threads : ahead'[u] \subseteq {v \in Threads \ {u} : pc'[v] = "lock"}
    BY <2>2, <2>3 DEF ThreadInv
  <2>8. ASSUME NEW v \in Threads, NEW u \in Threads, v # u, pc'[v] = "lock", pc'[u] = "lock"
        PROVE  v \in ahead'[u] \/ u \in ahead'[v]
    <3>1. v # t /\ u # t
      BY <2>2, <2>8
    <3>2. v \in ahead[u] \/ u \in ahead[v]
      BY <2>2, <2>8, <3>1, Zenon DEF ThreadInv
    <3> QED
      BY <2>3, <3>1, <3>2, Zenon
  <2>9. \A u \in Threads : pc'[u] # "lock" => ahead'[u] = {}
    BY <2>2, <2>3 DEF ThreadInv
  <2> QED
    BY <2>2, <2>3, <2>5, <2>6, <2>7, <2>8, <2>9, ZenonT(30) DEF ThreadInv
<1>8. ASSUME NEW t \in Threads,
             \/ \E n \in Names : NextChange(t, n)
             \/ \E p \in Ports : mergeService(t, p) \/ unmergeService(t, p)
      PROVE  ThreadInv'
  <2>1. pc[t] = "merge" /\ UNCHANGED <<pc, mu, ahead>>
    BY <1>8, Zenon DEF NextChange, mergeService, unmergeService, historyVars
  <2>2. \A u \in Threads \ {t} : changes'[u] = changes[u]
    BY <1>8, Zenon DEF NextChange, mergeService, unmergeService, ObjectsOK
  <2>3. \A u \in Threads : pc'[u] \notin {"lock", "merge"} => DOMAIN changes'[u] = {}
    BY <2>1, <2>2, ZenonT(30) DEF ThreadInv
  <2> QED
    BY <2>1, <2>3, Zenon DEF ThreadInv
<1>9. ASSUME NEW t \in Threads,
             StartCleanup(t) \/ \E sp \in SvcPort : cleanupStaleStickySessions(t, sp)
      PROVE  ThreadInv'
  <2>1. /\ pc[t] \in {"merge", "cleanup"} /\ pc' = [pc EXCEPT ![t] = "cleanup"]
        /\ UNCHANGED <<changes, mu, ahead>>
    <3>1. CASE StartCleanup(t)
      BY <3>1 DEF StartCleanup, historyVars
    <3>2. ASSUME NEW sp \in SvcPort, cleanupStaleStickySessions(t, sp)
          PROVE  pc[t] = "cleanup" /\ UNCHANGED <<pc, changes, mu, ahead>>
      BY <3>2, Zenon DEF cleanupStaleStickySessions, historyVars
    <3> QED
      BY <1>9, <3>1, <3>2 DEF ThreadInv
  <2>2. /\ pc' \in [Threads -> {"idle", "start", "take", "lock", "merge", "cleanup"}]
        /\ pc'[t] = "cleanup" /\ \A u \in Threads \ {t} : pc'[u] = pc[u]
    BY <2>1 DEF ThreadInv
  <2>3. \A u \in Threads : pc'[u] = "lock" <=> pc[u] = "lock"
    BY <2>1, <2>2, Zenon
  <2>4. \A u \in Threads : pc'[u] \in {"merge", "cleanup"} <=> mu' = u
    BY <2>1, <2>2, Zenon DEF ThreadInv
  <2>5. TaskDone' /\ DOMAIN changes[t] = {}
    <3>1. CASE StartCleanup(t)
      BY <3>1 DEF StartCleanup, TaskDone, NoTask
    <3>2. ASSUME NEW sp \in SvcPort, cleanupStaleStickySessions(t, sp)
          PROVE  TaskDone' /\ DOMAIN changes[t] = {}
      <4>1. pc[t] = "cleanup" /\ task' = [task EXCEPT !.clean = task.clean \ {sp}]
        BY <3>2 DEF cleanupStaleStickySessions
      <4>2. task'.merge = task.merge /\ task'.unmerge = task.unmerge
        BY <4>1 DEF ObjectsOK, TaskShape, NoTask
      <4>3. \A u \in Threads : pc[u] # "merge"
        BY <4>1 DEF ThreadInv
      <4> QED
        BY <4>1, <4>2, <4>3, Zenon DEF ThreadInv, TaskDone
    <3> QED
      BY <1>9, <3>1, <3>2
  <2>6. \A u \in Threads : pc'[u] \notin {"lock", "merge"} => DOMAIN changes'[u] = {}
    BY <2>1, <2>2, <2>5, Zenon DEF ThreadInv
  <2>7. /\ \A u \in Threads : ahead'[u] \subseteq {v \in Threads \ {u} : pc'[v] = "lock"}
        /\ \A u \in Threads : pc'[u] # "lock" => ahead'[u] = {}
    BY <2>1, <2>3 DEF ThreadInv
  <2>8. \A v, u \in Threads : v # u /\ pc'[v] = "lock" /\ pc'[u] = "lock"
                                => v \in ahead'[u] \/ u \in ahead'[v]
    BY <2>1, <2>3, Zenon DEF ThreadInv
  <2> QED
    BY <2>1, <2>2, <2>4, <2>5, <2>6, <2>7, <2>8, ZenonT(30) DEF ThreadInv
<1>10. ASSUME NEW t \in Threads, UnlockMu(t) PROVE ThreadInv'
  <2>1. /\ pc[t] = "cleanup" /\ pc' = [pc EXCEPT ![t] = "idle"] /\ mu' = Nil
        /\ UNCHANGED <<changes, task, ahead>>
    BY <1>10, Zenon DEF UnlockMu, historyVars
  <2>2. /\ pc' \in [Threads -> {"idle", "start", "take", "lock", "merge", "cleanup"}]
        /\ pc'[t] = "idle" /\ \A u \in Threads \ {t} : pc'[u] = pc[u]
    BY <2>1 DEF ThreadInv
  <2>3. \A u \in Threads : /\ pc'[u] = "lock" <=> pc[u] = "lock"
                           /\ pc'[u] = "merge" <=> pc[u] = "merge"
    BY <2>1, <2>2, Zenon
  <2>4. mu = t /\ Nil \notin Threads
    BY <2>1, SyncAssumption, Zenon DEF ThreadInv
  <2>5. \A u \in Threads : pc'[u] \in {"merge", "cleanup"} <=> mu' = u
    BY <2>1, <2>2, <2>4 DEF ThreadInv
  <2>6. \A u \in Threads : pc'[u] \notin {"lock", "merge"} => DOMAIN changes'[u] = {}
    BY <2>1, <2>3, Zenon DEF ThreadInv
  <2>7. (\A u \in Threads : pc'[u] # "merge") => TaskDone'
    BY <2>1, <2>3, Zenon DEF ThreadInv, TaskDone
  <2>8. /\ \A u \in Threads : ahead'[u] \subseteq {v \in Threads \ {u} : pc'[v] = "lock"}
        /\ \A u \in Threads : pc'[u] # "lock" => ahead'[u] = {}
    BY <2>1, <2>3 DEF ThreadInv
  <2>9. \A v, u \in Threads : v # u /\ pc'[v] = "lock" /\ pc'[u] = "lock"
                                => v \in ahead'[u] \/ u \in ahead'[v]
    BY <2>1, <2>3, Zenon DEF ThreadInv
  <2> QED
    BY <2>1, <2>2, <2>5, <2>6, <2>7, <2>8, <2>9, ZenonT(30) DEF ThreadInv
<1> QED
  BY <1>2, <1>3, <1>4, <1>5, <1>6, <1>7, <1>8, <1>9, <1>10, ZenonT(30) DEF SyncNext, syncServices

LEMMA ThreadInvariance == SyncSpec => [](HandshakeOK /\ ObjectsOK /\ StartedOnce /\ ThreadInv)
<1>1. SyncInit => StartedOnce /\ ThreadInv
  <2> SUFFICES ASSUME SyncInit PROVE StartedOnce /\ ThreadInv
    OBVIOUS
  <2>1. /\ pc = [t \in Threads |-> "idle"] /\ ahead = [t \in Threads |-> {}] /\ mu = Nil
        /\ changes = [t \in Threads |-> NoChange] /\ task = NoTask
        /\ handler = [h \in Informers |-> "waiting"]
    BY DEF SyncInit
  <2>2. Nil \notin Threads /\ DOMAIN NoChange = {} /\ Informers \subseteq Threads
    BY SyncAssumption, Zenon DEF NoChange, Threads
  <2>3. TaskDone
    BY <2>1 DEF TaskDone, NoTask
  <2> QED
    BY <2>1, <2>2, <2>3 DEF StartedOnce, ThreadInv
<1> QED
  BY <1>1, HandshakeInvariance, ObjectsInvariance, StartedStep, ThreadStep, PTL DEF SyncSpec

-----------------------------------------------------------------------------
(* What is merged, and what is still to be.                                *)

(* The runs that have a change of n, their changes, who took changes       *)
(* before whom (the holder of lb.mu before all who wait), and the change   *)
(* of n that is recorded.                                                  *)
Pending(n) == {t \in Threads : n \in DOMAIN changes[t]}
Chg(n) == [t \in Pending(n) |-> changes[t][n]]
TakenBefore ==
    {x \in Threads \X Threads : x[1] # x[2] /\ (mu = x[1] \/ x[1] \in ahead[x[2]])}
Recorded(n) == {serviceChanges[m] : m \in DOMAIN serviceChanges \cap {n}}

NameLinked(n, b) == Linked(Pending(n), Chg(n), TakenBefore, Recorded(n), svcObj[n], b)

(* lb.serviceMap has the ports of the object b that was merged last, but   *)
(* for those the holder of lb.mu has yet to treat.                         *)
PortMerged(n, p, b) ==
    IF n = task.name /\ p \in task.merge \cup task.unmerge
    THEN p \in task.merge <=> p \in portsOf(b)
    ELSE /\ <<n, p>> \in DOMAIN serviceMap <=> p \in portsOf(b)
         /\ <<n, p>> \in DOMAIN serviceMap => sameConfig(serviceMap[<<n, p>>], b)

TaskOf(base) ==
    /\ task.merge \cap task.unmerge = {}
    /\ task.merge # {} => base[task.name] = task.current

OrderWith(base) ==
    /\ TaskOf(base)
    /\ \A n \in Names, p \in Ports : PortMerged(n, p, base[n])
    /\ \A n \in Names : NameLinked(n, base[n])

(* base gives for every name the object that was merged last.              *)
OrderInv == ~overtaken => \E base : OrderWith(base)

LEMMA LinkedKept ==
    ASSUME NEW n, NEW b, NameLinked(n, b), Pending(n)' = Pending(n),
           \A t \in Pending(n) : changes'[t][n] = changes[t][n],
           \A t, u \in Pending(n) : <<u, t>> \in TakenBefore' <=> <<u, t>> \in TakenBefore,
           Recorded(n)' = Recorded(n), svcObj'[n] = svcObj[n]
    PROVE  NameLinked(n, b)'
<1> DEFINE P == Pending(n)
           chg == Chg(n)
           chg2 == [t \in P |-> changes'[t][n]]
<1>1. Chg(n)' = chg2
  BY Zenon DEF Chg
<1>2. \A t \in P : chg2[t] = chg[t]
  BY Zenon DEF Chg
<1>3. Linked(P, chg, TakenBefore, Recorded(n), svcObj[n], b)
  BY Zenon DEF NameLinked
<1> HIDE DEF P, chg, chg2
<1>4. P = Pending(n)
  BY ZenonT(30) DEF P
<1>5. Linked(P, chg2, TakenBefore', Recorded(n), svcObj[n], b)
  BY <1>2, <1>3, <1>4, LinkedSame, Zenon
<1> QED
  BY <1>1, <1>4, <1>5, Zenon DEF NameLinked

LEMMA CallbackLinks ==
    ASSUME ObjectsOK, NEW n \in Names, NEW current, serviceChange(n, svcObj[n], current),
           NEW m \in Names, NEW b, NameLinked(m, b)
    PROVE  NameLinked(m, b)'
<1>1. /\ UNCHANGED <<changes, mu, ahead>> /\ svcObj' = [svcObj EXCEPT ![n] = current]
  BY Zenon DEF serviceChange, lockVars, historyVars
<1>2. Pending(m)' = Pending(m) /\ Chg(m)' = Chg(m) /\ TakenBefore' = TakenBefore
  BY <1>1, Zenon DEF Pending, Chg, TakenBefore
<1> DEFINE change == recordChange(n, svcObj[n], current)
           effect == change.previous # change.current
<1>3. serviceChanges' =
        [x \in (DOMAIN serviceChanges \ {n}) \cup (IF effect THEN {n} ELSE {}) |->
           IF x = n THEN change ELSE serviceChanges[x]]
  BY Zenon DEF serviceChange
<1>4. CASE m # n
  <2>1. svcObj'[m] = svcObj[m]
    BY <1>1, <1>4, Zenon DEF ObjectsOK
  <2>2. Recorded(m)' = Recorded(m)
    BY <1>3, <1>4, Zenon DEF Recorded
  <2> QED
    BY <1>2, <2>1, <2>2, Zenon DEF NameLinked
<1>5. CASE m = n
  <2> DEFINE prev == IF n \in DOMAIN serviceChanges THEN serviceChanges[n].previous
                     ELSE svcObj[n]
  <2>1. change = [previous |-> prev, current |-> current]
    BY Zenon DEF recordChange
  <2>2. svcObj'[n] = current
    BY <1>1, Zenon DEF ObjectsOK
  <2>3. \A c \in Recorded(n) : prev = c.previous
    BY Zenon DEF Recorded
  <2>4. Recorded(n) = {} => prev = svcObj[n]
    BY Zenon DEF Recorded
  <2>5. change.previous = prev /\ change.current = current
    BY <2>1
  <2> HIDE DEF prev, change
  <2>6. prev # current => Recorded(n)' = {change}
    BY <1>3, <2>5, Zenon DEF Recorded
  <2>7. prev = current => Recorded(n)' = {}
    BY <1>3, <2>5, Zenon DEF Recorded
  <2>8. Linked(Pending(n), Chg(n), TakenBefore, Recorded(n), svcObj[n], b)
    BY <1>5 DEF NameLinked
  <2>9. Linked(Pending(n), Chg(n), TakenBefore, Recorded(n)', current, b)
    BY <2>1, <2>3, <2>4, <2>6, <2>7, <2>8, LinkedRecord, Zenon
  <2> QED
    BY <1>2, <1>5, <2>2, <2>9, Zenon DEF NameLinked
<1> QED
  BY <1>4, <1>5, Zenon

LEMMA TakeLinks ==
    ASSUME ObjectsOK, ThreadInv, NEW t \in Threads, TakeChanges(t),
           NEW n \in Names, NEW b, NameLinked(n, b)
    PROVE  NameLinked(n, b)'
<1>1. /\ pc[t] = "take" /\ changes' = [changes EXCEPT ![t] = serviceChanges]
      /\ serviceChanges' = NoChange
      /\ ahead' = [ahead EXCEPT ![t] = {u \in Threads : pc[u] = "lock"}]
      /\ UNCHANGED <<mu, svcObj>>
  BY DEF TakeChanges, lockVars, informerVars
<1>2. Recorded(n)' = {}
  BY <1>1, SMTT(20) DEF Recorded, NoChange
<1>3. /\ changes'[t] = serviceChanges /\ \A u \in Threads \ {t} : changes'[u] = changes[u]
      /\ ahead'[t] = {u \in Threads : pc[u] = "lock"}
      /\ \A u \in Threads \ {t} : ahead'[u] = ahead[u]
  BY <1>1, Zenon DEF ObjectsOK, ThreadInv
<1>4. t \notin Pending(n) /\ Pending(n) \subseteq Threads /\ mu # t
  BY <1>1 DEF Pending, ThreadInv
<1>5. \A u \in Pending(n) : pc[u] \in {"lock", "merge"}
  BY Zenon DEF Pending, ThreadInv
<1>6. \A u, v \in Pending(n) : <<u, v>> \in TakenBefore' <=> <<u, v>> \in TakenBefore
  BY <1>1, <1>3, <1>4, Zenon DEF TakenBefore
<1>7. \A u \in Pending(n) : <<u, t>> \in TakenBefore'
  <2>1. \A u \in Pending(n) : mu' = u \/ u \in ahead'[t]
    BY <1>1, <1>3, <1>4, <1>5, ZenonT(30) DEF ThreadInv
  <2> QED
    BY <1>4, <2>1, Zenon DEF TakenBefore
<1>8. \A u \in Pending(n) : <<t, u>> \notin TakenBefore'
  <2>1. \A u \in Pending(n) : t \notin ahead'[u]
    BY <1>1, <1>3, <1>4, ZenonT(30) DEF ThreadInv
  <2> QED
    BY <1>1, <1>4, <2>1, ZenonT(30) DEF TakenBefore
<1>9. <<t, t>> \notin TakenBefore'
  BY Zenon DEF TakenBefore
<1>10. CASE n \notin DOMAIN serviceChanges
  <2>1. Pending(n)' = Pending(n)
    BY <1>3, <1>4, <1>10, Zenon DEF Pending
  <2>2. \A u \in Pending(n) : changes'[u][n] = changes[u][n]
    BY <1>3, <1>4
  <2>3. Recorded(n) = {}
    BY <1>10 DEF Recorded
  <2> QED
    BY <1>1, <1>2, <1>6, <2>1, <2>2, <2>3, LinkedKept, Zenon
<1>11. CASE n \in DOMAIN serviceChanges
  <2> DEFINE P == Pending(n)
             c == serviceChanges[n]
             chg2 == [u \in P \cup {t} |-> changes'[u][n]]
  <2>1. Pending(n)' = P \cup {t}
    BY <1>3, <1>4, <1>11, Zenon DEF Pending
  <2>2. Chg(n)' = chg2
    BY <2>1, Zenon DEF Chg
  <2>3. chg2[t] = c
    BY <1>3, Zenon
  <2>4. \A u \in P : chg2[u] = Chg(n)[u]
    BY <1>3, <1>4, Zenon DEF Chg
  <2>5. Linked(P, Chg(n), TakenBefore, {c}, svcObj[n], b)
    <3>1. Recorded(n) = {c}
      BY <1>11 DEF Recorded
    <3> QED
      BY <3>1, Zenon DEF NameLinked
  <2> HIDE DEF P, c, chg2
  <2>6. P = Pending(n)
    BY Zenon DEF P
  <2>7. Linked(P \cup {t}, chg2, TakenBefore', {}, svcObj[n], b)
    BY <1>4, <1>6, <1>7, <1>8, <1>9, <2>3, <2>4, <2>5, <2>6, LinkedTake, ZenonT(30)
  <2> QED
    BY <1>1, <1>2, <2>1, <2>2, <2>7, Zenon DEF NameLinked
<1> QED
  BY <1>10, <1>11, Zenon

(* A run that overtakes no other in its changes is the first to have them. *)
LEMMA LockLinks ==
    ASSUME ThreadInv, NEW t \in Threads, LockMu(t), ~overtaken',
           NEW n \in Names, NEW b, NameLinked(n, b)
    PROVE  NameLinked(n, b)'
<1>1. /\ pc[t] = "lock" /\ mu = Nil /\ mu' = t
      /\ ahead' = [u \in Threads |-> IF u = t THEN {} ELSE ahead[u] \ {t}]
      /\ \A u \in ahead[t] : DOMAIN changes[u] \cap DOMAIN changes[t] = {}
      /\ UNCHANGED <<changes, serviceChanges, svcObj>>
  BY ZenonT(30) DEF LockMu, informerVars
<1>2. /\ ahead'[t] = {} /\ \A u \in Threads \ {t} : ahead'[u] = ahead[u] \ {t}
      /\ Nil \notin Threads
  BY <1>1, SyncAssumption, Zenon
<1>3. Pending(n)' = Pending(n) /\ Recorded(n)' = Recorded(n) /\ Pending(n) \subseteq Threads
  BY <1>1, Zenon DEF Pending, Recorded
<1>4. \A u \in Pending(n) : pc[u] = "lock"
  BY <1>1, <1>2, Zenon DEF Pending, ThreadInv
<1>5. ASSUME t \in Pending(n), NEW u \in Pending(n) \ {t}
      PROVE  u \notin ahead[t] /\ t \in ahead[u]
  <2>1. n \in DOMAIN changes[u] \cap DOMAIN changes[t]
    BY <1>5, Zenon DEF Pending
  <2>2. u \notin ahead[t]
    BY <1>1, <2>1
  <2> QED
    BY <1>1, <1>3, <1>4, <1>5, <2>2, Zenon DEF ThreadInv
<1>6. ASSUME NEW u \in Pending(n), NEW v \in Pending(n)
      PROVE  <<u, v>> \in TakenBefore' <=> <<u, v>> \in TakenBefore
  <2>1. <<u, v>> \in TakenBefore <=> u # v /\ u \in ahead[v]
    BY <1>1, <1>2, <1>3, Zenon DEF TakenBefore
  <2>2. <<u, v>> \in TakenBefore' <=> u # v /\ (u = t \/ u \in ahead'[v])
    BY <1>1, <1>3, ZenonT(30) DEF TakenBefore
  <2>3. CASE v = t
    <3>1. CASE u = t
      BY <2>1, <2>2, <2>3, <3>1, Zenon
    <3>2. CASE u # t
      <4>1. u \notin ahead[t]
        BY <1>5, <2>3, <3>2, Zenon
      <4> QED
        BY <1>2, <2>1, <2>2, <2>3, <3>2, <4>1, Zenon
    <3> QED
      BY <3>1, <3>2, Zenon
  <2>4. CASE v # t
    BY <1>2, <1>3, <1>5, <2>1, <2>2, <2>4, ZenonT(30)
  <2> QED
    BY <2>3, <2>4, ZenonT(30)
<1> QED
  BY <1>1, <1>3, <1>6, LinkedKept, ZenonT(30)

(* The holder of lb.mu begins to merge the change of m: that change starts *)
(* from what was merged before.                                            *)
LEMMA NextLinks ==
    ASSUME ObjectsOK, ThreadInv, NEW t \in Threads, NEW m \in Names, NextChange(t, m),
           NEW change, change = changes[t][m], NEW n \in Names, NEW b, NameLinked(n, b)
    PROVE  /\ n # m => NameLinked(n, b)'
           /\ n = m => change.previous = b /\ NameLinked(n, change.current)'
<1>1. /\ pc[t] = "merge" /\ m \in DOMAIN changes[t]
      /\ changes' = [changes EXCEPT ![t] = Restrict(changes[t], DOMAIN changes[t] \ {m})]
      /\ UNCHANGED <<mu, ahead, serviceChanges, svcObj>>
  BY SMTT(20) DEF NextChange, informerVars, historyVars
<1>2. /\ changes'[t] = Restrict(changes[t], DOMAIN changes[t] \ {m})
      /\ \A u \in Threads \ {t} : changes'[u] = changes[u]
  BY <1>1, ZenonT(30) DEF ObjectsOK
<1>3. /\ DOMAIN changes'[t] = DOMAIN changes[t] \ {m}
      /\ \A x \in DOMAIN changes[t] \ {m} : changes'[t][x] = changes[t][x]
  BY <1>2, Zenon DEF Restrict
<1>4. TakenBefore' = TakenBefore /\ Recorded(n)' = Recorded(n)
  BY <1>1, ZenonT(30) DEF TakenBefore, Recorded
<1>5. mu = t
  BY <1>1, SMTT(20) DEF ThreadInv
<1>6. ASSUME n # m PROVE NameLinked(n, b)'
  <2>1. Pending(n)' = Pending(n)
    BY <1>2, <1>3, <1>6, Zenon DEF Pending
  <2>2. \A u \in Pending(n) : changes'[u][n] = changes[u][n]
    BY <1>2, <1>3, <1>6, Zenon DEF Pending
  <2> QED
    BY <1>1, <1>4, <2>1, <2>2, LinkedKept, ZenonT(30)
<1>7. ASSUME n = m
      PROVE  change.previous = b /\ NameLinked(n, change.current)'
  <2> DEFINE P == Pending(m)
             chg == Chg(m)
             chg2 == [u \in P \ {t} |-> changes'[u][m]]
  <2>1. Pending(m)' = P \ {t} /\ t \in P /\ P \subseteq Threads
    BY <1>1, <1>2, <1>3, Zenon DEF Pending
  <2>2. Chg(m)' = chg2
    BY <2>1, Zenon DEF Chg
  <2>3. chg[t] = change /\ \A u \in P \ {t} : chg2[u] = chg[u]
    BY <1>2, <2>1, Zenon DEF Chg
  <2>4. \A u \in P \ {t} : <<t, u>> \in TakenBefore
    BY <1>5, <2>1, Zenon DEF TakenBefore
  <2>5. \A u \in P : <<u, t>> \notin TakenBefore
    <3>1. ahead[t] = {}
      BY <1>1, SMTT(20) DEF ThreadInv
    <3> QED
      BY <1>5, <2>1, <3>1, ZenonT(30) DEF TakenBefore
  <2>6. Linked(P, chg, TakenBefore, Recorded(m), svcObj[m], b)
    BY <1>7, Zenon DEF NameLinked
  <2> HIDE DEF P, chg, chg2
  <2>7. /\ chg[t].previous = b
        /\ Linked(P \ {t}, chg2, TakenBefore, Recorded(m), svcObj[m], chg[t].current)
    <3>1. \A u \in P \ {t} : <<t, u>> \in TakenBefore /\ chg2[u] = chg[u]
      BY <2>3, <2>4, Zenon
    <3>2. t \in P
      BY <2>1, Zenon
    <3> QED
      BY <2>5, <2>6, <3>1, <3>2, LinkedMerge, Zenon
  <2>8. Linked(Pending(m)', Chg(m)', TakenBefore', Recorded(m)', svcObj'[m], change.current)
    BY <1>1, <1>4, <1>7, <2>1, <2>2, <2>3, <2>7, Zenon
  <2> QED
    BY <1>7, <2>3, <2>7, <2>8, Zenon DEF NameLinked
<1> QED
  BY <1>6, <1>7

LEMMA OrderKept ==
    ASSUME NEW base, OrderWith(base), UNCHANGED serviceMap,
           task'.name = task.name, task'.current = task.current,
           task'.merge = task.merge, task'.unmerge = task.unmerge,
           \A n \in Names : NameLinked(n, base[n]) => NameLinked(n, base[n])'
    PROVE  OrderWith(base)'
<1>1. TaskOf(base)'
  BY ZenonT(30) DEF OrderWith, TaskOf
<1>2. ASSUME NEW n \in Names, NEW p \in Ports PROVE PortMerged(n, p, base[n])'
  <2>1. PortMerged(n, p, base[n])
    BY Zenon DEF OrderWith
  <2> QED
    BY <2>1 DEF PortMerged
<1>3. \A n \in Names : NameLinked(n, base[n])'
  BY Zenon DEF OrderWith
<1> QED
  BY <1>1, <1>2, <1>3, ZenonT(30) DEF OrderWith

LEMMA NextOrdered ==
    ASSUME ObjectsOK, ThreadInv, NEW t \in Threads, NEW m \in Names, NextChange(t, m),
           NEW base, OrderWith(base)
    PROVE  OrderInv'
<1>1. PICK change : change = changes[t][m]
  OBVIOUS
<1> DEFINE base2 == [n \in Names |-> IF n = m THEN change.current ELSE base[n]]
<1>2. /\ TaskDone /\ UNCHANGED serviceMap
      /\ task' = [task EXCEPT !.name = m, !.current = change.current,
                              !.merge = portsOf(change.current),
                              !.unmerge = portsOf(change.previous) \ portsOf(change.current)]
  BY <1>1 DEF NextChange, portsToUnmerge
<1>3. /\ task'.name = m /\ task'.current = change.current
      /\ task'.merge = portsOf(change.current)
      /\ task'.unmerge = portsOf(change.previous) \ portsOf(change.current)
  BY <1>2, Zenon DEF ObjectsOK, TaskShape, NoTask
<1>4. change.previous = base[m] /\ NameLinked(m, change.current)'
  <2>1. NameLinked(m, base[m])
    BY ZenonT(30) DEF OrderWith
  <2> QED
    BY <1>1, <2>1, NextLinks
<1>5. \A n \in Names : n # m => base2[n] = base[n]
  BY Zenon
<1>6. base2[m] = change.current
  BY Zenon
<1> HIDE DEF base2
<1>7. \A n \in Names : NameLinked(n, base2[n])'
  <2>1. ASSUME NEW n \in Names, n # m PROVE NameLinked(n, base2[n])'
    <3>1. NameLinked(n, base[n])
      BY Zenon DEF OrderWith
    <3>2. NameLinked(n, base[n])'
      BY <1>1, <2>1, <3>1, NextLinks, ZenonT(30)
    <3> QED
      BY <1>5, <2>1, <3>2
  <2> QED
    BY <1>4, <1>6, <2>1, Zenon
<1>8. TaskOf(base2)'
  BY <1>3, <1>6 DEF TaskOf
<1>9. ASSUME NEW n \in Names, NEW p \in Ports PROVE PortMerged(n, p, base2[n])'
  <2>1. /\ <<n, p>> \in DOMAIN serviceMap <=> p \in portsOf(base[n])
        /\ <<n, p>> \in DOMAIN serviceMap => sameConfig(serviceMap[<<n, p>>], base[n])
    <3>1. PortMerged(n, p, base[n])
      BY Zenon DEF OrderWith
    <3> QED
      BY <1>2, <3>1 DEF PortMerged, TaskDone
  <2>2. CASE n # m
    BY <1>2, <1>3, <1>5, <2>1, <2>2, ZenonT(30) DEF PortMerged
  <2>3. CASE n = m
    BY <1>2, <1>3, <1>4, <1>6, <2>1, <2>3 DEF PortMerged
  <2> QED
    BY <2>2, <2>3
<1>10. OrderWith(base2)'
  BY <1>7, <1>8, <1>9, Zenon DEF OrderWith
<1> QED
  BY <1>10, Zenon DEF OrderInv

LEMMA MergeOrdered ==
    ASSUME ObjectsOK, NEW t \in Threads, NEW p \in Ports, mergeService(t, p),
           NEW base, OrderWith(base), \A n \in Names : NameLinked(n, base[n])'
    PROVE  OrderWith(base)'
<1> DEFINE sp == <<task.name, p>>
           info == newInfo(task.current)
<1>1. /\ p \in task.merge /\ task' = [task EXCEPT !.merge = task.merge \ {p}]
      /\ \/ /\ sp \in DOMAIN serviceMap /\ sameConfig(serviceMap[sp], task.current)
            /\ serviceMap' = serviceMap
         \/ serviceMap' = [x \in DOMAIN serviceMap \cup {sp} |->
                             IF x = sp THEN info ELSE serviceMap[x]]
  BY DEF mergeService
<1>2. /\ task'.name = task.name /\ task'.current = task.current
      /\ task'.merge = task.merge \ {p} /\ task'.unmerge = task.unmerge
  BY <1>1 DEF ObjectsOK, TaskShape, NoTask
<1>3. task.name \in Names /\ base[task.name] = task.current /\ p \notin task.unmerge
  BY <1>1, Zenon DEF ObjectsOK, OrderWith, TaskOf
<1>4. sameConfig(info, task.current)
  BY DEF sameConfig, newInfo
<1> HIDE DEF sp, info
<1>5. /\ sp \in DOMAIN serviceMap' /\ sameConfig(serviceMap'[sp], task.current)
      /\ \A x : x # sp => (x \in DOMAIN serviceMap' <=> x \in DOMAIN serviceMap)
      /\ \A x \in DOMAIN serviceMap : x # sp => serviceMap'[x] = serviceMap[x]
  BY <1>1, <1>4, Zenon
<1>6. TaskOf(base)'
  BY <1>2, Zenon DEF OrderWith, TaskOf
<1>7. ASSUME NEW n \in Names, NEW q \in Ports PROVE PortMerged(n, q, base[n])'
  <2>1. PortMerged(n, q, base[n])
    BY Zenon DEF OrderWith
  <2>2. CASE n = task.name /\ q = p
    <3>1. q \in portsOf(base[n]) /\ <<n, q>> = sp
      BY <1>1, <2>1, <2>2, Zenon DEF PortMerged, sp
    <3>2. q \notin task'.merge \cup task'.unmerge
      BY <1>2, <1>3, <2>2, SMTT(20)
    <3> QED
      BY <1>3, <1>5, <2>2, <3>1, <3>2, Zenon DEF PortMerged
  <2>3. CASE ~(n = task.name /\ q = p)
    <3>1. <<n, q>> # sp
      BY <2>3, SMTT(20) DEF sp
    <3>2. /\ <<n, q>> \in DOMAIN serviceMap' <=> <<n, q>> \in DOMAIN serviceMap
          /\ <<n, q>> \in DOMAIN serviceMap => serviceMap'[<<n, q>>] = serviceMap[<<n, q>>]
      BY <1>5, <3>1, Zenon
    <3>3. n = task.name => (q \in task'.merge <=> q \in task.merge)
      BY <1>2, <2>3
    <3> QED
      BY <1>2, <2>1, <3>2, <3>3, ZenonT(30) DEF PortMerged
  <2> QED
    BY <2>2, <2>3
<1> QED
  BY <1>6, <1>7, Zenon DEF OrderWith

LEMMA UnmergeOrdered ==
    ASSUME ObjectsOK, NEW t \in Threads, NEW p \in Ports, unmergeService(t, p),
           NEW base, OrderWith(base), \A n \in Names : NameLinked(n, base[n])'
    PROVE  OrderWith(base)'
<1> DEFINE sp == <<task.name, p>>
<1>1. /\ task.merge = {} /\ p \in task.unmerge
      /\ task' = [task EXCEPT !.unmerge = task.unmerge \ {p}]
      /\ \/ sp \notin DOMAIN serviceMap /\ serviceMap' = serviceMap
         \/ serviceMap' = Restrict(serviceMap, DOMAIN serviceMap \ {sp})
  BY DEF unmergeService
<1>2. /\ task'.name = task.name /\ task'.current = task.current
      /\ task'.merge = {} /\ task'.unmerge = task.unmerge \ {p}
  BY <1>1 DEF ObjectsOK, TaskShape, NoTask
<1> HIDE DEF sp
<1>3. /\ sp \notin DOMAIN serviceMap'
      /\ \A x : x # sp => (x \in DOMAIN serviceMap' <=> x \in DOMAIN serviceMap)
      /\ \A x \in DOMAIN serviceMap : x # sp => serviceMap'[x] = serviceMap[x]
  BY <1>1 DEF Restrict
<1>4. TaskOf(base)'
  BY <1>2 DEF TaskOf
<1>5. ASSUME NEW n \in Names, NEW q \in Ports PROVE PortMerged(n, q, base[n])'
  <2>1. PortMerged(n, q, base[n])
    BY Zenon DEF OrderWith
  <2>2. CASE n = task.name /\ q = p
    <3>1. q \notin portsOf(base[n]) /\ <<n, q>> = sp
      BY <1>1, <2>1, <2>2, Zenon DEF PortMerged, sp
    <3>2. q \notin task'.merge \cup task'.unmerge
      BY <1>2, <2>2, SMTT(20)
    <3> QED
      BY <1>3, <3>1, <3>2, Zenon DEF PortMerged
  <2>3. CASE ~(n = task.name /\ q = p)
    <3>1. <<n, q>> # sp
      BY <2>3 DEF sp
    <3>2. /\ <<n, q>> \in DOMAIN serviceMap' <=> <<n, q>> \in DOMAIN serviceMap
          /\ <<n, q>> \in DOMAIN serviceMap => serviceMap'[<<n, q>>] = serviceMap[<<n, q>>]
      BY <1>3, <3>1
    <3>3. /\ task'.merge = task.merge
          /\ n = task.name => (q \in task'.unmerge <=> q \in task.unmerge)
      BY <1>1, <1>2, <2>3
    <3> QED
      BY <1>2, <2>1, <3>2, <3>3, ZenonT(30) DEF PortMerged
  <2> QED
    BY <2>2, <2>3
<1> QED
  BY <1>4, <1>5, Zenon DEF OrderWith

(* Every step keeps the changes of a Service linked, unless it merges a    *)
(* newer change before an older one.                                       *)
LEMMA OrderStep ==
    ASSUME ObjectsOK, ThreadInv, OrderInv, [SyncNext]_allVars
    PROVE  OrderInv'
<1>1. ASSUME UNCHANGED overtaken,
             \A base : OrderWith(base) => OrderWith(base)'
      PROVE  OrderInv'
  BY <1>1, Zenon DEF OrderInv
<1>2. ASSUME NEW base, OrderWith(base), UNCHANGED <<serviceMap, task>>,
             UNCHANGED <<changes, mu, ahead, serviceChanges, svcObj>>
      PROVE  OrderWith(base)'
  <2>1. \A n \in Names : NameLinked(n, base[n]) => NameLinked(n, base[n])'
    BY <1>2, Zenon DEF NameLinked, Pending, Chg, TakenBefore, Recorded
  <2> QED
    BY <1>2, <2>1, OrderKept, SMTT(20)
<1>3. CASE ServiceCallbacks
  <2>1. PICK n \in Names : \E current : serviceChange(n, svcObj[n], current)
    BY <1>3 DEF ServiceCallbacks, OnServiceAdd, OnServiceUpdate, OnServiceResync, OnServiceDelete
  <2>2. PICK current : serviceChange(n, svcObj[n], current)
    BY <2>1, Zenon
  <2>3. UNCHANGED <<overtaken, serviceMap, task>>
    BY <2>2 DEF serviceChange, lockVars, historyVars
  <2>4. \A m \in Names : \A b : NameLinked(m, b) => NameLinked(m, b)'
    BY <2>2, CallbackLinks
  <2>5. \A base : OrderWith(base) => OrderWith(base)'
    BY <2>3, <2>4, OrderKept
  <2> QED
    BY <1>1, <2>3, <2>5, Zenon
<1>4. CASE EndpointsCallbacks \/ TakeRequest \/ TimerFires \/ UNCHANGED allVars
           \/ \E h \in Informers : SyncedCallback(h)
  <2>1. UNCHANGED <<overtaken, serviceMap, task, changes, mu, ahead, serviceChanges, svcObj>>
    BY <1>4, Zenon DEF EndpointsCallbacks, syncVars, allVars, SyncedCallback, StoreSynced,
                LoadOther, StoreInitialized, TakeRequest, TimerFires, StartRun, informerVars,
                lockVars, historyVars
  <2> QED
    BY <1>1, <1>2, <2>1
<1>5. ASSUME NEW t \in Threads, CheckInitialized(t) PROVE OrderInv'
  <2>1. UNCHANGED <<overtaken, serviceMap, task, changes, mu, ahead, serviceChanges, svcObj>>
    BY <1>5 DEF CheckInitialized, informerVars, lockVars, historyVars
  <2> QED
    BY <1>1, <1>2, <2>1
<1>6. ASSUME NEW t \in Threads, TakeChanges(t) PROVE OrderInv'
  <2>1. UNCHANGED <<overtaken, serviceMap, task>>
    BY <1>6 DEF TakeChanges, lockVars
  <2>2. \A n \in Names : \A b : NameLinked(n, b) => NameLinked(n, b)'
    BY <1>6, TakeLinks
  <2>3. \A base : OrderWith(base) => OrderWith(base)'
    BY <2>1, <2>2, OrderKept
  <2> QED
    BY <1>1, <2>1, <2>3
<1>7. ASSUME NEW t \in Threads, LockMu(t) PROVE OrderInv'
  <2> SUFFICES ASSUME ~overtaken' PROVE \E base : OrderWith(base)'
    BY DEF OrderInv
  <2>1. ~overtaken /\ UNCHANGED <<serviceMap, task>>
    BY <1>7, Zenon DEF LockMu
  <2>2. PICK base : OrderWith(base)
    BY <2>1 DEF OrderInv
  <2>3. \A n \in Names : \A b : NameLinked(n, b) => NameLinked(n, b)'
    BY <1>7, LockLinks
  <2>4. OrderWith(base)'
    BY <2>1, <2>2, <2>3, OrderKept
  <2> QED
    BY <2>4
<1>8. ASSUME NEW t \in Threads, NEW n \in Names, NextChange(t, n) PROVE OrderInv'
  <2>1. CASE overtaken
    BY <1>8, <2>1 DEF NextChange, historyVars, OrderInv
  <2>2. CASE ~overtaken
    <3>1. PICK base : OrderWith(base)
      BY <2>2 DEF OrderInv
    <3> QED
      BY <1>8, <3>1, NextOrdered
  <2> QED
    BY <2>1, <2>2
<1>9. ASSUME NEW t \in Threads, NEW p \in Ports, mergeService(t, p) \/ unmergeService(t, p)
      PROVE  OrderInv'
  <2>1. UNCHANGED <<overtaken, changes, mu, ahead, serviceChanges, svcObj>>
    BY <1>9, Zenon DEF mergeService, unmergeService, informerVars, historyVars
  <2>2. ASSUME NEW base, OrderWith(base) PROVE OrderWith(base)'
    <3>1. \A n \in Names : NameLinked(n, base[n])
      BY <2>2, ZenonT(30) DEF OrderWith
    <3>2. \A n \in Names : NameLinked(n, base[n])'
      BY <2>1, <3>1, Zenon DEF NameLinked, Pending, Chg, TakenBefore, Recorded
    <3> QED
      BY <1>9, <2>2, <3>2, MergeOrdered, UnmergeOrdered
  <2> QED
    BY <1>1, <2>1, <2>2
<1>10. ASSUME NEW t \in Threads, StartCleanup(t) PROVE OrderInv'
  <2>1. /\ TaskDone /\ task' = [NoTask EXCEPT !.clean = DOMAIN serviceMap]
        /\ UNCHANGED <<overtaken, serviceMap, changes, mu, ahead, serviceChanges, svcObj>>
    BY <1>10 DEF StartCleanup, informerVars, historyVars
  <2>2. task'.merge = {} /\ task'.unmerge = {} /\ task.merge = {} /\ task.unmerge = {}
    BY <2>1 DEF NoTask, TaskDone
  <2>3. ASSUME NEW base, OrderWith(base) PROVE OrderWith(base)'
    <3>1. \A n \in Names : NameLinked(n, base[n])
      BY <2>3, Zenon DEF OrderWith
    <3>2. \A n \in Names : NameLinked(n, base[n])'
      BY <2>1, <3>1, Zenon DEF NameLinked, Pending, Chg, TakenBefore, Recorded
    <3>3. TaskOf(base)'
      BY <2>2 DEF TaskOf
    <3>4. ASSUME NEW n \in Names, NEW p \in Ports PROVE PortMerged(n, p, base[n])'
      <4>1. PortMerged(n, p, base[n])
        BY <2>3, Zenon DEF OrderWith
      <4> QED
        BY <2>1, <2>2, <4>1 DEF PortMerged
    <3> QED
      BY <3>2, <3>3, <3>4, Zenon DEF OrderWith
  <2> QED
    BY <1>1, <2>1, <2>3
<1>11. ASSUME NEW t \in Threads, NEW sp \in SvcPort, cleanupStaleStickySessions(t, sp)
       PROVE  OrderInv'
  <2>1. /\ task' = [task EXCEPT !.clean = task.clean \ {sp}]
        /\ UNCHANGED <<overtaken, serviceMap, changes, mu, ahead, serviceChanges, svcObj>>
    BY <1>11 DEF cleanupStaleStickySessions, informerVars, historyVars
  <2>2. /\ task'.name = task.name /\ task'.current = task.current
        /\ task'.merge = task.merge /\ task'.unmerge = task.unmerge
    BY <2>1 DEF ObjectsOK, TaskShape, NoTask
  <2>3. \A n \in Names : \A b : NameLinked(n, b) => NameLinked(n, b)'
    BY <2>1 DEF NameLinked, Pending, Chg, TakenBefore, Recorded
  <2>4. \A base : OrderWith(base) => OrderWith(base)'
    BY <2>1, <2>2, <2>3, OrderKept
  <2> QED
    BY <1>1, <2>1, <2>4
<1>12. ASSUME NEW t \in Threads, UnlockMu(t) PROVE OrderInv'
  <2>1. /\ pc[t] = "cleanup" /\ mu' = Nil
        /\ UNCHANGED <<overtaken, serviceMap, task, changes, ahead, serviceChanges, svcObj>>
    BY <1>12, Zenon DEF UnlockMu, informerVars, historyVars
  <2>2. mu = t /\ DOMAIN changes[t] = {} /\ Nil \notin Threads
    BY <2>1, SyncAssumption, SMTT(20) DEF ThreadInv
  <2>3. ASSUME NEW n \in Names, NEW b, NameLinked(n, b) PROVE NameLinked(n, b)'
    <3>1. Pending(n)' = Pending(n) /\ Recorded(n)' = Recorded(n)
      BY <2>1, Zenon DEF Pending, Recorded
    <3>2. \A u \in Pending(n) : u # t /\ u \in Threads
      BY <2>2, Zenon DEF Pending
    <3>3. \A v, u \in Pending(n) : <<u, v>> \in TakenBefore' <=> <<u, v>> \in TakenBefore
      BY <2>1, <2>2, <3>2, ZenonT(30) DEF TakenBefore
    <3> QED
      BY <2>1, <2>3, <3>1, <3>3, LinkedKept, ZenonT(30)
  <2>4. \A base : OrderWith(base) => OrderWith(base)'
    BY <2>1, <2>3, OrderKept
  <2> QED
    BY <1>1, <2>1, <2>4
<1> QED
  BY <1>3, <1>4, <1>5, <1>6, <1>7, <1>8, <1>9, <1>10, <1>11, <1>12, Zenon
  DEF SyncNext, syncServices

(* Nothing is recorded, taken or merged at the start.                      *)
LEMMA OrderInit == SyncInit => OrderInv
<1> SUFFICES ASSUME SyncInit PROVE \E base : OrderWith(base)
  BY DEF OrderInv
<1> DEFINE base == [n \in Names |-> Nil]
<1>1. /\ changes = [t \in Threads |-> NoChange] /\ serviceChanges = NoChange
      /\ svcObj = base /\ task = NoTask /\ DOMAIN serviceMap = {}
  BY DEF SyncInit
<1>2. TaskOf(base)
  BY <1>1, SMTT(20) DEF TaskOf, NoTask
<1>3. ASSUME NEW n \in Names, NEW p \in Ports PROVE PortMerged(n, p, base[n])
  BY <1>1, ZenonT(30) DEF PortMerged, NoTask, portsOf
<1>4. ASSUME NEW n \in Names PROVE NameLinked(n, base[n])
  <2>1. Pending(n) = {} /\ Recorded(n) = {} /\ svcObj[n] = base[n]
    BY <1>1 DEF Pending, Recorded, NoChange
  <2> HIDE DEF base
  <2> QED
    BY <2>1, Zenon DEF NameLinked, Linked, After
<1> HIDE DEF base
<1>5. OrderWith(base)
  BY <1>2, <1>3, <1>4, ZenonT(30) DEF OrderWith
<1> QED
  BY <1>5

(* When nothing is pending, what was merged last is what informers hold.   *)
LEMMA OrderConverges == ObjectsOK /\ ThreadInv /\ OrderInv => InOrderConverged
<1> SUFFICES ASSUME ObjectsOK, ThreadInv, OrderInv, Quiescent, ~overtaken PROVE MapAgrees
  BY DEF InOrderConverged
<1>1. PICK base : OrderWith(base)
  BY DEF OrderInv
<1>2. DOMAIN serviceChanges = {} /\ \A t \in Threads : pc[t] \in {"idle", "start", "take"}
  BY Zenon DEF Quiescent
<1>3. TaskDone /\ \A t \in Threads : DOMAIN changes[t] = {}
  BY <1>2, Zenon DEF ThreadInv
<1>4. ASSUME NEW n \in Names PROVE svcObj[n] = base[n]
  <2>1. Pending(n) = {} /\ Recorded(n) = {}
    BY <1>2, <1>3 DEF Pending, Recorded
  <2>2. NameLinked(n, base[n])
    BY <1>1, ZenonT(30) DEF OrderWith
  <2> QED
    BY <2>1, <2>2 DEF NameLinked, Linked, After
<1>5. ASSUME NEW n \in Names, NEW p \in Ports
      PROVE  /\ <<n, p>> \in DOMAIN serviceMap <=> p \in portsOf(svcObj[n])
             /\ <<n, p>> \in DOMAIN serviceMap => sameConfig(serviceMap[<<n, p>>], svcObj[n])
  <2>1. PortMerged(n, p, svcObj[n])
    BY <1>1, <1>4, Zenon DEF OrderWith
  <2> QED
    BY <1>3, <2>1 DEF PortMerged, TaskDone
<1>6. \A n \in Names : portsOf(svcObj[n]) \subseteq Ports
  BY SyncAssumption DEF ObjectsOK, ObjOK, portsOf, ServiceSpecType
<1> QED
  BY <1>5, <1>6 DEF MapAgrees

(* Once every recorded change is merged, lb.serviceMap has the ports of    *)
(* the current Services with their current configuration, whatever         *)
(* callbacks and runs of syncServices came between, provided that no run   *)
(* merged newer changes of a Service before older ones.                    *)
THEOREM ConvergedInOrder == SyncSpec => []InOrderConverged
BY ThreadInvariance, OrderInit, OrderStep, OrderConverges, PTL DEF SyncSpec

=============================================================================
