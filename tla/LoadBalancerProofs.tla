------------------------- MODULE LoadBalancerProofs -------------------------
(***************************************************************************)
(* TLAPS proofs about LoadBalancer, for every set of names, ports,         *)
(* endpoints, clients and rules; and what they say of the gateway, whose   *)
(* goroutines of syncServices call the load balancer as it specifies, and  *)
(* how lb.serviceMap and lb.services agree.                                *)
(***************************************************************************)
EXTENDS ServiceSyncProofs

(* What every entry of lb.services satisfies on its own.                   *)
EntryOK(state) ==
    /\ state \in BalancerState
    /\ \/ state.index < Len(state.endpoints)
       \/ state.endpoints = <<>> /\ state.index = 0
    /\ \A c \in DOMAIN state.affinityMap :
         state.affinityMap[c].endpoint \in Range(state.endpoints)

AnswerType ==
    [svcPort : SvcPort, client : Clients, endpoint : Endpoints]
      \cup [svcPort : SvcPort, client : Clients,
            err : {"ErrMissingServiceEntry", "ErrMissingEndpoints"}]
      \cup {Nil}

ServicesOK ==
    /\ DOMAIN services \subseteq SvcPort
    /\ services \in [DOMAIN services -> BalancerState]
    /\ \A sp \in DOMAIN services : EntryOK(services[sp])

PolicyMapOK ==
    /\ DOMAIN policyMap \subseteq SvcPort
    /\ policyMap \in [DOMAIN policyMap -> Policy]

RestOK ==
    /\ epObj \in [Names -> EndpointsObject \cup {Nil}]
    /\ drObj \in [Names -> Rules \cup {Nil}]
    /\ answer \in AnswerType
    /\ panicked \in BOOLEAN

(* The inductive invariant.  The three relations need each other: that     *)
(* OnEndpointsAdd may keep every affinity record rests on the endpoints    *)
(* being empty while there is no Endpoints object.                         *)
IInv ==
    /\ ServicesOK
    /\ PolicyMapOK
    /\ RestOK
    /\ EndpointsNeverStale
    /\ RingMatchesEndpoints
    /\ AnswerLive

-----------------------------------------------------------------------------
(* Facts about the operators *)

(* The affinity maps are the functions from some clients to records.       *)
LEMMA AffinityMapType ==
    ASSUME NEW m
    PROVE  m \in UNION {[D -> AffinityState] : D \in SUBSET Clients}
             <=> DOMAIN m \subseteq Clients /\ m \in [DOMAIN m -> AffinityState]
PROOF OBVIOUS

(* A sequence over Endpoints is empty exactly when its range is.           *)
LEMMA EmptyRange ==
    ASSUME NEW s \in Seq(Endpoints)
    PROVE  /\ s = <<>> <=> Range(s) = {}
           /\ s = <<>> <=> Len(s) = 0
           /\ Range(s) \subseteq Endpoints
<1>1. s = <<>> <=> Len(s) = 0
  OBVIOUS
<1>2. DOMAIN s = 1 .. Len(s) /\ Len(s) \in Nat
  OBVIOUS
<1>3. \A i \in 1 .. Len(s) : s[i] \in Endpoints
  OBVIOUS
<1>4. Len(s) # 0 => 1 \in DOMAIN s
  BY <1>2
<1>5. ASSUME s = <<>> PROVE Range(s) = {}
  <2>1. DOMAIN s = {}
    BY <1>1, <1>2, <1>5
  <2> QED
    BY <2>1 DEF Range
<1>6. ASSUME s # <<>> PROVE Range(s) # {}
  <2>1. s[1] \in Range(s)
    BY <1>1, <1>4, <1>6, Zenon DEF Range
  <2> QED
    BY <2>1
<1>7. Range(s) \subseteq Endpoints
  BY <1>2, <1>3 DEF Range
<1> QED
  BY <1>1, <1>5, <1>6, <1>7, ZenonT(30)

(* ShuffleStrings returns sequences with exactly the given endpoints.      *)
LEMMA ShuffleFacts ==
    ASSUME NEW S \in SUBSET Endpoints, NEW s \in ShuffleStrings(S)
    PROVE  s \in Seq(Endpoints) /\ Range(s) = S
<1>1. Cardinality(S) \in Nat
  BY ConstantsAssumption
<1>2. s \in [1 .. Cardinality(S) -> S] /\ Range(s) = S
  BY DEF ShuffleStrings
<1>3. s \in [1 .. Cardinality(S) -> Endpoints]
  BY <1>2, Zenon
<1> QED
  BY <1>1, <1>2, <1>3

(* An entry newServiceInternal creates, and one resetService leaves.       *)
LEMMA EmptyEntry ==
    ASSUME NEW type \in AffinityTypes, NEW ttl \in Ttls \cup {0}
    PROVE  EntryOK(emptyState(type, ttl)) /\ emptyState(type, ttl).endpoints = <<>>
<1>1. [c \in {} |-> Nil] \in UNION {[D -> AffinityState] : D \in SUBSET Clients}
  BY AffinityMapType, Zenon
<1>2. <<>> \in Seq(Endpoints) /\ 0 \in Nat
  OBVIOUS
<1>3. (IF ttl = 0 THEN DefaultTtl ELSE ttl) \in 1 .. DefaultTtl
  BY ConstantsAssumption
<1> QED
  BY <1>1, <1>2, <1>3, ZenonT(30) DEF EntryOK, emptyState, BalancerState

LEMMA ResetEntry ==
    ASSUME NEW state, EntryOK(state)
    PROVE  EntryOK(resetService(state)) /\ resetService(state).endpoints = <<>>
<1>1. [c \in {} |-> Nil] \in UNION {[D -> AffinityState] : D \in SUBSET Clients}
  BY AffinityMapType, Zenon
<1>2. <<>> \in Seq(Endpoints) /\ 0 \in Nat
  OBVIOUS
<1> QED
  BY <1>1, <1>2, Zenon DEF EntryOK, resetService, BalancerState

(* newServiceInternal keeps the endpoints and the affinity of an entry.    *)
LEMMA NewServiceEntry ==
    ASSUME ServicesOK, NEW sp \in SvcPort,
           NEW type \in AffinityTypes, NEW ttl \in Ttls \cup {0}
    PROVE  LET state == newServiceInternal(sp, type, ttl)
           IN  /\ EntryOK(state)
               /\ sp \in DOMAIN services =>
                    /\ state.endpoints = services[sp].endpoints
                    /\ state.affinityMap = services[sp].affinityMap
               /\ sp \notin DOMAIN services => state.endpoints = <<>>
<1>1. CASE sp \notin DOMAIN services
  BY <1>1, EmptyEntry DEF newServiceInternal
<1>2. CASE sp \in DOMAIN services
  <2>1. EntryOK(services[sp])
    BY <1>2, Zenon DEF ServicesOK
  <2>2. EntryOK([services[sp] EXCEPT !.affinityType = type])
    BY <2>1 DEF EntryOK, BalancerState
  <2> QED
    BY <1>2, <2>1, <2>2, Zenon DEF newServiceInternal, EntryOK, BalancerState
<1> QED
  BY <1>1, <1>2

(* The entry OnEndpointsAdd writes: there is no affinity record to prune.  *)
LEMMA AddEntry ==
    ASSUME NEW state, EntryOK(state), state.endpoints = <<>>,
           NEW S \in (SUBSET Endpoints) \ {{}}, NEW s \in ShuffleStrings(S)
    PROVE  EntryOK(setEndpoints(state, s)) /\ setEndpoints(state, s).endpoints = s
<1>1. s \in Seq(Endpoints) /\ Range(s) = S
  BY ShuffleFacts
<1>2. 0 < Len(s)
  BY <1>1, EmptyRange
<1>3. \A c \in DOMAIN state.affinityMap : FALSE
  BY EmptyRange DEF EntryOK, BalancerState
<1> QED
  BY <1>1, <1>2, <1>3, Zenon DEF EntryOK, setEndpoints, BalancerState

(* The entry OnEndpointsUpdate writes: removeStaleAffinity leaves records  *)
(* of endpoints that were there and still are.                             *)
LEMMA UpdateEntry ==
    ASSUME NEW state, EntryOK(state),
           NEW S \in (SUBSET Endpoints) \ {{}}, NEW s \in ShuffleStrings(S)
    PROVE  LET new == [setEndpoints(state, s) EXCEPT
                         !.affinityMap = removeStaleAffinity(state, S)]
           IN  EntryOK(new) /\ new.endpoints = s
<1> DEFINE m == removeStaleAffinity(state, S)
<1>1. s \in Seq(Endpoints) /\ Range(s) = S
  BY ShuffleFacts
<1>2. 0 < Len(s)
  BY <1>1, EmptyRange
<1>3. /\ DOMAIN state.affinityMap \subseteq Clients
      /\ state.affinityMap \in [DOMAIN state.affinityMap -> AffinityState]
  BY AffinityMapType DEF EntryOK, BalancerState
<1>4. DOMAIN m \subseteq DOMAIN state.affinityMap
  BY Zenon DEF removeStaleAffinity, Restrict
<1>5. \A c \in DOMAIN m :
         m[c] = state.affinityMap[c] /\ m[c].endpoint \in Range(s)
  BY <1>1 DEF removeStaleAffinity, Restrict, EntryOK
<1>6. m \in [DOMAIN m -> AffinityState]
  <2>1. m = [c \in DOMAIN m |-> m[c]]
    BY DEF removeStaleAffinity, Restrict
  <2> QED
    BY <1>3, <1>4, <1>5, <2>1, ZenonT(30)
<1>7. m \in UNION {[D -> AffinityState] : D \in SUBSET Clients}
  BY <1>3, <1>4, <1>6, AffinityMapType, ZenonT(30)
<1> HIDE DEF m
<1>8. [setEndpoints(state, s) EXCEPT !.affinityMap = m].endpoints = s
  BY DEF EntryOK, setEndpoints, BalancerState
<1>9. EntryOK([setEndpoints(state, s) EXCEPT !.affinityMap = m])
  BY <1>1, <1>2, <1>5, <1>7, Zenon DEF EntryOK, setEndpoints, BalancerState
<1> QED
  BY <1>8, <1>9 DEF m

(* Any entry whose affinity map is replaced by one over the same targets.  *)
LEMMA AffinityEntry ==
    ASSUME NEW state, EntryOK(state), NEW m,
           DOMAIN m \subseteq Clients, m \in [DOMAIN m -> AffinityState],
           \A c \in DOMAIN m : m[c].endpoint \in Range(state.endpoints)
    PROVE  EntryOK([state EXCEPT !.affinityMap = m])
<1>1. m \in UNION {[D -> AffinityState] : D \in SUBSET Clients}
  BY AffinityMapType
<1> QED
  BY <1>1, Zenon DEF EntryOK, BalancerState

(* Members of an entry.                                                    *)
LEMMA EntryFacts ==
    ASSUME NEW state, EntryOK(state)
    PROVE  /\ state.endpoints \in Seq(Endpoints)
           /\ state.index \in Nat
           /\ DOMAIN state.affinityMap \subseteq Clients
           /\ state.affinityMap \in [DOMAIN state.affinityMap -> AffinityState]
           /\ state.endpoints # <<>> =>
                /\ state.index + 1 \in DOMAIN state.endpoints
                /\ (state.index + 1) % Len(state.endpoints) \in Nat
                /\ (state.index + 1) % Len(state.endpoints) < Len(state.endpoints)
<1>1. state \in BalancerState
  BY DEF EntryOK
<1>2. /\ DOMAIN state.affinityMap \subseteq Clients
      /\ state.affinityMap \in [DOMAIN state.affinityMap -> AffinityState]
  BY <1>1, AffinityMapType, Zenon DEF BalancerState
<1>3. state.endpoints \in Seq(Endpoints) /\ state.index \in Nat
  BY <1>1 DEF BalancerState
<1>4. ASSUME state.endpoints # <<>>
      PROVE  /\ state.index + 1 \in DOMAIN state.endpoints
             /\ (state.index + 1) % Len(state.endpoints) \in Nat
             /\ (state.index + 1) % Len(state.endpoints) < Len(state.endpoints)
  <2>1. state.index < Len(state.endpoints)
    BY <1>4 DEF EntryOK
  <2>2. Len(state.endpoints) \in Nat /\ Len(state.endpoints) > 0
    BY <1>3, <2>1, SMTT(20)
  <2>3. \A a, b \in Nat : b > 0 => a % b \in Nat /\ a % b < b
    OBVIOUS
  <2> QED
    BY <1>3, <2>1, <2>2, <2>3, SMTT(20)
<1> QED
  BY <1>2, <1>3, <1>4, ZenonT(30)

(* The entry TakeNext writes.                                              *)
LEMMA TakeNextEntry ==
    ASSUME NEW state, EntryOK(state), state.endpoints # <<>>, NEW client \in Clients
    PROVE  LET e == state.endpoints[state.index + 1]
               new == [state EXCEPT
                         !.index = (state.index + 1) % Len(state.endpoints),
                         !.affinityMap = recordAffinity(state, client, e)]
           IN  /\ e \in Range(state.endpoints)
               /\ EntryOK(new) /\ new.endpoints = state.endpoints
<1> DEFINE e == state.endpoints[state.index + 1]
           i == (state.index + 1) % Len(state.endpoints)
           m == recordAffinity(state, client, e)
<1>1. /\ i \in Nat /\ i < Len(state.endpoints)
      /\ e \in Range(state.endpoints) /\ e \in Endpoints
  BY EntryFacts, SMTT(20) DEF Range
<1>2. [endpoint |-> e, age |-> 0] \in AffinityState
  BY <1>1, ConstantsAssumption, SMTT(20) DEF AffinityState, Age
<1>3. CASE isSessionAffinity(state)
  <2>1. m = [c \in DOMAIN state.affinityMap \cup {client} |->
               IF c = client THEN [endpoint |-> e, age |-> 0]
               ELSE state.affinityMap[c]]
    BY <1>3, Zenon DEF recordAffinity
  <2>2. DOMAIN m \subseteq Clients /\ m \in [DOMAIN m -> AffinityState]
    BY <1>2, <2>1, EntryFacts, SMTT(20)
  <2>3. \A c \in DOMAIN m : m[c].endpoint \in Range(state.endpoints)
    BY <1>1, <2>1 DEF EntryOK
  <2> HIDE DEF m, i, e
  <2>4. EntryOK([state EXCEPT !.affinityMap = m])
    BY <2>2, <2>3, AffinityEntry, Zenon
  <2>5. EntryOK([state EXCEPT !.index = i, !.affinityMap = m])
    BY <1>1, <2>4, Zenon DEF EntryOK, BalancerState
  <2> QED
    BY <1>1, <2>5, Zenon DEF i, m, e, EntryOK, BalancerState
<1>4. CASE ~isSessionAffinity(state)
  <2>1. m = state.affinityMap
    BY <1>4 DEF recordAffinity
  <2> HIDE DEF m, i, e
  <2>2. EntryOK([state EXCEPT !.index = i, !.affinityMap = m])
    BY <1>1, <2>1, Zenon DEF EntryOK, BalancerState
  <2> QED
    BY <1>1, <2>2, Zenon DEF i, m, e, EntryOK, BalancerState
<1> QED
  BY <1>3, <1>4, Zenon

(* policy.Sync returns a policy of the same name; the ring of a consistent *)
(* hash becomes the given endpoints.                                       *)
LEMMA SyncFacts ==
    ASSUME NEW policy \in Policy, NEW S \in SUBSET Endpoints
    PROVE  /\ Sync(policy, S) \in Policy
           /\ Sync(policy, S).name = policy.name
           /\ policy.name = "CONSISTENT_HASH" => Sync(policy, S).ring = S
<1>1. policy.ring \in SUBSET Endpoints
  BY DEF Policy
<1>2. updateHashRing(policy.ring, S) = S
  BY <1>1 DEF updateHashRing
<1> QED
  BY <1>1, <1>2, Zenon DEF Sync, Policy

(* The policy setLoadBalancerPolicy stores has the endpoints of the entry. *)
LEMMA NewPolicyFacts ==
    ASSUME NEW dr \in Rules, dr.policyName \in Supported, NEW s \in Seq(Endpoints)
    PROVE  /\ newPolicy(dr, s) \in Policy
           /\ newPolicy(dr, s).name = "CONSISTENT_HASH" =>
                newPolicy(dr, s).ring = Range(s)
<1>1. dr \in RuleType
  BY ConstantsAssumption
<1>2. dr.hashKey \in HashKeys /\ "" \in HashKeys
  BY <1>1, Zenon DEF RuleType, HashKeys
<1>3. Range(s) \in SUBSET Endpoints
  BY EmptyRange
<1> QED
  BY <1>2, <1>3, Zenon DEF newPolicy, Policy, Supported

-----------------------------------------------------------------------------
(* Every action preserves IInv *)

LEMMA InitInv == Init => IInv
<1> SUFFICES ASSUME Init PROVE IInv
  OBVIOUS
<1>1. ServicesOK /\ PolicyMapOK
  BY DEF Init, ServicesOK, PolicyMapOK
<1>2. RestOK
  BY Zenon DEF Init, RestOK, AnswerType
<1>3. EndpointsNeverStale /\ RingMatchesEndpoints /\ AnswerLive
  BY DEF Init, EndpointsNeverStale, RingMatchesEndpoints, AnswerLive
<1> QED
  BY <1>1, <1>2, <1>3, ZenonT(30) DEF IInv

(* A step that changes only lb.services, returns nothing, and keeps or     *)
(* empties the endpoints of every entry.                                   *)
LEMMA ServicesStep ==
    ASSUME IInv, UNCHANGED <<policyMap, epObj, drObj, panicked>>, answer' = Nil,
           NEW D \in SUBSET SvcPort,
           services' = [sp \in D |-> services'[sp]],
           \A sp \in D :
             /\ EntryOK(services'[sp])
             /\ \/ services'[sp].endpoints = <<>>
                \/ /\ sp \in DOMAIN services
                   /\ services'[sp].endpoints = services[sp].endpoints
    PROVE  IInv'
<1> USE DEF IInv
<1>1. DOMAIN services' = D
  OBVIOUS
<1>2. ServicesOK'
  <2>1. services' \in [D -> BalancerState]
    BY DEF EntryOK
  <2> QED
    BY <1>1, <2>1, Zenon DEF ServicesOK
<1>3. PolicyMapOK' /\ RestOK'
  BY DEF PolicyMapOK, RestOK, AnswerType, EndpointsObject
<1>4. \A sp \in D : services'[sp].endpoints = <<>> => Range(services'[sp].endpoints) = {}
  BY EmptyRange DEF EntryOK, BalancerState
<1>5. EndpointsNeverStale'
  BY <1>1, <1>4, Zenon DEF EndpointsNeverStale
<1>6. RingMatchesEndpoints'
  BY <1>1, ZenonT(30) DEF RingMatchesEndpoints
<1>7. AnswerLive'
  BY DEF AnswerLive
<1> QED
  BY <1>2, <1>3, <1>5, <1>6, <1>7, ZenonT(30)

LEMMA NewServiceInv ==
    ASSUME IInv, NEW svcPort \in SvcPort, NEW type \in AffinityTypes,
           NEW ttl \in Ttls \cup {0}, NewService(svcPort, type, ttl)
    PROVE  IInv'
<1> DEFINE D == DOMAIN services \cup {svcPort}
<1>1. D \in SUBSET SvcPort
  BY DEF IInv, ServicesOK
<1>2. /\ services' = [sp \in D |-> services'[sp]]
      /\ \A sp \in D : services'[sp] = IF sp = svcPort
                                      THEN newServiceInternal(sp, type, ttl)
                                      ELSE services[sp]
  BY Zenon DEF NewService
<1>3. ASSUME NEW sp \in D
      PROVE  /\ EntryOK(services'[sp])
             /\ \/ services'[sp].endpoints = <<>>
                \/ /\ sp \in DOMAIN services
                   /\ services'[sp].endpoints = services[sp].endpoints
  <2>1. CASE sp = svcPort
    BY <1>2, <2>1, NewServiceEntry DEF IInv
  <2>2. CASE sp # svcPort
    BY <1>2, <2>2, Zenon DEF IInv, ServicesOK
  <2> QED
    BY <2>1, <2>2, Zenon
<1> HIDE DEF D
<1> QED
  BY <1>1, <1>2, <1>3, ServicesStep, Zenon DEF NewService

LEMMA DeleteServiceInv ==
    ASSUME IInv, NEW svcPort \in SvcPort, DeleteService(svcPort)
    PROVE  IInv'
<1> DEFINE D == DOMAIN services \ {svcPort}
<1>1. D \in SUBSET SvcPort
  BY DEF IInv, ServicesOK
<1>2. services' = [sp \in D |-> services'[sp]] /\ \A sp \in D : services'[sp] = services[sp]
  BY DEF DeleteService, Restrict
<1>3. \A sp \in D : EntryOK(services'[sp])
  BY <1>2 DEF IInv, ServicesOK
<1>4. \A sp \in D : sp \in DOMAIN services
  OBVIOUS
<1> HIDE DEF D
<1> QED
  BY <1>1, <1>2, <1>3, <1>4, ServicesStep, Zenon DEF DeleteService

LEMMA CleanupInv ==
    ASSUME IInv, NEW svcPort \in SvcPort, CleanupStaleStickySessions(svcPort)
    PROVE  IInv'
<1> DEFINE D == DOMAIN services
           state == services[svcPort]
           kept == {c \in DOMAIN state.affinityMap :
                      state.affinityMap[c].age < state.ttlSeconds}
           m == Restrict(state.affinityMap, kept)
<1>1. EntryOK(state) /\ svcPort \in D /\ D \in SUBSET SvcPort
  BY DEF IInv, ServicesOK, CleanupStaleStickySessions
<1>2. services' = [services EXCEPT ![svcPort] = [state EXCEPT !.affinityMap = m]]
  BY DEF CleanupStaleStickySessions, IInv, ServicesOK, BalancerState
<1>3. EntryOK([state EXCEPT !.affinityMap = m])
  <2>1. DOMAIN m \subseteq DOMAIN state.affinityMap
        /\ m = [c \in DOMAIN m |-> state.affinityMap[c]]
    BY DEF Restrict
  <2>2. DOMAIN m \subseteq Clients /\ m \in [DOMAIN m -> AffinityState]
    BY <1>1, <2>1, EntryFacts, Zenon
  <2>3. \A c \in DOMAIN m : m[c].endpoint \in Range(state.endpoints)
    BY <1>1, <2>1, Zenon DEF EntryOK
  <2> HIDE DEF m
  <2> QED
    BY <1>1, <2>2, <2>3, AffinityEntry, ZenonT(30)
<1>4. [state EXCEPT !.affinityMap = m].endpoints = state.endpoints
  BY <1>1, Zenon DEF EntryOK, BalancerState
<1> HIDE DEF m
<1>5. services' = [sp \in D |-> services'[sp]]
      /\ \A sp \in D : IF sp = svcPort
                      THEN services'[sp] = [state EXCEPT !.affinityMap = m]
                      ELSE services'[sp] = services[sp]
  BY <1>2, Zenon DEF IInv, ServicesOK
<1>6. ASSUME NEW sp \in D
      PROVE  EntryOK(services'[sp]) /\ services'[sp].endpoints = services[sp].endpoints
  <2>1. CASE sp = svcPort
    BY <1>3, <1>4, <1>5, <2>1, Zenon
  <2>2. CASE sp # svcPort
    BY <1>5, <2>2, Zenon DEF IInv, ServicesOK
  <2> QED
    BY <2>1, <2>2, Zenon
<1> QED
  BY <1>1, <1>5, <1>6, ServicesStep, Zenon DEF CleanupStaleStickySessions

LEMMA TickInv ==
    ASSUME IInv, Tick
    PROVE  IInv'
<1> DEFINE D == DOMAIN services
<1>1. D \in SUBSET SvcPort
  BY DEF IInv, ServicesOK
<1>2. services' = [sp \in D |-> services'[sp]] /\ \A sp \in D : services'[sp] = older(services[sp])
  BY DEF Tick
<1>3. ASSUME NEW state, EntryOK(state)
      PROVE  EntryOK(older(state)) /\ older(state).endpoints = state.endpoints
  <2> DEFINE m == [c \in DOMAIN state.affinityMap |->
                     [state.affinityMap[c] EXCEPT !.age = IF @ < DefaultTtl THEN @ + 1 ELSE @]]
  <2>1. DOMAIN m = DOMAIN state.affinityMap /\ DOMAIN m \subseteq Clients
    BY <1>3, EntryFacts, Zenon
  <2>2. ASSUME NEW c \in DOMAIN m
        PROVE  m[c] \in AffinityState /\ m[c].endpoint = state.affinityMap[c].endpoint
    <3>1. state.affinityMap[c] \in AffinityState
      BY <1>3, <2>1, EntryFacts, ZenonT(30)
    <3> QED
      BY <3>1, ConstantsAssumption DEF AffinityState, Age
  <2>3. m \in [DOMAIN m -> AffinityState]
    BY <2>2, Zenon
  <2>4. \A c \in DOMAIN m : m[c].endpoint \in Range(state.endpoints)
    BY <1>3, <2>1, <2>2, ZenonT(30) DEF EntryOK
  <2>5. older(state) = [state EXCEPT !.affinityMap = m]
    BY DEF older
  <2> HIDE DEF m
  <2>6. EntryOK([state EXCEPT !.affinityMap = m])
    BY <1>3, <2>1, <2>3, <2>4, AffinityEntry, ZenonT(30)
  <2> QED
    BY <1>3, <2>5, <2>6, ZenonT(30) DEF EntryOK, BalancerState
<1>4. \A sp \in D : EntryOK(services'[sp]) /\ services'[sp].endpoints = services[sp].endpoints
  BY <1>2, <1>3, Zenon DEF IInv, ServicesOK
<1> QED
  BY <1>1, <1>2, <1>4, ServicesStep, ZenonT(30) DEF Tick

(* A callback of the Endpoints informer: entries of the ports in set get   *)
(* the endpoints of obj, those in gone get none, and their policies are    *)
(* synced alike; entries of the name left alone have what obj says.        *)
LEMMA EndpointsStep ==
    ASSUME IInv, NEW n \in Names, NEW obj \in EndpointsObject \cup {Nil},
           NEW set \in SUBSET SvcPort, NEW gone \in SUBSET SvcPort,
           set \cap gone = {}, obj = Nil => set = {},
           \A sp \in set : sp[1] = n,
           services' = [sp \in DOMAIN services \cup set |-> services'[sp]],
           \A sp \in set : EntryOK(services'[sp])
                            /\ Range(services'[sp].endpoints) = obj[sp[2]],
           \A sp \in DOMAIN services \cap gone :
              EntryOK(services'[sp]) /\ services'[sp].endpoints = <<>>,
           \A sp \in DOMAIN services \ (set \cup gone) :
              /\ services'[sp] = services[sp]
              /\ sp[1] = n =>
                   \/ services[sp].endpoints = <<>>
                   \/ obj # Nil /\ Range(services[sp].endpoints) = obj[sp[2]],
           policyMap' = [sp \in DOMAIN policyMap |->
              IF sp \in set THEN Sync(policyMap[sp], obj[sp[2]])
              ELSE IF sp \in gone THEN Sync(policyMap[sp], {})
              ELSE policyMap[sp]],
           epObj' = [epObj EXCEPT ![n] = obj],
           answer' = Nil, UNCHANGED <<drObj, panicked>>
    PROVE  IInv'
<1> DEFINE D == DOMAIN services \cup set
<1>1. DOMAIN services' = D /\ D \in SUBSET SvcPort
  BY DEF IInv, ServicesOK
<1>2. \A sp \in D : EntryOK(services'[sp])
  BY DEF IInv, ServicesOK
<1>3. ServicesOK'
  <2>1. services' \in [D -> BalancerState]
    BY <1>2, Zenon DEF EntryOK
  <2> QED
    BY <1>1, <1>2, <2>1, ZenonT(30) DEF ServicesOK
<1>4. \A sp \in set : sp[2] \in Ports /\ obj[sp[2]] \in SUBSET Endpoints
  BY Zenon DEF SvcPort, EndpointsObject
<1>5. \A sp \in DOMAIN policyMap :
         /\ policyMap'[sp] \in Policy /\ policyMap'[sp].name = policyMap[sp].name
         /\ sp \in set /\ policyMap[sp].name = "CONSISTENT_HASH" =>
              policyMap'[sp].ring = obj[sp[2]]
         /\ sp \notin set \cup gone => policyMap'[sp] = policyMap[sp]
  BY <1>4, SyncFacts DEF IInv, PolicyMapOK
<1>6. PolicyMapOK'
  <2>1. DOMAIN policyMap' = DOMAIN policyMap
    OBVIOUS
  <2> QED
    BY <1>5, <2>1, Zenon DEF IInv, PolicyMapOK
<1>7. RestOK'
  BY DEF IInv, RestOK, AnswerType
<1>8. epObj'[n] = obj /\ \A x \in Names \ {n} : epObj'[x] = epObj[x]
  BY DEF IInv, RestOK
<1>9. \A sp \in D : services'[sp].endpoints = <<>> <=> Range(services'[sp].endpoints) = {}
  BY <1>2, EmptyRange, Zenon DEF EntryOK, BalancerState
<1>10. EndpointsNeverStale'
  <2> SUFFICES ASSUME NEW sp \in D
               PROVE  \/ Range(services'[sp].endpoints) = {}
                      \/ /\ epObj'[sp[1]] # Nil
                         /\ Range(services'[sp].endpoints) = epObj'[sp[1]][sp[2]]
    BY <1>1, Zenon DEF EndpointsNeverStale
  <2>1. sp[1] \in Names
    BY <1>1, Zenon DEF SvcPort
  <2>2. CASE sp \in set
    <3>1. obj # Nil /\ sp[1] = n /\ Range(services'[sp].endpoints) = obj[sp[2]]
      BY <2>2
    <3> QED
      BY <1>8, <3>1, Zenon
  <2>3. CASE sp \in gone \ set
    <3>1. services'[sp].endpoints = <<>>
      BY <2>3, Zenon
    <3> QED
      BY <1>9, <3>1, Zenon
  <2>4. CASE sp \notin set \cup gone
    <3>1. /\ sp \in DOMAIN services /\ services'[sp] = services[sp]
          /\ sp[1] = n => \/ services[sp].endpoints = <<>>
                          \/ obj # Nil /\ Range(services[sp].endpoints) = obj[sp[2]]
      BY <2>4
    <3>2. CASE sp[1] = n
      BY <1>8, <1>9, <3>1, <3>2, Zenon
    <3>3. CASE sp[1] # n
      <4>1. \/ Range(services[sp].endpoints) = {}
            \/ epObj[sp[1]] # Nil /\ Range(services[sp].endpoints) = epObj[sp[1]][sp[2]]
        BY <3>1, Zenon DEF IInv, EndpointsNeverStale
      <4> QED
        BY <1>8, <2>1, <3>1, <3>3, <4>1, ZenonT(30)
    <3> QED
      BY <3>2, <3>3, ZenonT(30)
  <2> QED
    BY <2>2, <2>3, <2>4, ZenonT(30)
<1>11. RingMatchesEndpoints'
  <2> SUFFICES ASSUME NEW sp \in D, sp \in DOMAIN policyMap,
                      policyMap'[sp].name = "CONSISTENT_HASH",
                      services'[sp].endpoints # <<>>
               PROVE  policyMap'[sp].ring = Range(services'[sp].endpoints)
    BY <1>1, Zenon DEF RingMatchesEndpoints
  <2>1. policyMap[sp].name = "CONSISTENT_HASH"
    BY <1>5, Zenon
  <2>2. CASE sp \in set
    BY <1>5, <2>1, <2>2, ZenonT(30)
  <2>3. CASE sp \in gone \ set
    BY <2>3, Zenon
  <2>4. CASE sp \notin set \cup gone
    BY <1>5, <2>1, <2>4, SMTT(20) DEF IInv, RingMatchesEndpoints
  <2> QED
    BY <2>2, <2>3, <2>4, ZenonT(30)
<1>12. AnswerLive'
  BY DEF AnswerLive
<1> QED
  BY <1>3, <1>6, <1>7, <1>10, <1>11, <1>12, ZenonT(30) DEF IInv

(* The registered ports are the ports of the name the object is about.     *)
LEMMA RegisteredFacts ==
    ASSUME NEW n \in Names, NEW obj \in EndpointsObject
    PROVE  /\ RegisteredPorts(n, obj) \in SUBSET SvcPort
           /\ \A sp \in SvcPort : sp \in RegisteredPorts(n, obj)
                                  <=> sp[1] = n /\ obj[sp[2]] # {}
<1>1. \A sp \in SvcPort : sp = <<sp[1], sp[2]>> /\ sp[1] \in Names /\ sp[2] \in Ports
  BY DEF SvcPort
<1>2. \A p \in Ports : <<n, p>> \in SvcPort
  BY DEF SvcPort
<1> QED
  BY <1>1, <1>2, Zenon DEF RegisteredPorts

LEMMA AddInv ==
    ASSUME IInv, NEW n \in Names, NEW obj \in EndpointsObject, OnEndpointsAdd(n, obj)
    PROVE  IInv'
<1> DEFINE set == RegisteredPorts(n, obj)
<1>1. PICK shuffled \in [Ports -> UNION {ShuffleStrings(obj[p]) : p \in Ports}] :
        /\ \A p \in Ports : shuffled[p] \in ShuffleStrings(obj[p])
        /\ services' = [sp \in DOMAIN services \cup set |->
              IF sp \in set
              THEN setEndpoints(newServiceInternal(sp, "", 0), shuffled[sp[2]])
              ELSE services[sp]]
  BY Zenon DEF OnEndpointsAdd
<1>2. /\ set \in SUBSET SvcPort
      /\ \A sp \in set : sp[1] = n /\ sp[2] \in Ports /\ obj[sp[2]] # {}
      /\ \A sp \in SvcPort : sp \in set <=> sp[1] = n /\ obj[sp[2]] # {}
  BY RegisteredFacts DEF SvcPort
<1>3. \A sp \in DOMAIN services : sp[1] = n => services[sp].endpoints = <<>>
  BY EmptyRange, Zenon DEF IInv, ServicesOK, EntryOK, BalancerState, EndpointsNeverStale,
                    OnEndpointsAdd
<1> HIDE DEF set
<1>4. ASSUME NEW sp \in set
      PROVE  EntryOK(services'[sp]) /\ Range(services'[sp].endpoints) = obj[sp[2]]
  <2> DEFINE state == newServiceInternal(sp, "", 0)
             s == shuffled[sp[2]]
             S == obj[sp[2]]
  <2>1. services'[sp] = setEndpoints(state, s)
    BY <1>1, Zenon
  <2>2. EntryOK(state) /\ state.endpoints = <<>>
    <3>1. sp \in SvcPort /\ "" \in AffinityTypes /\ 0 \in Ttls \cup {0} /\ ServicesOK
      BY <1>2 DEF AffinityTypes, IInv
    <3>2. /\ EntryOK(state)
          /\ sp \in DOMAIN services => state.endpoints = services[sp].endpoints
          /\ sp \notin DOMAIN services => state.endpoints = <<>>
      BY <3>1, NewServiceEntry, Zenon
    <3> QED
      BY <1>2, <1>3, <3>2, Zenon
  <2>3. S \in (SUBSET Endpoints) \ {{}} /\ s \in ShuffleStrings(S)
    BY <1>1, <1>2, Zenon DEF EndpointsObject
  <2> HIDE DEF state, s, S
  <2>4. EntryOK(setEndpoints(state, s)) /\ setEndpoints(state, s).endpoints = s
    BY <2>2, <2>3, AddEntry, ZenonT(30)
  <2>5. Range(s) = S
    BY <2>3, ShuffleFacts, ZenonT(30)
  <2> QED
    BY <2>1, <2>4, <2>5, ZenonT(30) DEF S
<1>5. services' = [sp \in DOMAIN services \cup set |-> services'[sp]]
      /\ \A sp \in DOMAIN services \ set : services'[sp] = services[sp]
  BY <1>1, Zenon
<1> DEFINE gone == {}
<1>6. policyMap' = [sp \in DOMAIN policyMap |->
              IF sp \in set THEN Sync(policyMap[sp], obj[sp[2]])
              ELSE IF sp \in gone THEN Sync(policyMap[sp], {})
              ELSE policyMap[sp]]
  BY Zenon DEF OnEndpointsAdd, set
<1>7. obj # Nil /\ gone \in SUBSET SvcPort /\ set \cap gone = {}
  BY ConstantsAssumption DEF EndpointsObject
<1>8. epObj' = [epObj EXCEPT ![n] = obj] /\ answer' = Nil /\ UNCHANGED <<drObj, panicked>>
  BY Zenon DEF OnEndpointsAdd
<1>9. \A sp \in DOMAIN services \ (set \cup gone) :
         /\ services'[sp] = services[sp]
         /\ sp[1] = n =>
              \/ services[sp].endpoints = <<>>
              \/ obj # Nil /\ Range(services[sp].endpoints) = obj[sp[2]]
  BY <1>3, <1>5, ZenonT(30)
<1>10. \A sp \in DOMAIN services \cap gone :
          EntryOK(services'[sp]) /\ services'[sp].endpoints = <<>>
  OBVIOUS
<1>11. services' = [sp \in DOMAIN services \cup set |-> services'[sp]]
  BY <1>5
<1>12. set \in SUBSET SvcPort /\ \A sp \in set : sp[1] = n
  BY <1>2
<1> HIDE DEF gone
<1> QED
  BY <1>4, <1>6, <1>7, <1>8, <1>9, <1>10, <1>11, <1>12, EndpointsStep, ZenonT(30)

LEMMA UpdateInv ==
    ASSUME IInv, NEW n \in Names, NEW obj \in EndpointsObject, OnEndpointsUpdate(n, obj)
    PROVE  IInv'
<1> DEFINE set == ChangedPorts(n, obj)
           gone == MissingPorts(n, obj)
<1>1. PICK shuffled \in [Ports -> UNION {ShuffleStrings(obj[p]) : p \in Ports}] :
        /\ \A p \in Ports : shuffled[p] \in ShuffleStrings(obj[p])
        /\ services' = [sp \in DOMAIN services \cup set |->
              IF sp \in set
              THEN LET state == newServiceInternal(sp, "", 0)
                   IN  [setEndpoints(state, shuffled[sp[2]]) EXCEPT
                          !.affinityMap = removeStaleAffinity(state, obj[sp[2]])]
              ELSE IF sp \in gone THEN resetService(services[sp])
              ELSE services[sp]]
  BY Zenon DEF OnEndpointsUpdate
<1>2. epObj[n] \in EndpointsObject
  BY Zenon DEF OnEndpointsUpdate, IInv, RestOK
<1>3. /\ set \in SUBSET SvcPort /\ gone \in SUBSET SvcPort /\ set \cap gone = {}
      /\ \A sp \in set : sp[1] = n /\ sp[2] \in Ports /\ obj[sp[2]] # {}
  BY <1>2, RegisteredFacts, SMTT(20) DEF ChangedPorts, MissingPorts, SvcPort
<1>4. ASSUME NEW sp \in DOMAIN services, sp \notin set \cup gone, sp[1] = n
      PROVE  \/ services[sp].endpoints = <<>>
             \/ obj # Nil /\ Range(services[sp].endpoints) = obj[sp[2]]
  <2>1. sp \in SvcPort
    BY DEF IInv, ServicesOK
  <2>2. CASE obj[sp[2]] # {}
    <3>1. sp \in RegisteredPorts(n, obj)
      BY <1>4, <2>1, <2>2, RegisteredFacts, ZenonT(30)
    <3>2. Range(services[sp].endpoints) = obj[sp[2]]
      BY <1>4, <3>1, ZenonT(30) DEF ChangedPorts
    <3> QED
      BY <3>2, ConstantsAssumption, ZenonT(30) DEF EndpointsObject
  <2>3. CASE obj[sp[2]] = {}
    <3>1. sp \notin RegisteredPorts(n, obj)
      BY <2>1, <2>3, RegisteredFacts, SMTT(20)
    <3>2. sp \notin RegisteredPorts(n, epObj[n])
      BY <1>4, <3>1, ZenonT(30) DEF MissingPorts
    <3>3. epObj[n][sp[2]] = {}
      BY <1>2, <1>4, <2>1, <3>2, RegisteredFacts, ZenonT(30)
    <3>4. Range(services[sp].endpoints) = {}
      BY <1>4, <3>3, Zenon DEF IInv, EndpointsNeverStale
    <3> QED
      BY <3>4, EmptyRange, Zenon DEF IInv, ServicesOK, EntryOK, BalancerState
  <2> QED
    BY <2>2, <2>3, Zenon
<1> HIDE DEF set, gone
<1>5. ASSUME NEW sp \in set
      PROVE  EntryOK(services'[sp]) /\ Range(services'[sp].endpoints) = obj[sp[2]]
  <2> DEFINE state == newServiceInternal(sp, "", 0)
             s == shuffled[sp[2]]
             S == obj[sp[2]]
             new == [setEndpoints(state, s) EXCEPT !.affinityMap = removeStaleAffinity(state, S)]
  <2>1. services'[sp] = new
    BY <1>1, Zenon
  <2>2. EntryOK(state)
    <3>1. sp \in SvcPort /\ "" \in AffinityTypes /\ 0 \in Ttls \cup {0} /\ ServicesOK
      BY <1>3 DEF AffinityTypes, IInv
    <3> QED
      BY <3>1, NewServiceEntry, Zenon
  <2>3. S \in (SUBSET Endpoints) \ {{}} /\ s \in ShuffleStrings(S)
    BY <1>1, <1>3, Zenon DEF EndpointsObject
  <2> HIDE DEF state, s, S
  <2>4. EntryOK(new) /\ new.endpoints = s
    BY <2>2, <2>3, UpdateEntry
  <2>5. Range(s) = S
    BY <2>3, ShuffleFacts, Zenon
  <2> QED
    BY <2>1, <2>4, <2>5, ZenonT(30) DEF S
<1>6. /\ services' = [sp \in DOMAIN services \cup set |-> services'[sp]]
      /\ \A sp \in DOMAIN services \cap gone : services'[sp] = resetService(services[sp])
      /\ \A sp \in DOMAIN services \ (set \cup gone) : services'[sp] = services[sp]
  BY <1>1, <1>3, Zenon
<1>7. \A sp \in DOMAIN services \cap gone :
         EntryOK(services'[sp]) /\ services'[sp].endpoints = <<>>
  BY <1>6, ResetEntry, SMTT(20) DEF IInv, ServicesOK
<1>8. policyMap' = [sp \in DOMAIN policyMap |->
              IF sp \in set THEN Sync(policyMap[sp], obj[sp[2]])
              ELSE IF sp \in gone THEN Sync(policyMap[sp], {})
              ELSE policyMap[sp]]
  BY Zenon DEF OnEndpointsUpdate, set, gone
<1>9. obj # Nil /\ \A sp \in set : sp[1] = n
  BY <1>3, ConstantsAssumption, ZenonT(30) DEF EndpointsObject
<1>10. epObj' = [epObj EXCEPT ![n] = obj] /\ answer' = Nil /\ UNCHANGED <<drObj, panicked>>
  BY Zenon DEF OnEndpointsUpdate
<1>11. \A sp \in DOMAIN services \ (set \cup gone) :
         /\ services'[sp] = services[sp]
         /\ sp[1] = n =>
              \/ services[sp].endpoints = <<>>
              \/ obj # Nil /\ Range(services[sp].endpoints) = obj[sp[2]]
  BY <1>4, <1>6, ZenonT(30)
<1>12. set \in SUBSET SvcPort /\ gone \in SUBSET SvcPort /\ set \cap gone = {}
  BY <1>3
<1>13. services' = [sp \in DOMAIN services \cup set |-> services'[sp]]
  BY <1>6
<1> QED
  BY <1>5, <1>7, <1>8, <1>9, <1>10, <1>11, <1>12, <1>13, EndpointsStep, ZenonT(30)

LEMMA DeleteInv ==
    ASSUME IInv, NEW n \in Names, OnEndpointsDelete(n)
    PROVE  IInv'
<1> DEFINE set == {}
           gone == RegisteredPorts(n, epObj[n])
           obj == Nil
<1>1. epObj[n] \in EndpointsObject
  BY DEF OnEndpointsDelete, IInv, RestOK
<1>2. gone \in SUBSET SvcPort /\ set \in SUBSET SvcPort /\ set \cap gone = {}
  BY <1>1, RegisteredFacts, ZenonT(30)
<1>3. ASSUME NEW sp \in DOMAIN services, sp \notin set \cup gone, sp[1] = n
      PROVE  services[sp].endpoints = <<>>
  <2>1. sp \in SvcPort
    BY DEF IInv, ServicesOK
  <2>2. epObj[n][sp[2]] = {}
    BY <1>1, <1>3, <2>1, RegisteredFacts, ZenonT(30)
  <2>3. Range(services[sp].endpoints) = {}
    BY <1>3, <2>2, Zenon DEF IInv, EndpointsNeverStale
  <2> QED
    BY <2>3, EmptyRange, Zenon DEF IInv, ServicesOK, EntryOK, BalancerState
<1>4. /\ services' = [sp \in DOMAIN services \cup set |-> services'[sp]]
      /\ \A sp \in DOMAIN services \cap gone : services'[sp] = resetService(services[sp])
      /\ \A sp \in DOMAIN services \ (set \cup gone) : services'[sp] = services[sp]
  BY Zenon DEF OnEndpointsDelete
<1>5. \A sp \in DOMAIN services \cap gone :
         EntryOK(services'[sp]) /\ services'[sp].endpoints = <<>>
  BY <1>4, ResetEntry DEF IInv, ServicesOK
<1>6. policyMap' = [sp \in DOMAIN policyMap |->
              IF sp \in set THEN Sync(policyMap[sp], obj[sp[2]])
              ELSE IF sp \in gone THEN Sync(policyMap[sp], {})
              ELSE policyMap[sp]]
  BY Zenon DEF OnEndpointsDelete
<1>7. epObj' = [epObj EXCEPT ![n] = obj] /\ answer' = Nil /\ UNCHANGED <<drObj, panicked>>
  BY Zenon DEF OnEndpointsDelete
<1>8. /\ \A sp \in set : sp[1] = n
      /\ \A sp \in set : EntryOK(services'[sp])
                         /\ Range(services'[sp].endpoints) = obj[sp[2]]
  OBVIOUS
<1>9. obj \in EndpointsObject \cup {Nil} /\ (obj = Nil => set = {})
  OBVIOUS
<1>10. \A sp \in DOMAIN services \ (set \cup gone) :
         /\ services'[sp] = services[sp]
         /\ sp[1] = n =>
              \/ services[sp].endpoints = <<>>
              \/ obj # Nil /\ Range(services[sp].endpoints) = obj[sp[2]]
  BY <1>3, <1>4, ZenonT(30)
<1>11. services' = [sp \in DOMAIN services \cup set |-> services'[sp]]
  BY <1>4, ZenonT(30)
<1> HIDE DEF set, gone, obj
<1> QED
  BY <1>2, <1>5, <1>6, <1>7, <1>8, <1>9, <1>10, <1>11, EndpointsStep, Zenon

(* A step that changes policyMap and drObj only.                           *)
LEMMA RuleStep ==
    ASSUME IInv, UNCHANGED <<services, epObj>>, answer' = Nil,
           panicked' \in BOOLEAN, drObj' \in [Names -> Rules \cup {Nil}],
           PolicyMapOK', RingMatchesEndpoints'
    PROVE  IInv'
<1>1. ServicesOK' /\ EndpointsNeverStale'
  BY Zenon DEF IInv, ServicesOK, EndpointsNeverStale
<1>2. RestOK' /\ AnswerLive'
  BY DEF IInv, RestOK, AnswerType, AnswerLive
<1> QED
  BY <1>1, <1>2 DEF IInv

(* setLoadBalancerPolicy gives every port of the name a policy of its own. *)
LEMMA SetPolicyInv ==
    ASSUME IInv, NEW n \in Names, NEW dr \in Rules, UNCHANGED services,
           setLoadBalancerPolicy(n, dr)
    PROVE  PolicyMapOK' /\ RingMatchesEndpoints'
<1> DEFINE set == IF dr.policyName \in Supported THEN ServicePortsOf(n) ELSE {}
           D == DOMAIN policyMap \cup set
<1>1. DOMAIN policyMap' = D /\ policyMap' = [sp \in D |-> policyMap'[sp]]
      /\ \A sp \in D : policyMap'[sp] = IF sp \in set
                                       THEN newPolicy(dr, services[sp].endpoints)
                                       ELSE policyMap[sp]
  BY Zenon DEF setLoadBalancerPolicy
<1>2. set \subseteq DOMAIN services /\ D \subseteq SvcPort
      /\ (set # {} => dr.policyName \in Supported)
  BY Zenon DEF ServicePortsOf, IInv, ServicesOK, PolicyMapOK
<1>3. ASSUME NEW sp \in set
      PROVE  /\ policyMap'[sp] \in Policy
             /\ policyMap'[sp].name = "CONSISTENT_HASH" =>
                  policyMap'[sp].ring = Range(services[sp].endpoints)
  <2>1. services[sp].endpoints \in Seq(Endpoints)
    BY <1>2, EntryFacts, ZenonT(30) DEF IInv, ServicesOK
  <2>2. dr.policyName \in Supported
    BY <1>2, Zenon
  <2>3. policyMap'[sp] = newPolicy(dr, services[sp].endpoints)
    BY <1>1, Zenon
  <2> QED
    BY <2>1, <2>2, <2>3, NewPolicyFacts, ZenonT(30)
<1> HIDE DEF set
<1>4. \A sp \in D : policyMap'[sp] \in Policy
  BY <1>1, <1>3, Zenon DEF IInv, PolicyMapOK
<1>5. PolicyMapOK'
  BY <1>1, <1>2, <1>4, Zenon DEF PolicyMapOK
<1>6. RingMatchesEndpoints'
  <2> SUFFICES ASSUME NEW sp \in DOMAIN services \cap D,
                      policyMap'[sp].name = "CONSISTENT_HASH",
                      services[sp].endpoints # <<>>
               PROVE  policyMap'[sp].ring = Range(services[sp].endpoints)
    BY <1>1, Zenon DEF RingMatchesEndpoints
  <2>1. CASE sp \in set
    BY <1>3, <2>1, ZenonT(30)
  <2>2. CASE sp \notin set
    BY <1>1, <2>2, ZenonT(30) DEF IInv, RingMatchesEndpoints
  <2> QED
    BY <2>1, <2>2, ZenonT(30)
<1> QED
  BY <1>5, <1>6, Zenon

LEMMA RulesInv ==
    ASSUME IInv, NEW n \in Names, NEW dr \in Rules,
           \/ OnDestinationRuleAdd(n, dr)
           \/ OnDestinationRuleUpdate(n, dr)
           \/ OnDestinationRuleDelete(n)
    PROVE  IInv'
<1>1. drObj \in [Names -> Rules \cup {Nil}] /\ panicked \in BOOLEAN
  BY DEF IInv, RestOK
<1>2. ASSUME UNCHANGED <<services, policyMap>>
      PROVE  PolicyMapOK' /\ RingMatchesEndpoints'
  BY <1>2, Zenon DEF IInv, PolicyMapOK, RingMatchesEndpoints
<1>3. CASE OnDestinationRuleAdd(n, dr)
  <2>1. PolicyMapOK' /\ RingMatchesEndpoints'
    BY <1>3, SetPolicyInv, Zenon DEF OnDestinationRuleAdd
  <2> QED
    BY <1>1, <1>3, <2>1, RuleStep, ZenonT(30) DEF OnDestinationRuleAdd
<1>4. CASE OnDestinationRuleUpdate(n, dr)
  <2>1. PolicyMapOK' /\ RingMatchesEndpoints'
    BY <1>2, <1>4, SetPolicyInv DEF OnDestinationRuleUpdate
  <2>2. panicked' \in BOOLEAN
    BY <1>1, <1>4, Zenon DEF OnDestinationRuleUpdate
  <2>3. UNCHANGED <<services, epObj>> /\ answer' = Nil
        /\ drObj' \in [Names -> Rules \cup {Nil}]
    BY <1>1, <1>4, ZenonT(30) DEF OnDestinationRuleUpdate
  <2> QED
    BY <2>1, <2>2, <2>3, RuleStep, ZenonT(30)
<1>5. CASE OnDestinationRuleDelete(n)
  <2>1. PolicyMapOK' /\ RingMatchesEndpoints'
    <3>1. CASE ServicePortsOf(n) \subseteq DOMAIN policyMap
      <4>1. policyMap' = [sp \in DOMAIN policyMap \ ServicePortsOf(n) |-> policyMap[sp]]
            /\ services' = services
        BY <1>5, <3>1, ZenonT(30) DEF OnDestinationRuleDelete, Restrict
      <4> QED
        BY <4>1, Zenon DEF IInv, PolicyMapOK, RingMatchesEndpoints
    <3>2. CASE ~(ServicePortsOf(n) \subseteq DOMAIN policyMap)
      BY <1>2, <1>5, <3>2, ZenonT(30) DEF OnDestinationRuleDelete
    <3> QED
      BY <3>1, <3>2, ZenonT(30)
  <2>2. panicked' \in BOOLEAN
    BY <1>1, <1>5, Zenon DEF OnDestinationRuleDelete
  <2>3. UNCHANGED <<services, epObj>> /\ answer' = Nil
        /\ drObj' \in [Names -> Rules \cup {Nil}]
    BY <1>1, <1>5, ZenonT(30) DEF OnDestinationRuleDelete
  <2> QED
    BY <2>1, <2>2, <2>3, RuleStep
<1> QED
  BY <1>3, <1>4, <1>5, ZenonT(30)

(* A step that returns an endpoint of the entry, whose endpoints it keeps. *)
LEMMA AnswerStep ==
    ASSUME IInv, UNCHANGED <<policyMap, epObj, drObj, panicked>>,
           NEW svcPort \in SvcPort, NEW client \in Clients, NEW e,
           svcPort \in DOMAIN services, e \in Range(services[svcPort].endpoints),
           answer' = Returned(svcPort, client, e),
           services' = [sp \in DOMAIN services |-> services'[sp]],
           \A sp \in DOMAIN services :
             EntryOK(services'[sp]) /\ services'[sp].endpoints = services[sp].endpoints
    PROVE  IInv'
<1>1. DOMAIN services' = DOMAIN services
  OBVIOUS
<1>2. ServicesOK'
  <2>1. services' \in [DOMAIN services -> BalancerState]
    BY DEF EntryOK
  <2> QED
    BY <1>1, <2>1, ZenonT(30) DEF IInv, ServicesOK
<1>3. PolicyMapOK'
  BY DEF IInv, PolicyMapOK
<1>4. e \in Endpoints
  BY EntryFacts, EmptyRange, Zenon DEF IInv, ServicesOK
<1>5. RestOK'
  BY <1>4 DEF IInv, RestOK, AnswerType, Returned
<1>6. EndpointsNeverStale' /\ RingMatchesEndpoints'
  BY <1>1, Zenon DEF IInv, EndpointsNeverStale, RingMatchesEndpoints
<1>7. /\ epObj[svcPort[1]] # Nil
      /\ e \in epObj[svcPort[1]][svcPort[2]]
  BY Zenon DEF IInv, EndpointsNeverStale
<1>8. AnswerLive'
  <2>1. answer'.svcPort = svcPort /\ answer'.endpoint = e
    BY DEF Returned
  <2> QED
    BY <1>7, <2>1, SMTT(20) DEF AnswerLive
<1> QED
  BY <1>2, <1>3, <1>5, <1>6, <1>8, ZenonT(30) DEF IInv

LEMMA ConnectionsInv ==
    ASSUME IInv, NEW svcPort \in SvcPort, NEW client \in Clients,
           NEW reset \in BOOLEAN, NEW proto \in Protocols,
           nextEndpointWithConn(svcPort, client, reset, proto)
    PROVE  IInv'
<1> DEFINE state == services[svcPort]
<1>1. ASSUME HasEndpoints(svcPort)
      PROVE  svcPort \in DOMAIN services /\ state.endpoints # <<>> /\ EntryOK(state)
  BY <1>1 DEF HasEndpoints, IInv, ServicesOK
<1>2. /\ services = [sp \in DOMAIN services |-> services[sp]]
      /\ \A sp \in DOMAIN services : EntryOK(services[sp])
  BY DEF IInv, ServicesOK
<1>3. CASE MissingEndpoint(svcPort, client)
  <2>1. UNCHANGED <<services, policyMap, epObj, drObj, panicked>>
    BY <1>3 DEF MissingEndpoint
  <2>2. PICK err \in {"ErrMissingServiceEntry", "ErrMissingEndpoints"} :
          answer' = [svcPort |-> svcPort, client |-> client, err |-> err]
    BY <1>3, Zenon DEF MissingEndpoint, Failed
  <2>3. answer' \in AnswerType
    BY <2>2 DEF AnswerType
  <2>4. "endpoint" \notin DOMAIN answer'
    BY <2>2
  <2>5. ServicesOK' /\ PolicyMapOK' /\ EndpointsNeverStale' /\ RingMatchesEndpoints'
    BY <2>1, Zenon DEF IInv, ServicesOK, PolicyMapOK, EndpointsNeverStale, RingMatchesEndpoints
  <2>6. RestOK' /\ AnswerLive'
    BY <2>1, <2>3, <2>4, ZenonT(30) DEF IInv, RestOK, AnswerLive
  <2> QED
    BY <2>5, <2>6, Zenon DEF IInv
<1>4. CASE PolicyPick(svcPort, client, proto)
  <2>1. PICK e \in Endpoints :
          /\ \/ e \in Range(state.endpoints)
             \/ /\ PolicyApplies(svcPort, "CONSISTENT_HASH")
                /\ e \in policyMap[svcPort].ring
          /\ answer' = Returned(svcPort, client, e)
    BY <1>4, Zenon DEF PolicyPick
  <2>2. UNCHANGED <<services, policyMap, epObj, drObj, panicked>> /\ HasEndpoints(svcPort)
    BY <1>4, Zenon DEF PolicyPick
  <2>3. e \in Range(state.endpoints)
    BY <1>1, <2>1, <2>2, ZenonT(30) DEF PolicyApplies, IInv, RingMatchesEndpoints
  <2> QED
    BY <1>1, <1>2, <2>1, <2>2, <2>3, AnswerStep, ZenonT(30)
<1>5. CASE PickPanic(svcPort, client, proto)
  <2>1. UNCHANGED <<services, policyMap, epObj, drObj>> /\ answer' = Nil /\ panicked' = TRUE
    BY <1>5 DEF PickPanic
  <2>2. ServicesOK' /\ PolicyMapOK' /\ EndpointsNeverStale' /\ RingMatchesEndpoints'
    BY <2>1, Zenon DEF IInv, ServicesOK, PolicyMapOK, EndpointsNeverStale, RingMatchesEndpoints
  <2>3. RestOK' /\ AnswerLive'
    BY <2>1 DEF IInv, RestOK, AnswerLive, AnswerType
  <2> QED
    BY <2>2, <2>3 DEF IInv
<1>6. CASE AffinityWins(svcPort, client, reset, proto)
  <2> DEFINE m == [state.affinityMap EXCEPT ![client].age = 0]
             e == state.affinityMap[client].endpoint
  <2>1. /\ HasEndpoints(svcPort) /\ client \in DOMAIN state.affinityMap
        /\ services' = [services EXCEPT ![svcPort].affinityMap[client].age = 0]
        /\ answer' = Returned(svcPort, client, e)
        /\ UNCHANGED <<policyMap, epObj, drObj, panicked>>
    BY <1>6 DEF AffinityWins, AffinityHolds
  <2>2. services' = [services EXCEPT ![svcPort] = [state EXCEPT !.affinityMap = m]]
    BY <2>1
  <2>3. /\ EntryOK(state) /\ svcPort \in DOMAIN services
        /\ DOMAIN state.affinityMap \subseteq Clients
        /\ state.affinityMap \in [DOMAIN state.affinityMap -> AffinityState]
    BY <1>1, <2>1, EntryFacts, ZenonT(30)
  <2>4. /\ DOMAIN m \subseteq Clients /\ m \in [DOMAIN m -> AffinityState]
        /\ \A c \in DOMAIN m : m[c].endpoint = state.affinityMap[c].endpoint
        /\ DOMAIN m = DOMAIN state.affinityMap
    BY <2>1, <2>3, ConstantsAssumption DEF AffinityState, Age
  <2>5. \A c \in DOMAIN m : m[c].endpoint \in Range(state.endpoints)
    BY <2>3, <2>4 DEF EntryOK
  <2>6. e \in Range(state.endpoints)
    BY <2>1, <2>3 DEF EntryOK
  <2> HIDE DEF m, e
  <2>7. EntryOK([state EXCEPT !.affinityMap = m])
    BY <2>3, <2>4, <2>5, AffinityEntry, ZenonT(30)
  <2>8. [state EXCEPT !.affinityMap = m].endpoints = state.endpoints
    BY <2>3 DEF EntryOK, BalancerState
  <2>9. services' = [sp \in DOMAIN services |-> services'[sp]]
        /\ \A sp \in DOMAIN services :
             EntryOK(services'[sp]) /\ services'[sp].endpoints = services[sp].endpoints
    BY <1>2, <2>2, <2>3, <2>7, <2>8, Zenon
  <2> QED
    BY <2>1, <2>3, <2>6, <2>9, AnswerStep, Zenon
<1>7. CASE TakeNext(svcPort, client, reset, proto)
  <2> DEFINE e == state.endpoints[state.index + 1]
             new == [state EXCEPT
                       !.index = (state.index + 1) % Len(state.endpoints),
                       !.affinityMap = recordAffinity(state, client, e)]
  <2>1. /\ HasEndpoints(svcPort)
        /\ services' = [services EXCEPT ![svcPort] = new]
        /\ answer' = Returned(svcPort, client, e)
        /\ UNCHANGED <<policyMap, epObj, drObj, panicked>>
    BY <1>7 DEF TakeNext
  <2>2. svcPort \in DOMAIN services /\ state.endpoints # <<>> /\ EntryOK(state)
    BY <1>1, <2>1
  <2>3. e \in Range(state.endpoints) /\ EntryOK(new) /\ new.endpoints = state.endpoints
    BY <2>2, TakeNextEntry, Zenon
  <2> HIDE DEF new, e
  <2>4. services' = [sp \in DOMAIN services |-> services'[sp]]
        /\ \A sp \in DOMAIN services :
             EntryOK(services'[sp]) /\ services'[sp].endpoints = services[sp].endpoints
    BY <1>2, <2>1, <2>2, <2>3, Zenon
  <2> QED
    BY <2>1, <2>2, <2>3, <2>4, AnswerStep, Zenon
<1> QED
  BY <1>3, <1>4, <1>5, <1>6, <1>7, ZenonT(30) DEF nextEndpointWithConn

LEMMA NextInv ==
    ASSUME IInv, [Next]_vars
    PROVE  IInv'
<1>1. CASE Calls
  <2>1. PICK sp \in SvcPort :
          \/ \E type \in {"None", "ClientIP"}, ttl \in Ttls \cup {0} :
               NewService(sp, type, ttl)
          \/ DeleteService(sp)
          \/ CleanupStaleStickySessions(sp)
    BY <1>1 DEF Calls
  <2>2. {"None", "ClientIP"} \subseteq AffinityTypes
    BY DEF AffinityTypes
  <2> QED
    BY <2>1, <2>2, NewServiceInv, DeleteServiceInv, CleanupInv, ZenonT(30)
<1>2. CASE Callbacks
  <2>1. PICK n \in Names :
          \/ \E obj \in EndpointsObject : OnEndpointsAdd(n, obj)
          \/ \E obj \in EndpointsObject : OnEndpointsUpdate(n, obj)
          \/ OnEndpointsDelete(n)
          \/ \E dr \in Rules : OnDestinationRuleAdd(n, dr)
          \/ \E dr \in Rules : OnDestinationRuleUpdate(n, dr)
          \/ OnDestinationRuleDelete(n)
    BY <1>2 DEF Callbacks
  <2>2. OnDestinationRuleDelete(n) => drObj[n] \in Rules
    BY DEF OnDestinationRuleDelete, IInv, RestOK
  <2>3. ASSUME NEW dr \in Rules,
               OnDestinationRuleAdd(n, dr) \/ OnDestinationRuleUpdate(n, dr)
                 \/ OnDestinationRuleDelete(n)
        PROVE  IInv'
    BY <2>3, RulesInv, SMTT(20)
  <2> QED
    BY <2>1, <2>2, <2>3, AddInv, UpdateInv, DeleteInv, ZenonT(30)
<1>3. CASE Connections
  BY <1>3, ConnectionsInv DEF Connections
<1>4. CASE Tick
  BY <1>4, TickInv, SMTT(20)
<1>5. CASE Restart
  <2>1. ServicesOK' /\ PolicyMapOK'
    BY <1>5 DEF Restart, ServicesOK, PolicyMapOK
  <2>2. RestOK'
    BY <1>5, Zenon DEF Restart, RestOK, AnswerType
  <2>3. EndpointsNeverStale' /\ RingMatchesEndpoints' /\ AnswerLive'
    BY <1>5 DEF Restart, EndpointsNeverStale, RingMatchesEndpoints, AnswerLive
  <2> QED
    BY <2>1, <2>2, <2>3, SMTT(20) DEF IInv
<1>6. CASE UNCHANGED vars
  BY <1>6, Zenon DEF vars, IInv, ServicesOK, PolicyMapOK, RestOK, EndpointsNeverStale,
              RingMatchesEndpoints, AnswerLive
<1> QED
  BY <1>1, <1>2, <1>3, <1>4, <1>5, <1>6, ZenonT(30) DEF Next

-----------------------------------------------------------------------------
(* The policies whose rule is gone *)

OrphanInv == overlooked \subseteq SvcPort /\ OrphansOverlooked

LEMMA OrphanKept ==
    ASSUME OrphanInv, UNCHANGED <<drObj, panicked, overlooked>>,
           DOMAIN policyMap' = DOMAIN policyMap
    PROVE  OrphanInv'
  BY DEF OrphanInv, OrphansOverlooked

LEMMA RulesOrphans ==
    ASSUME IInv, OrphanInv, NEW n \in Names, NEW dr \in Rules,
           \/ OnDestinationRuleAdd(n, dr)
           \/ OnDestinationRuleUpdate(n, dr)
           \/ OnDestinationRuleDelete(n)
    PROVE  OrphanInv'
<1> DEFINE orphans == {sp \in DOMAIN policyMap : drObj[sp[1]] = Nil}
<1>1. /\ drObj \in [Names -> Rules \cup {Nil}] /\ dr # Nil
      /\ DOMAIN policyMap \subseteq SvcPort /\ overlooked \subseteq SvcPort
      /\ \A sp \in SvcPort : sp[1] \in Names
  BY ConstantsAssumption, Zenon DEF IInv, RestOK, PolicyMapOK, OrphanInv, SvcPort
<1>2. ASSUME setLoadBalancerPolicy(n, dr)
      PROVE  /\ DOMAIN policyMap \subseteq DOMAIN policyMap'
             /\ \A sp \in DOMAIN policyMap' \ DOMAIN policyMap : sp[1] = n
  BY <1>2, Zenon DEF setLoadBalancerPolicy, ServicePortsOf
<1>3. CASE OnDestinationRuleAdd(n, dr)
  <2>1. /\ ~panicked /\ drObj' = [drObj EXCEPT ![n] = dr]
        /\ overlooked' = {sp \in overlooked : sp[1] # n}
        /\ setLoadBalancerPolicy(n, dr)
    BY <1>3, SMTT(20) DEF OnDestinationRuleAdd
  <2>2. overlooked = orphans
    BY <2>1, Zenon DEF OrphanInv, OrphansOverlooked
  <2> QED
    BY <1>1, <1>2, <2>1, <2>2, ZenonT(30) DEF OrphanInv, OrphansOverlooked
<1>4. CASE OnDestinationRuleUpdate(n, dr)
  <2>1. /\ ~panicked /\ drObj[n] # Nil /\ drObj' = [drObj EXCEPT ![n] = dr]
        /\ overlooked' = overlooked
        /\ panicked' \/ setLoadBalancerPolicy(n, dr)
    BY <1>4, Zenon DEF OnDestinationRuleUpdate
  <2>2. overlooked = orphans
    BY <2>1, Zenon DEF OrphanInv, OrphansOverlooked
  <2> QED
    BY <1>1, <1>2, <2>1, <2>2, ZenonT(30) DEF OrphanInv, OrphansOverlooked
<1>5. CASE OnDestinationRuleDelete(n)
  <2>1. /\ ~panicked /\ drObj[n] # Nil /\ drObj' = [drObj EXCEPT ![n] = Nil]
        /\ overlooked' = overlooked \cup
              {sp \in DOMAIN policyMap \ DOMAIN services : sp[1] = n}
        /\ panicked' \/ DOMAIN policyMap' = DOMAIN policyMap \ ServicePortsOf(n)
    BY <1>5, SMTT(20) DEF OnDestinationRuleDelete, Overlooks, Restrict
  <2>2. overlooked = orphans
    BY <2>1, Zenon DEF OrphanInv, OrphansOverlooked
  <2> QED
    BY <1>1, <2>1, <2>2, ZenonT(30) DEF OrphanInv, OrphansOverlooked, ServicePortsOf
<1> QED
  BY <1>3, <1>4, <1>5, ZenonT(30)

LEMMA OrphanStep ==
    ASSUME IInv, OrphanInv, [Next]_vars
    PROVE  OrphanInv'
<1>1. CASE Calls
  <2>1. UNCHANGED <<drObj, panicked, overlooked, policyMap>>
    BY <1>1, Zenon DEF Calls, NewService, DeleteService, CleanupStaleStickySessions
  <2> QED
    BY <2>1, OrphanKept
<1>2. CASE Callbacks
  <2>1. ASSUME NEW n \in Names, NEW obj \in EndpointsObject,
               \/ OnEndpointsAdd(n, obj)
               \/ OnEndpointsUpdate(n, obj)
               \/ OnEndpointsDelete(n)
        PROVE  OrphanInv'
    <3>1. UNCHANGED <<drObj, panicked, overlooked>>
      BY <2>1, Zenon DEF OnEndpointsAdd, OnEndpointsUpdate, OnEndpointsDelete
    <3>2. DOMAIN policyMap' = DOMAIN policyMap
      BY <2>1, ZenonT(30) DEF OnEndpointsAdd, OnEndpointsUpdate, OnEndpointsDelete
    <3> QED
      BY <3>1, <3>2, OrphanKept, ZenonT(30)
  <2>2. ASSUME NEW n \in Names, OnEndpointsDelete(n)
        PROVE  epObj[n] \in EndpointsObject
    BY <2>2 DEF OnEndpointsDelete, IInv, RestOK
  <2>3. ASSUME NEW n \in Names, OnDestinationRuleDelete(n)
        PROVE  drObj[n] \in Rules
    BY <2>3, Zenon DEF OnDestinationRuleDelete, IInv, RestOK
  <2> QED
    BY <1>2, <2>1, <2>2, <2>3, RulesOrphans, ZenonT(30) DEF Callbacks
<1>3. CASE Connections
  <2>1. UNCHANGED <<drObj, overlooked, policyMap>> /\ (panicked' \/ UNCHANGED panicked)
    BY <1>3 DEF Connections, nextEndpointWithConn, MissingEndpoint, PolicyPick, PickPanic,
                AffinityWins, TakeNext
  <2> QED
    BY <2>1, Zenon DEF OrphanInv, OrphansOverlooked
<1>4. CASE Tick
  BY <1>4, OrphanKept, ZenonT(30) DEF Tick
<1>5. CASE Restart
  BY <1>5 DEF Restart, OrphanInv, OrphansOverlooked
<1>6. CASE UNCHANGED vars
  BY <1>6, OrphanKept DEF vars
<1> QED
  BY <1>1, <1>2, <1>3, <1>4, <1>5, <1>6, ZenonT(30) DEF Next

-----------------------------------------------------------------------------
(* The theorems *)

(* The inductive invariant holds in every reachable state.                 *)
THEOREM Invariance == Spec => []IInv
<1>1. Init => IInv
  BY InitInv
<1>2. IInv /\ [Next]_vars => IInv'
  BY NextInv, SMTT(20)
<1> QED
  BY <1>1, <1>2, PTL DEF Spec

(* The inductive invariant implies each property it is made of.            *)
LEMMA InvImplies ==
    IInv /\ OrphanInv => TypeOK /\ EndpointsNeverStale /\ AffinityTargetsLive
                           /\ RingMatchesEndpoints /\ AnswerLive
<1> SUFFICES ASSUME IInv, OrphanInv
             PROVE  TypeOK /\ EndpointsNeverStale /\ AffinityTargetsLive
                      /\ RingMatchesEndpoints /\ AnswerLive
  OBVIOUS
<1>1. TypeOK
  BY DEF IInv, ServicesOK, EntryOK, PolicyMapOK, RestOK, AnswerType, TypeOK, OrphanInv
<1>2. AffinityTargetsLive
  BY DEF IInv, ServicesOK, EntryOK, AffinityTargetsLive
<1> QED
  BY <1>1, <1>2, ZenonT(30) DEF IInv

(* The invariants together.                                                *)
LEMMA Invariants == Spec => [](IInv /\ OrphanInv)
<1>1. Init => OrphanInv
  BY DEF Init, OrphanInv, OrphansOverlooked
<1>2. IInv /\ OrphanInv /\ [Next]_vars => OrphanInv'
  BY OrphanStep
<1> QED
  BY <1>1, <1>2, Invariance, PTL DEF Spec

(* The variables keep their types and the round-robin index never leaves   *)
(* the list that nextEndpointWithConn indexes with it.                     *)
THEOREM TypeCorrect == Spec => []TypeOK
  BY Invariants, InvImplies, PTL

(* A policy outlives its DestinationRule only where the port was not known *)
(* to OnDestinationRuleDelete.                                             *)
THEOREM Orphans == Spec => []OrphansOverlooked
<1>1. OrphanInv => OrphansOverlooked
  BY DEF OrphanInv
<1> QED
  BY <1>1, Invariants, PTL

(* lb.services never holds endpoints of an Endpoints object that was       *)
(* replaced or deleted.                                                    *)
THEOREM NeverStale == Spec => []EndpointsNeverStale
  BY Invariants, InvImplies, PTL

(* Every session affinity record names an endpoint of its service.         *)
THEOREM AffinityLive == Spec => []AffinityTargetsLive
  BY Invariants, InvImplies, PTL

(* The hash ring of a service that has endpoints has exactly these.        *)
THEOREM RingMatches == Spec => []RingMatchesEndpoints
  BY Invariants, InvImplies, PTL

(* nextEndpointWithConn returns endpoints of the current Endpoints object  *)
(* only, whichever policy, affinity record or index chose them.            *)
THEOREM AnswersLive == Spec => []AnswerLive
  BY Invariants, InvImplies, PTL

-----------------------------------------------------------------------------
(* The gateway *)

(* So the gateway, too, hands out live endpoints only, and keeps none of a *)
(* deleted Endpoints object.                                               *)
THEOREM GatewayBalances == SyncSpec => [](EndpointsNeverStale /\ AnswerLive)
  BY SyncRefines, NeverStale, AnswersLive, PTL DEF IsBalancer

-----------------------------------------------------------------------------
(* lb.serviceMap and lb.services *)

(* A callback of the Endpoints informer keeps every entry and the session  *)
(* affinity of each.                                                       *)
LEMMA EndpointsKeepAffinity ==
    ASSUME IInv, NEW n \in Names, NEW obj \in EndpointsObject,
           \/ OnEndpointsAdd(n, obj)
           \/ OnEndpointsUpdate(n, obj)
           \/ OnEndpointsDelete(n),
           NEW sp \in DOMAIN services
    PROVE  /\ sp \in DOMAIN services'
           /\ services'[sp].affinityType = services[sp].affinityType
<1>1. services[sp] \in BalancerState
  BY DEF IInv, ServicesOK
<1>2. newServiceInternal(sp, "", 0) = services[sp]
  BY DEF newServiceInternal
<1>3. \A s : setEndpoints(services[sp], s).affinityType = services[sp].affinityType
  BY <1>1 DEF setEndpoints, BalancerState
<1>4. \A s, m : [setEndpoints(services[sp], s) EXCEPT !.affinityMap = m].affinityType
                  = services[sp].affinityType
  BY <1>1 DEF setEndpoints, BalancerState
<1>5. resetService(services[sp]).affinityType = services[sp].affinityType
  BY <1>1 DEF resetService, BalancerState
<1>6. CASE OnEndpointsAdd(n, obj)
  BY <1>2, <1>3, <1>6, ZenonT(30) DEF OnEndpointsAdd
<1>7. CASE OnEndpointsUpdate(n, obj)
  <2>1. PICK shuffled :
          services' = [x \in DOMAIN services \cup ChangedPorts(n, obj) |->
             IF x \in ChangedPorts(n, obj)
             THEN [setEndpoints(newServiceInternal(x, "", 0), shuffled[x[2]]) EXCEPT
                     !.affinityMap = removeStaleAffinity(newServiceInternal(x, "", 0), obj[x[2]])]
             ELSE IF x \in MissingPorts(n, obj) THEN resetService(services[x])
             ELSE services[x]]
    BY <1>7, ZenonT(30) DEF OnEndpointsUpdate
  <2> QED
    BY <1>2, <1>4, <1>5, <2>1, Zenon
<1>8. CASE OnEndpointsDelete(n)
  BY <1>5, <1>8, SMTT(20) DEF OnEndpointsDelete
<1> QED
  BY <1>6, <1>7, <1>8, ZenonT(30)

LEMMA MergedStep ==
    ASSUME IInv, ObjectsOK, MergedIsBalanced, [SyncNext]_allVars
    PROVE  MergedIsBalanced'
<1>1. CASE EndpointsCallbacks
  <2>1. UNCHANGED serviceMap
    BY <1>1, SMTT(20) DEF EndpointsCallbacks, syncVars
  <2>2. \A sp \in DOMAIN services : /\ sp \in DOMAIN services'
                                    /\ services'[sp].affinityType = services[sp].affinityType
    BY <1>1, EndpointsKeepAffinity, ZenonT(30) DEF EndpointsCallbacks
  <2> QED
    BY <2>1, <2>2 DEF MergedIsBalanced
<1>2. CASE ServiceCallbacks \/ TakeRequest \/ TimerFires
           \/ \E h \in Informers : SyncedCallback(h)
  <2>1. UNCHANGED <<vars, serviceMap>>
    BY <1>2, ZenonT(30) DEF ServiceCallbacks, OnServiceAdd, OnServiceUpdate, OnServiceResync,
                OnServiceDelete, serviceChange, SyncedCallback, StoreSynced, LoadOther,
                StoreInitialized, TakeRequest, TimerFires, StartRun
  <2> QED
    BY <2>1, SMTT(20) DEF vars, MergedIsBalanced
<1>3. ASSUME NEW t \in Threads, NEW p \in Ports, mergeService(t, p)
      PROVE  MergedIsBalanced'
  <2> DEFINE sp == <<task.name, p>>
             info == newInfo(task.current)
             type == info.sessionAffinityType
  <2>1. CASE UNCHANGED <<serviceMap, vars>>
    BY <2>1, Zenon DEF vars, MergedIsBalanced
  <2>2. CASE /\ serviceMap' = [x \in DOMAIN serviceMap \cup {sp} |->
                                 IF x = sp THEN info ELSE serviceMap[x]]
             /\ NewService(sp, type, info.stickyMaxAgeSeconds)
    <3>1. type # ""
      BY <1>3, InfoFits, Zenon DEF mergeService, ObjectsOK
    <3>2. \A x \in DOMAIN services : services[x] \in BalancerState
      BY DEF IInv, ServicesOK
    <3> HIDE DEF sp, info
    <3>3. newServiceInternal(sp, type, info.stickyMaxAgeSeconds).affinityType = type
      BY <3>1, <3>2, Zenon DEF newServiceInternal, emptyState, BalancerState
    <3>4. services' = [x \in DOMAIN services \cup {sp} |->
                         IF x = sp THEN newServiceInternal(x, type, info.stickyMaxAgeSeconds)
                         ELSE services[x]]
      BY <2>2 DEF NewService
    <3> QED
      BY <2>2, <3>3, <3>4, ZenonT(30) DEF MergedIsBalanced
  <2> QED
    BY <1>3, <2>1, <2>2 DEF mergeService
<1>4. ASSUME NEW t \in Threads, NEW p \in Ports, unmergeService(t, p)
      PROVE  MergedIsBalanced'
  <2>1. CASE UNCHANGED <<serviceMap, vars>>
    BY <2>1, Zenon DEF vars, MergedIsBalanced
  <2>2. CASE /\ serviceMap' = Restrict(serviceMap, DOMAIN serviceMap \ {<<task.name, p>>})
             /\ DeleteService(<<task.name, p>>)
    BY <2>2 DEF DeleteService, Restrict, MergedIsBalanced
  <2> QED
    BY <1>4, <2>1, <2>2, ZenonT(30) DEF unmergeService
<1>5. ASSUME NEW t \in Threads, NEW sp \in SvcPort, cleanupStaleStickySessions(t, sp)
      PROVE  MergedIsBalanced'
  <2>1. /\ UNCHANGED serviceMap /\ DOMAIN services' = DOMAIN services
        /\ \A x \in DOMAIN services \ {sp} : services'[x] = services[x]
        /\ \E m : services'[sp] = [services[sp] EXCEPT !.affinityMap = m]
    BY <1>5, Zenon DEF cleanupStaleStickySessions, CleanupStaleStickySessions
  <2>2. \A x \in DOMAIN services : services[x] \in BalancerState
    BY DEF IInv, ServicesOK
  <2>3. \A x \in DOMAIN services : services'[x].affinityType = services[x].affinityType
    BY <2>1, <2>2, ZenonT(30) DEF BalancerState
  <2> QED
    BY <2>1, <2>3 DEF MergedIsBalanced
<1>6. ASSUME NEW t \in Threads,
             \/ CheckInitialized(t) \/ TakeChanges(t) \/ LockMu(t) \/ StartCleanup(t)
             \/ UnlockMu(t) \/ \E n \in Names : NextChange(t, n)
      PROVE  MergedIsBalanced'
  <2>1. UNCHANGED <<vars, serviceMap>>
    BY <1>6, ZenonT(30) DEF CheckInitialized, TakeChanges, LockMu, StartCleanup, UnlockMu, NextChange
  <2> QED
    BY <2>1, SMTT(20) DEF vars, MergedIsBalanced
<1>7. CASE UNCHANGED allVars
  BY <1>7 DEF allVars, vars, syncVars, MergedIsBalanced
<1> QED
  BY <1>1, <1>2, <1>3, <1>4, <1>5, <1>6, <1>7, ZenonT(30) DEF SyncNext, syncServices

(* A port that GetServicePortName can find is balanced, with the session   *)
(* affinity its Service asked for.                                         *)
THEOREM MergedBalanced == SyncSpec => []MergedIsBalanced
<1>1. SyncInit => MergedIsBalanced
  BY DEF SyncInit, MergedIsBalanced
<1>2. IInv /\ ObjectsOK /\ MergedIsBalanced /\ [SyncNext]_allVars => MergedIsBalanced'
  BY MergedStep
<1> QED
  BY <1>1, <1>2, ObjectsInvariance, SyncRefines, Invariance, PTL DEF SyncSpec, IsBalancer

=============================================================================
