---------------------------- MODULE LoadBalancer ----------------------------
(***************************************************************************)
(* The state of pkg/loadbalancer that lb.lock and lb.policyMutex protect:  *)
(* lb.services (endpoints, round-robin index and session affinity of every *)
(* service port) and lb.policyMap (the balancing policy a DestinationRule  *)
(* selects).  One action is one critical section of lb.lock: an informer   *)
(* callback, a NewService / DeleteService call of the userspace proxier or *)
(* of syncServices, or the choice of an endpoint for a connection.         *)
(*                                                                         *)
(* epObj and drObj are the Endpoints and DestinationRule objects the       *)
(* callbacks were last given.  An informer calls Add for an object it does *)
(* not hold, Update with the object it holds (a resync passes it twice)    *)
(* and Delete with the object it holds.                                    *)
(***************************************************************************)
EXTENDS Naturals, Sequences, FiniteSets, Functions

CONSTANTS
    Names,       \* namespaced names of Services
    Ports,       \* port names
    Endpoints,   \* "nodeName:podName:ip:port" strings
    Clients,     \* client IP addresses
    Rules,       \* contents of DestinationRules
    Ttls,        \* ClientIP timeouts a Service may ask for
    DefaultTtl,  \* v1.DefaultClientIPServiceAffinitySeconds
    Nil

VARIABLES
    services,    \* lb.services
    policyMap,   \* lb.policyMap
    epObj,       \* Endpoints object of each name, or Nil
    drObj,       \* DestinationRule of each name, or Nil
    answer,      \* what nextEndpointWithConn just returned, or Nil
    panicked,    \* the process died of a nil dereference
    overlooked   \* history: ports with a policy that were not known when
                 \* their rule was deleted, until it has a successor

vars == <<services, policyMap, epObj, drObj, answer, panicked, overlooked>>

SvcPort == Names \X Ports
Supported == {"ROUND_ROBIN", "RANDOM", "CONSISTENT_HASH"}
HashKeys == {"", "HTTP_HEADER", "USER_SOURCE_IP"}
AffinityTypes == {"", "None", "ClientIP"}
Age == 0 .. DefaultTtl

(* What getPolicyName and getConsistentHashKey make of a DestinationRule:  *)
(* "" stands for every name setLoadBalancerPolicy does not support.        *)
RuleType == [policyName : Supported \cup {""}, hashKey : HashKeys]

ASSUME ConstantsAssumption ==
    /\ \A S \in SUBSET Endpoints : Cardinality(S) \in Nat
    /\ Nil \notin Endpoints
    /\ DefaultTtl \in Nat \ {0}
    /\ Ttls \subseteq 1 .. DefaultTtl
    /\ Rules \subseteq RuleType
    /\ Nil \notin Rules
    /\ Nil \notin [Ports -> SUBSET Endpoints]
    /\ Nil \notin [svcPort : SvcPort, client : Clients, endpoint : Endpoints]
    /\ Nil \notin [svcPort : SvcPort, client : Clients, err : STRING]

-----------------------------------------------------------------------------
(* lb.services *)

(* time.Since(lastUsed) is kept as an age that stops at the longest ttl.   *)
AffinityState == [endpoint : Endpoints, age : Age]

BalancerState ==
    [endpoints : Seq(Endpoints), index : Nat,
     affinityType : AffinityTypes, ttlSeconds : 1 .. DefaultTtl,
     affinityMap : UNION {[D -> AffinityState] : D \in SUBSET Clients}]

(* buildPortsToEndpointsMap: the endpoints of each port; the Go map has no *)
(* entry for a port without a valid one.                                   *)
EndpointsObject == [Ports -> SUBSET Endpoints]

RegisteredPorts(n, obj) == {<<n, p>> : p \in {q \in Ports : obj[q] # {}}}

(* utilproxy.ShuffleStrings: some order of the endpoints.                  *)
ShuffleStrings(S) ==
    {s \in [1 .. Cardinality(S) -> S] : Range(s) = S}

emptyState(affinityType, ttlSeconds) ==
    [endpoints |-> <<>>, index |-> 0,
     affinityType |-> affinityType,
     ttlSeconds |-> IF ttlSeconds = 0 THEN DefaultTtl ELSE ttlSeconds,
     affinityMap |-> [c \in {} |-> Nil]]

(* The entry newServiceInternal returns, creating it if there is none: the *)
(* ttl of an entry that exists stays what it was.                          *)
newServiceInternal(svcPort, affinityType, ttlSeconds) ==
    IF svcPort \notin DOMAIN services
    THEN emptyState(affinityType, ttlSeconds)
    ELSE IF affinityType # ""
    THEN [services[svcPort] EXCEPT !.affinityType = affinityType]
    ELSE services[svcPort]

isSessionAffinity(state) == state.affinityType \notin {"", "None"}

(* removeStaleAffinity: only records of an endpoint that is leaving go.    *)
removeStaleAffinity(state, newEndpoints) ==
    LET stale == Range(state.endpoints) \ newEndpoints
        kept == {c \in DOMAIN state.affinityMap :
                   state.affinityMap[c].endpoint \notin stale}
    IN  Restrict(state.affinityMap, kept)

setEndpoints(state, shuffled) ==
    [state EXCEPT !.endpoints = shuffled, !.index = 0]

(* Mutants: the endpoints, or the affinity records, survive the reset.     *)
resetService_KeepsEndpoints(state) ==
    [state EXCEPT !.index = 0, !.affinityMap = [c \in {} |-> Nil]]
resetService_KeepsAffinity(state) ==
    [state EXCEPT !.endpoints = <<>>, !.index = 0]

resetService(state) ==
    [state EXCEPT !.endpoints = <<>>, !.index = 0,
                  !.affinityMap = [c \in {} |-> Nil]]

-----------------------------------------------------------------------------
(* lb.policyMap *)

Policy == [name : Supported, hashKey : HashKeys, ring : SUBSET Endpoints]

(* Mutant: nothing is removed.                                             *)
updateHashRing_OnlyAdds(ring, newEndpoints) == ring \cup newEndpoints

(* updateHashRing with sliceCompare: add what is new, then remove what is  *)
(* gone.                                                                   *)
updateHashRing(ring, newEndpoints) ==
    LET added == newEndpoints \ ring
        deleted == ring \ newEndpoints
    IN  (ring \cup added) \ deleted

(* policy.Sync: only ConsistentHashPolicy keeps endpoints.                 *)
Sync(policy, newEndpoints) ==
    IF policy.name = "CONSISTENT_HASH"
    THEN [policy EXCEPT !.ring = updateHashRing(@, newEndpoints)]
    ELSE policy

(* The policy setLoadBalancerPolicy stores for a supported name.           *)
newPolicy(dr, endpoints) ==
    [name |-> dr.policyName,
     hashKey |-> IF dr.policyName = "CONSISTENT_HASH" THEN dr.hashKey ELSE "",
     ring |-> IF dr.policyName = "CONSISTENT_HASH" THEN Range(endpoints) ELSE {}]

(* The entries of lb.services a DestinationRule named n is about           *)
(* (isNamespacedNameEqual).                                                *)
ServicePortsOf(n) == {sp \in DOMAIN services : sp[1] = n}

setLoadBalancerPolicy(n, dr) ==
    LET set == IF dr.policyName \in Supported THEN ServicePortsOf(n) ELSE {}
    IN  policyMap' = [sp \in DOMAIN policyMap \cup set |->
                        IF sp \in set THEN newPolicy(dr, services[sp].endpoints)
                        ELSE policyMap[sp]]

-----------------------------------------------------------------------------
(* Calls of the userspace proxier and of syncServices *)

NewService(svcPort, affinityType, ttlSeconds) ==
    /\ ~panicked
    /\ services' = [sp \in DOMAIN services \cup {svcPort} |->
                      IF sp = svcPort
                      THEN newServiceInternal(sp, affinityType, ttlSeconds)
                      ELSE services[sp]]
    /\ answer' = Nil
    /\ UNCHANGED <<policyMap, epObj, drObj, panicked, overlooked>>

(* The policy of the port stays in lb.policyMap.                           *)
DeleteService(svcPort) ==
    /\ ~panicked
    /\ services' = Restrict(services, DOMAIN services \ {svcPort})
    /\ answer' = Nil
    /\ UNCHANGED <<policyMap, epObj, drObj, panicked, overlooked>>

CleanupStaleStickySessions(svcPort) ==
    /\ ~panicked
    /\ svcPort \in DOMAIN services
    /\ services' = [services EXCEPT ![svcPort].affinityMap =
                      Restrict(@, {c \in DOMAIN @ :
                                     @[c].age < services[svcPort].ttlSeconds})]
    /\ answer' = Nil
    /\ UNCHANGED <<policyMap, epObj, drObj, panicked, overlooked>>

-----------------------------------------------------------------------------
(* Callbacks of the Endpoints informer *)

OnEndpointsAdd(n, obj) ==
    LET set == RegisteredPorts(n, obj)
    IN  /\ ~panicked
        /\ epObj[n] = Nil
        /\ \E shuffled \in [Ports -> UNION {ShuffleStrings(obj[p]) : p \in Ports}] :
             /\ \A p \in Ports : shuffled[p] \in ShuffleStrings(obj[p])
             /\ services' = [sp \in DOMAIN services \cup set |->
                   IF sp \in set
                   THEN setEndpoints(newServiceInternal(sp, "", 0), shuffled[sp[2]])
                   ELSE services[sp]]
        /\ policyMap' = [sp \in DOMAIN policyMap |->
              IF sp \in set THEN Sync(policyMap[sp], obj[sp[2]]) ELSE policyMap[sp]]
        /\ epObj' = [epObj EXCEPT ![n] = obj]
        /\ answer' = Nil
        /\ UNCHANGED <<drObj, panicked, overlooked>>

(* Mutant: the new object is compared with the old object.                 *)
ChangedPorts_OfObject(n, obj) ==
    {sp \in RegisteredPorts(n, obj) : epObj[n][sp[2]] # obj[sp[2]]}

(* Ports whose endpoints differ from the entry's, slicesEquiv aside order. *)
ChangedPorts(n, obj) ==
    {sp \in RegisteredPorts(n, obj) :
        \/ sp \notin DOMAIN services
        \/ Range(services[sp].endpoints) # obj[sp[2]]}

MissingPorts(n, obj) == RegisteredPorts(n, epObj[n]) \ RegisteredPorts(n, obj)

OnEndpointsUpdate(n, obj) ==
    LET set == ChangedPorts(n, obj)
        gone == MissingPorts(n, obj)
    IN  /\ ~panicked
        /\ epObj[n] # Nil
        /\ \E shuffled \in [Ports -> UNION {ShuffleStrings(obj[p]) : p \in Ports}] :
             /\ \A p \in Ports : shuffled[p] \in ShuffleStrings(obj[p])
             /\ services' = [sp \in DOMAIN services \cup set |->
                   IF sp \in set
                   THEN LET state == newServiceInternal(sp, "", 0)
                        IN  [setEndpoints(state, shuffled[sp[2]]) EXCEPT
                               !.affinityMap = removeStaleAffinity(state, obj[sp[2]])]
                   ELSE IF sp \in gone THEN resetService(services[sp])
                   ELSE services[sp]]
        /\ policyMap' = [sp \in DOMAIN policyMap |->
              IF sp \in set THEN Sync(policyMap[sp], obj[sp[2]])
              ELSE IF sp \in gone THEN Sync(policyMap[sp], {})
              ELSE policyMap[sp]]
        /\ epObj' = [epObj EXCEPT ![n] = obj]
        /\ answer' = Nil
        /\ UNCHANGED <<drObj, panicked, overlooked>>

OnEndpointsDelete(n) ==
    LET gone == RegisteredPorts(n, epObj[n])
    IN  /\ ~panicked
        /\ epObj[n] # Nil
        /\ services' = [sp \in DOMAIN services |->
              IF sp \in gone THEN resetService(services[sp]) ELSE services[sp]]
        /\ policyMap' = [sp \in DOMAIN policyMap |->
              IF sp \in gone THEN Sync(policyMap[sp], {}) ELSE policyMap[sp]]
        /\ epObj' = [epObj EXCEPT ![n] = Nil]
        /\ answer' = Nil
        /\ UNCHANGED <<drObj, panicked, overlooked>>

-----------------------------------------------------------------------------
(* Callbacks of the DestinationRule informer *)

OnDestinationRuleAdd(n, dr) ==
    /\ ~panicked
    /\ drObj[n] = Nil
    /\ setLoadBalancerPolicy(n, dr)
    /\ drObj' = [drObj EXCEPT ![n] = dr]
    /\ overlooked' = {sp \in overlooked : sp[1] # n}
    /\ answer' = Nil
    /\ UNCHANGED <<services, epObj, panicked>>

(* Mutant: an update that changes nothing is skipped.                      *)
OnDestinationRuleUpdate_SkipsResync(n, dr) ==
    /\ ~panicked
    /\ drObj[n] # Nil /\ drObj[n] # dr
    /\ dr.policyName \in Supported
    /\ setLoadBalancerPolicy(n, dr)
    /\ drObj' = [drObj EXCEPT ![n] = dr]
    /\ answer' = Nil
    /\ UNCHANGED <<services, epObj, panicked, overlooked>>

(* A policy of another name is released and deleted first; then the policy *)
(* just stored is dereferenced, a nil dereference for an unsupported name. *)
OnDestinationRuleUpdate(n, dr) ==
    /\ ~panicked
    /\ drObj[n] # Nil
    /\ IF ServicePortsOf(n) # {} /\ dr.policyName \notin Supported
       THEN /\ panicked' = TRUE
            /\ UNCHANGED policyMap
       ELSE /\ setLoadBalancerPolicy(n, dr)
            /\ UNCHANGED panicked
    /\ drObj' = [drObj EXCEPT ![n] = dr]
    /\ answer' = Nil
    /\ UNCHANGED <<services, epObj, overlooked>>

Overlooks(n) ==
    overlooked \cup {sp \in DOMAIN policyMap \ DOMAIN services : sp[1] = n}

(* Mutant: services without endpoints are skipped.                         *)
OnDestinationRuleDelete_SkipsEmpty(n) ==
    LET ports == {sp \in ServicePortsOf(n) : services[sp].endpoints # <<>>}
    IN  /\ ~panicked
        /\ drObj[n] # Nil
        /\ policyMap' = Restrict(policyMap, DOMAIN policyMap \ ports)
        /\ drObj' = [drObj EXCEPT ![n] = Nil]
        /\ overlooked' = Overlooks(n)
        /\ answer' = Nil
        /\ UNCHANGED <<services, epObj, panicked>>

(* Release is called on the policy of every port, stored or not.           *)
OnDestinationRuleDelete(n) ==
    /\ ~panicked
    /\ drObj[n] # Nil
    /\ IF ServicePortsOf(n) \subseteq DOMAIN policyMap
       THEN /\ policyMap' = Restrict(policyMap, DOMAIN policyMap \ ServicePortsOf(n))
            /\ UNCHANGED panicked
       ELSE /\ panicked' = TRUE
            /\ UNCHANGED policyMap
    /\ drObj' = [drObj EXCEPT ![n] = Nil]
    /\ overlooked' = Overlooks(n)
    /\ answer' = Nil
    /\ UNCHANGED <<services, epObj>>

-----------------------------------------------------------------------------
(* Choosing an endpoint for a connection.  proto says what the caller      *)
(* passes: "tcp" a connection and no request, "udp" neither, "http" the    *)
(* request it has read.                                                    *)

Protocols == {"tcp", "udp", "http"}

Returned(svcPort, client, endpoint) ==
    [svcPort |-> svcPort, client |-> client, endpoint |-> endpoint]

Failed(svcPort, client, err) ==
    [svcPort |-> svcPort, client |-> client, err |-> err]

(* tryPickEndpoint consults a policy only without session affinity.        *)
PolicyApplies(svcPort, name) ==
    /\ svcPort \in DOMAIN policyMap
    /\ ~isSessionAffinity(services[svcPort])
    /\ policyMap[svcPort].name = name

ReadsRequest(svcPort, proto) ==
    /\ PolicyApplies(svcPort, "CONSISTENT_HASH")
    /\ policyMap[svcPort].hashKey = "HTTP_HEADER"
    /\ proto # "http"

HasEndpoints(svcPort) ==
    svcPort \in DOMAIN services /\ services[svcPort].endpoints # <<>>

MissingEndpoint(svcPort, client) ==
    /\ ~panicked
    /\ ~HasEndpoints(svcPort)
    /\ answer' = Failed(svcPort, client,
                        IF svcPort \notin DOMAIN services
                        THEN "ErrMissingServiceEntry" ELSE "ErrMissingEndpoints")
    /\ UNCHANGED <<services, policyMap, epObj, drObj, panicked, overlooked>>

(* A pick of RandomPolicy, or of ConsistentHashPolicy where the hash of    *)
(* the key may fall on any member of the ring.                             *)
PolicyPick(svcPort, client, proto) ==
    /\ ~panicked /\ HasEndpoints(svcPort)
    /\ ~(ReadsRequest(svcPort, proto) /\ proto = "udp")
    /\ \E e \in Endpoints :
         /\ \/ /\ PolicyApplies(svcPort, "RANDOM")
               /\ e \in Range(services[svcPort].endpoints)
            \/ /\ PolicyApplies(svcPort, "CONSISTENT_HASH")
               /\ e \in policyMap[svcPort].ring
         /\ answer' = Returned(svcPort, client, e)
    /\ UNCHANGED <<services, policyMap, epObj, drObj, panicked, overlooked>>

(* http.ReadRequest on the nil connection of a UDP client.                 *)
PickPanic(svcPort, client, proto) ==
    /\ ~panicked /\ HasEndpoints(svcPort)
    /\ ReadsRequest(svcPort, proto) /\ proto = "udp"
    /\ panicked' = TRUE
    /\ answer' = Nil
    /\ UNCHANGED <<services, policyMap, epObj, drObj, overlooked>>

(* No policy, or its Pick failed: RoundRobinPolicy always fails, a         *)
(* consistent hash fails on an empty ring or a request it cannot read.     *)
PolicyFails(svcPort, proto) ==
    /\ ~PolicyApplies(svcPort, "RANDOM")
    /\ ~(ReadsRequest(svcPort, proto) /\ proto = "udp")
    /\ PolicyApplies(svcPort, "CONSISTENT_HASH") =>
         \/ policyMap[svcPort].ring = {}
         \/ ReadsRequest(svcPort, proto)

AffinityHolds(svcPort, client, sessionAffinityReset) ==
    LET state == services[svcPort]
    IN  /\ isSessionAffinity(state)
        /\ ~sessionAffinityReset
        /\ client \in DOMAIN state.affinityMap
        /\ state.affinityMap[client].age < state.ttlSeconds

AffinityWins(svcPort, client, sessionAffinityReset, proto) ==
    /\ ~panicked /\ HasEndpoints(svcPort)
    /\ PolicyFails(svcPort, proto)
    /\ AffinityHolds(svcPort, client, sessionAffinityReset)
    /\ services' = [services EXCEPT ![svcPort].affinityMap[client].age = 0]
    /\ answer' = Returned(svcPort, client,
                          services[svcPort].affinityMap[client].endpoint)
    /\ UNCHANGED <<policyMap, epObj, drObj, panicked, overlooked>>

recordAffinity(state, client, e) ==
    IF isSessionAffinity(state)
    THEN [c \in DOMAIN state.affinityMap \cup {client} |->
            IF c = client THEN [endpoint |-> e, age |-> 0]
            ELSE state.affinityMap[c]]
    ELSE state.affinityMap

TakeNext(svcPort, client, sessionAffinityReset, proto) ==
    LET state == services[svcPort]
        e == state.endpoints[state.index + 1]
    IN  /\ ~panicked /\ HasEndpoints(svcPort)
        /\ PolicyFails(svcPort, proto)
        /\ ~AffinityHolds(svcPort, client, sessionAffinityReset)
        /\ services' = [services EXCEPT ![svcPort] =
                          [state EXCEPT
                            !.index = (state.index + 1) % Len(state.endpoints),
                            !.affinityMap = recordAffinity(state, client, e)]]
        /\ answer' = Returned(svcPort, client, e)
        /\ UNCHANGED <<policyMap, epObj, drObj, panicked, overlooked>>

nextEndpointWithConn(svcPort, client, sessionAffinityReset, proto) ==
    \/ MissingEndpoint(svcPort, client)
    \/ PolicyPick(svcPort, client, proto)
    \/ PickPanic(svcPort, client, proto)
    \/ AffinityWins(svcPort, client, sessionAffinityReset, proto)
    \/ TakeNext(svcPort, client, sessionAffinityReset, proto)

-----------------------------------------------------------------------------
(* The environment *)

(* A second passes for every affinity record.                              *)
older(state) ==
    [state EXCEPT !.affinityMap =
       [c \in DOMAIN state.affinityMap |->
          [state.affinityMap[c] EXCEPT !.age = IF @ < DefaultTtl THEN @ + 1 ELSE @]]]

Tick ==
    /\ ~panicked
    /\ services' = [sp \in DOMAIN services |-> older(services[sp])]
    /\ answer' = Nil
    /\ UNCHANGED <<policyMap, epObj, drObj, panicked, overlooked>>

Init ==
    /\ services = [sp \in {} |-> Nil]
    /\ policyMap = [sp \in {} |-> Nil]
    /\ epObj = [n \in Names |-> Nil]
    /\ drObj = [n \in Names |-> Nil]
    /\ answer = Nil
    /\ panicked = FALSE
    /\ overlooked = {}

(* The kubelet starts the agent again: nothing was persisted.              *)
Restart ==
    /\ panicked
    /\ services' = [sp \in {} |-> Nil]
    /\ policyMap' = [sp \in {} |-> Nil]
    /\ epObj' = [n \in Names |-> Nil]
    /\ drObj' = [n \in Names |-> Nil]
    /\ answer' = Nil
    /\ panicked' = FALSE
    /\ overlooked' = {}

Calls ==
    \E sp \in SvcPort :
        \/ \E type \in {"None", "ClientIP"}, ttl \in Ttls \cup {0} :
             /\ type = "None" <=> ttl = 0
             /\ NewService(sp, type, ttl)
        \/ DeleteService(sp)
        \/ CleanupStaleStickySessions(sp)

Callbacks ==
    \E n \in Names :
        \/ \E obj \in EndpointsObject : OnEndpointsAdd(n, obj)
        \/ \E obj \in EndpointsObject : OnEndpointsUpdate(n, obj)
        \/ OnEndpointsDelete(n)
        \/ \E dr \in Rules : OnDestinationRuleAdd(n, dr)
        \/ \E dr \in Rules : OnDestinationRuleUpdate(n, dr)
        \/ OnDestinationRuleDelete(n)

Connections ==
    \E sp \in SvcPort, c \in Clients, reset \in BOOLEAN, proto \in Protocols :
        nextEndpointWithConn(sp, c, reset, proto)

Next == Calls \/ Callbacks \/ Connections \/ Tick \/ Restart

Spec == Init /\ [][Next]_vars

(* Every object an informer holds is passed to the Update callback again   *)
(* each syncPeriod, and the kubelet restarts a container that exited.      *)
EndpointsResync(n) == epObj[n] # Nil /\ OnEndpointsUpdate(n, epObj[n])
RuleResync(n) == drObj[n] # Nil /\ OnDestinationRuleUpdate(n, drObj[n])

FairSpec ==
    /\ Spec
    /\ WF_vars(Restart)
    /\ \A n \in Names : WF_vars(EndpointsResync(n)) /\ WF_vars(RuleResync(n))

-----------------------------------------------------------------------------
(* Properties *)

(* Type of every variable; the round-robin index stays inside the list of  *)
(* endpoints it indexes, so state.endpoints[state.index] never panics.     *)
TypeOK ==
    /\ DOMAIN services \subseteq SvcPort
    /\ services \in [DOMAIN services -> BalancerState]
    /\ \A sp \in DOMAIN services :
         LET state == services[sp]
         IN  \/ state.index < Len(state.endpoints)
             \/ state.endpoints = <<>> /\ state.index = 0
    /\ DOMAIN policyMap \subseteq SvcPort
    /\ policyMap \in [DOMAIN policyMap -> Policy]
    /\ epObj \in [Names -> EndpointsObject \cup {Nil}]
    /\ drObj \in [Names -> Rules \cup {Nil}]
    /\ answer \in [svcPort : SvcPort, client : Clients, endpoint : Endpoints]
                 \cup [svcPort : SvcPort, client : Clients,
                       err : {"ErrMissingServiceEntry", "ErrMissingEndpoints"}]
                 \cup {Nil}
    /\ panicked \in BOOLEAN
    /\ overlooked \subseteq SvcPort

(* An entry of lb.services holds the endpoints of the Endpoints object the *)
(* callbacks saw last, or none: never those of an object that was replaced *)
(* or deleted, whatever NewService and DeleteService calls come between.   *)
EndpointsNeverStale ==
    \A sp \in DOMAIN services :
        LET current == Range(services[sp].endpoints)
        IN  \/ current = {}
            \/ epObj[sp[1]] # Nil /\ current = epObj[sp[1]][sp[2]]

(* Every session affinity record names an endpoint the service still has,  *)
(* although OnEndpointsAdd prunes no record and removeStaleAffinity prunes *)
(* only records of endpoints that are leaving.                             *)
AffinityTargetsLive ==
    \A sp \in DOMAIN services :
        \A c \in DOMAIN services[sp].affinityMap :
            services[sp].affinityMap[c].endpoint \in Range(services[sp].endpoints)

(* While a service has endpoints, the hash ring of its ConsistentHash      *)
(* policy has exactly these members, although DeleteService leaves the     *)
(* policy in lb.policyMap and a rule may come before or after them.        *)
RingMatchesEndpoints ==
    \A sp \in DOMAIN services \cap DOMAIN policyMap :
        \/ policyMap[sp].name # "CONSISTENT_HASH"
        \/ services[sp].endpoints = <<>>
        \/ policyMap[sp].ring = Range(services[sp].endpoints)

(* An endpoint nextEndpointWithConn returns, by whichever of the policies, *)
(* session affinity or round robin, belongs to the Endpoints object the    *)
(* callbacks saw last.                                                     *)
AnswerLive ==
    answer # Nil /\ "endpoint" \in DOMAIN answer =>
        LET n == answer.svcPort[1]
        IN  epObj[n] # Nil /\ answer.endpoint \in epObj[n][answer.svcPort[2]]

(* A service that stays, with an Endpoints object that stays, ends up with *)
(* the endpoints of the object even if DeleteService dropped them: the     *)
(* resync restores them.                                                   *)
EndpointsConverge ==
    \A n \in Names, p \in Ports :
        <>[](<<n, p>> \in DOMAIN services /\ epObj[n] # Nil)
        => <>[](/\ <<n, p>> \in DOMAIN services
                /\ epObj[n] # Nil
                /\ Range(services[<<n, p>>].endpoints) = epObj[n][p])

(* A service that stays, with a rule of a supported policy that stays,     *)
(* ends up balanced by that policy even if the rule came first: the resync *)
(* installs it.                                                            *)
PolicyConverges ==
    \A sp \in SvcPort, policy \in Supported :
        LET n == sp[1]
        IN  <>[](/\ sp \in DOMAIN services
                 /\ drObj[n] # Nil
                 /\ drObj[n].policyName = policy)
            => <>[](sp \in DOMAIN policyMap /\ policyMap[sp].name = policy)

(* docs/guide/test-case.md: the DestinationRule of the same name selects   *)
(* the strategy of a Service. Here: a known service with a rule of a       *)
(* supported policy is balanced by that policy. It does not hold of        *)
(* setLoadBalancerPolicy, which skips services it does not know yet;       *)
(* PolicyConverges is what holds.                                          *)
PolicyFollowsRule ==
    \A sp \in DOMAIN services :
        LET dr == drObj[sp[1]]
        IN  dr # Nil /\ dr.policyName \in Supported =>
              sp \in DOMAIN policyMap /\ policyMap[sp].name = dr.policyName

(* The other half: a service without a DestinationRule has no policy. It   *)
(* does not hold either: DeleteService keeps the policy, and               *)
(* OnDestinationRuleDelete looks at known services only.                   *)
NoPolicyWithoutRule ==
    \A sp \in DOMAIN services : sp \in DOMAIN policyMap => drObj[sp[1]] # Nil

(* What holds instead: the policies whose DestinationRule is gone are those*)
(* of the service ports that lb.services did not hold when                 *)
(* OnDestinationRuleDelete was called; every other policy left with its    *)
(* rule, and none appears without one.                                     *)
OrphansOverlooked ==
    panicked \/ overlooked = {sp \in DOMAIN policyMap : drObj[sp[1]] = Nil}

(* setLoadBalancerPolicy logs a policy it does not support and returns: no *)
(* rule and no connection makes the process panic. It does not hold:       *)
(* OnDestinationRuleUpdate uses the policy that was not stored.            *)
NeverPanics == ~panicked

=============================================================================
