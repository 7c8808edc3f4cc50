------------------------------ MODULE ListenIPs ------------------------------
(***************************************************************************)
(* The addresses an edge gateway listens on (pkg/gateway/util.go): those   *)
(* of the network cards NIC names, kept or dropped by INCLUDE_IP, then     *)
(* dropped in place by EXCLUDE_IP.                                         *)
(***************************************************************************)
EXTENDS Loops, Functions

CONSTANTS
    IP,            \* addresses
    interfaces,    \* net.Interfaces(): the names of the network cards
    CardIPs,       \* the IPv4 addresses of a card, in order
    Segment,       \* the CIDRs INCLUDE_IP and EXCLUDE_IP may have
    Members,       \* the addresses in a segment: none, if it does not parse
    NICs,          \* values of NIC: All, or a list of names
    Lists,         \* values of INCLUDE_IP and EXCLUDE_IP, split
    All            \* the value "*" or "" of NIC and INCLUDE_IP

ASSUME ListenAssumption ==
    /\ IP \cap Segment = {}
    /\ Members \in [Segment -> SUBSET IP]
    /\ \A list \in Lists : list # All /\ list \subseteq IP \cup Segment
    /\ interfaces \in Seq(Range(interfaces)) /\ CardIPs \in [Range(interfaces) -> Seq(IP)]
    /\ \A nic \in NICs \ {All} : nic \in Seq(Range(nic))

(* A name that is no card is skipped.                                      *)
GetIPsByName(name) == IF name \in Range(interfaces) THEN CardIPs[name] ELSE <<>>

IPsOf(names) ==
    LET ips[k \in 0..Len(names)] ==
            IF k = 0 THEN <<>> ELSE ips[k - 1] \o GetIPsByName(names[k])
    IN  ips[Len(names)]

GetAllIPs == IPsOf(interfaces)

(* Single addresses and segments of a list.                                *)
getIPAndSegment(list) == [ips |-> list \cap IP, segments |-> list \cap Segment]

InSegments(segments, ip) == \E s \in segments : ip \in Members[s]

includeIPsFromIPs(ips, listed, segments) ==
    Kept(ips, {ip \in Range(ips) : ip \in listed \/ InSegments(segments, ip)})

(* append(list[:i], list[i+1:]...)                                         *)
Removed(ips, i) == SubSeq(ips, 1, i - 1) \o SubSeq(ips, i + 1, Len(ips))

(* An iteration of an exclude loop: the address at i is removed, and i--;  *)
(* i++ follows in either case.                                             *)
Iteration(loop, dropped) ==
    IF loop.i > Len(loop.ips) THEN loop
    ELSE IF loop.ips[loop.i] \in dropped THEN [loop EXCEPT !.ips = Removed(@, loop.i)]
    ELSE [loop EXCEPT !.i = @ + 1]

(* Both exclude loops: each iteration removes an address or passes it.     *)
ExcludeLoop(ips, dropped) ==
    LET after[n \in 0..Len(ips)] ==
            IF n = 0 THEN [ips |-> ips, i |-> 1] ELSE Iteration(after[n - 1], dropped)
    IN  after[Len(ips)].ips

(* Mutant: the index is not moved back, and the next address is skipped.   *)
excludeIPsFromIPs_Skips(ips, listed) ==
    LET after[n \in 0..Len(ips)] ==
            IF n = 0 THEN [ips |-> ips, i |-> 1]
            ELSE LET loop == after[n - 1] IN
                 IF loop.i > Len(loop.ips) THEN loop
                 ELSE [ips |-> IF loop.ips[loop.i] \in listed
                               THEN Removed(loop.ips, loop.i) ELSE loop.ips,
                       i |-> loop.i + 1]
    IN  after[Len(ips)].ips

excludeIPsFromIPs(ips, listed) == ExcludeLoop(ips, listed)

excludeIPSegmentsFromIPs(ips, segments) ==
    ExcludeLoop(ips, {ip \in Range(ips) : InSegments(segments, ip)})

CardsIPs(nic) == IF nic = All THEN GetAllIPs ELSE IPsOf(nic)

GetIPsNeedListen(nic, include, exclude) ==
    LET inc == getIPAndSegment(include)
        exc == getIPAndSegment(exclude)
        ips == IF include = All THEN CardsIPs(nic)
               ELSE includeIPsFromIPs(CardsIPs(nic), inc.ips, inc.segments)
    IN  IF exclude = {} THEN ips
        ELSE excludeIPSegmentsFromIPs(excludeIPsFromIPs(ips, exc.ips), exc.segments)

-----------------------------------------------------------------------------
(* Properties *)

Matches(list, ip) == ip \in list \/ \E s \in list \cap Segment : ip \in Members[s]

(* The reference: the cards' addresses that are included and not excluded. *)
WantedIPs(nic, include, exclude) ==
    Kept(CardsIPs(nic),
         {ip \in IP : (include = All \/ Matches(include, ip)) /\ ~Matches(exclude, ip)})

(* GetIPsNeedListen, whose loops delete from the slice they count over,    *)
(* returns for every configuration exactly the cards' addresses that are   *)
(* included and not excluded, in the order of the cards, none skipped.     *)
FiltersAgree ==
    \A nic \in NICs, include \in Lists \cup {All}, exclude \in Lists :
       GetIPsNeedListen(nic, include, exclude) = WantedIPs(nic, include, exclude)

=============================================================================
