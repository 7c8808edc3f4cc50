------------------------------- MODULE Corefile -------------------------------
(***************************************************************************)
(* The Corefile EdgeDNS writes before it starts CoreDNS                    *)
(* (pkg/dns/corefile.go): the servers it forwards to and how its           *)
(* kubernetes plugin reaches the API server.  A server of the              *)
(* configuration is a record                                               *)
(*   host, port   what is written before and after the first colon; the    *)
(*                port is NoPort if there is none, -1 if it is no number   *)
(*   items        how many items strings.Split(server, ":") returns        *)
(*   pad          whether it is written with blanks around it              *)
(* and a ClusterIP is such a server, NoneIP, or Blank (a Service without   *)
(* one).                                                                   *)
(***************************************************************************)
EXTENDS Integers, Functions, Loops

CONSTANTS
    IPs,           \* the hosts net.ParseIP accepts
    NoPort, Absent, \* no port; a Service that does not exist
    Caches,        \* the CacheDNS configurations considered
    Clusters       \* what kube-system has: the ClusterIPs of coredns, of
                   \* kube-dns, and of the Services with k8s-app=kube-dns

Server(host, port, items) == [host |-> host, port |-> port, items |-> items, pad |-> FALSE]
Blank == Server("", NoPort, 1)
NoneIP == Server("None", NoPort, 1)
ResolvConf == Server("/etc/resolv.conf", NoPort, 1)

ServerType == [host : STRING, port : Int \cup {NoPort}, items : Nat, pad : BOOLEAN]

ASSUME CorefileAssumption ==
    /\ "" \notin IPs
    /\ \A cache \in Caches :
          /\ cache.enable
          /\ cache.upstreamServers \in Seq({s \in ServerType : s.items = 2 => s.port \in Int})
    /\ \A cluster \in Clusters :
          cluster["k8s-app"] \in Seq(Range(cluster["k8s-app"]) \ {Absent})

TrimSpace(s) == [s EXCEPT !.pad = FALSE]

isValidIP(host) == host \in IPs

PortLimit == 256 * 256

isValidPort(port) == 0 < port /\ port < PortLimit

(* An IPv6 address has more than two items and is turned down.             *)
isValidAddress(s) ==
    \/ s.items = 1 /\ isValidIP(s.host)
    \/ s.items = 2 /\ isValidIP(s.host) /\ isValidPort(s.port)

(* Mutant: a server is dropped if its predecessor is the same.             *)
removeDuplicate_Adjacent(ss) ==
    LET ret[i \in 0..Len(ss)] ==
            IF i = 0 THEN <<>>
            ELSE IF i > 1 /\ ss[i - 1] = ss[i] THEN ret[i - 1] ELSE Append(ret[i - 1], ss[i])
    IN  ret[Len(ss)]

(* ret[i] is what the loop has kept of the first i servers.                *)
removeDuplicate(ss) ==
    LET ret[i \in 0..Len(ss)] ==
            IF i = 0 THEN <<>>
            ELSE IF ss[i] \in Range(ret[i - 1]) THEN ret[i - 1] ELSE Append(ret[i - 1], ss[i])
    IN  ret[Len(ss)]

(* The two Gets and the List of kube-system; ok are the calls that succeed.*)
Calls == {"coredns", "kube-dns", "k8s-app"}

detectClusterDNS(cluster, ok) ==
    LET Got(name) == IF name \in ok /\ cluster[name] \notin {Absent, NoneIP}
                     THEN <<cluster[name]>> ELSE <<>>
        Listed == IF "k8s-app" \in ok
                  THEN Kept(cluster["k8s-app"], Range(cluster["k8s-app"]) \ {NoneIP}) ELSE <<>>
    IN  removeDuplicate(Got("coredns") \o Got("kube-dns") \o Listed)

Configured(cache) ==
    LET trimmed == [i \in DOMAIN cache.upstreamServers |-> TrimSpace(cache.upstreamServers[i])]
    IN  Kept(trimmed, {s \in Range(trimmed) : s # Blank /\ isValidAddress(s)})

(* upstreamServers of UpdateCorefile, before they are counted.             *)
upstreamServers(cache, cluster, ok) ==
    IF cache.enable
    THEN removeDuplicate((IF cache.autoDetect THEN detectClusterDNS(cluster, ok) ELSE <<>>)
                         \o Configured(cache))
    ELSE <<ResolvConf>>

(* The directives getKubernetesPluginStr gives the plugin: none of them in *)
(* a pod that uses its service account.                                    *)
getKubernetesPluginStr(kubeAPI) ==
    {d \in {"endpoint", "kubeconfig"} :
        \/ d = "endpoint" /\ kubeAPI.master
        \/ d = "kubeconfig" /\ kubeAPI.kubeConfig # ""}

(* The template joins the servers with blanks: CoreDNS reads no empty one. *)
getStubDomainStr(servers, plugin) ==
    [forward |-> Kept(servers, Range(servers) \ {Blank}), kubernetes |-> plugin]

(* The plugin is left out of a cache.                                      *)
UpdateCorefile(cache, kubeAPI, cluster, ok) ==
    getStubDomainStr(upstreamServers(cache, cluster, ok),
                     IF cache.enable THEN {} ELSE getKubernetesPluginStr(kubeAPI))

(* UpdateCorefile returns an error if there is no server to forward to.    *)
HasUpstream(cache, cluster, ok) == upstreamServers(cache, cluster, ok) # <<>>

-----------------------------------------------------------------------------
(* What a cache should forward to, without reference to how it is computed:*)
(* the ClusterIPs the calls return, and whatever is configured as an IPv4  *)
(* address with or without a port.                                         *)

Detectable(cluster, ok) ==
    {ip \in {cluster[c] : c \in ok \ {"k8s-app"}} \cup
            (IF "k8s-app" \in ok THEN Range(cluster["k8s-app"]) ELSE {}) :
        ip \notin {Absent, NoneIP, Blank}}

Configurable(cache) ==
    {s \in {[u EXCEPT !.pad = FALSE] : u \in Range(cache.upstreamServers)} :
        /\ s.host \in IPs
        /\ s.items = 1 \/ (s.items = 2 /\ s.port \in 1..(PortLimit - 1))}

(* forward has each of the servers a cache should forward to, once.        *)
ForwardsTo(forward, cache, cluster, ok) ==
    /\ Range(forward) = Configurable(cache) \cup
           (IF cache.autoDetect THEN Detectable(cluster, ok) ELSE {})
    /\ IsInjective(forward)

(* UpdateCorefile: a cache forwards to every server that is detected or    *)
(* configured correctly, to no other, and names none twice, whatever is    *)
(* configured and whichever calls to the API server fail.  (How a plugin   *)
(* would reach that is of no account to a cache.)                          *)
CacheForwards ==
    \A cache \in Caches, cluster \in Clusters, ok \in SUBSET Calls :
       ForwardsTo(UpdateCorefile(cache, [master |-> FALSE, kubeConfig |-> ""], cluster, ok).forward,
                  cache, cluster, ok)

=============================================================================
