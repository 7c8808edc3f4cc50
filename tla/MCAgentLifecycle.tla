--------------------------- MODULE MCAgentLifecycle ---------------------------
(***************************************************************************)
(* An agent at the edge, an agent in the cloud with the CNI module, a      *)
(* gateway at the edge, and configurations that cannot run.                *)
(***************************************************************************)
EXTENDS AgentLifecycle, TLC

MCIPs == {"10.0.0.1", "10.0.0.2"}
IP(i, port) == Server("10.0.0." \o ToString(i), port, IF port = NoPort THEN 1 ELSE 2)

NoCache == [enable |-> FALSE, autoDetect |-> TRUE, upstreamServers |-> <<>>]
Cache == [NoCache EXCEPT !.enable = TRUE, !.upstreamServers = <<IP(1, 65536)>>]
NoDNS == "coredns" :> Absent @@ "kube-dns" :> Absent @@ "k8s-app" :> <<>>
CoreDNS == "coredns" :> Absent @@ "kube-dns" :> IP(1, NoPort) @@ "k8s-app" :> <<IP(1, NoPort)>>

Edge ==
    [program |-> "agent", env |-> {"NODE_NAME", "NAMESPACE"},
     enable |-> "edgeproxy" :> TRUE @@ "edgetunnel" :> TRUE,
     kubeAPI |-> [master |-> FALSE, kubeConfig |-> "", deleteKubeConfig |-> FALSE],
     transport |-> "tcp", serviceFilterMode |-> "FilterIfLabelExists",
     cache |-> NoCache, cluster |-> NoDNS, cidrs |-> {}, hostCIDR |-> NoCIDR]

CachingEdge ==
    [Edge EXCEPT !.enable = "edgeproxy" :> FALSE, !.kubeAPI.deleteKubeConfig = TRUE,
                 !.cache = Cache, !.cluster = CoreDNS]
Cloud ==
    [Edge EXCEPT !.env = @ \cup {"KUBERNETES_PORT"},
                 !.enable = "edgeproxy" :> TRUE @@ "edgecni" :> TRUE,
                 !.cidrs = {[ip |-> 0, len |-> 1], [ip |-> 3, len |-> 2], [ip |-> 3, len |-> 3]},
                 !.hostCIDR = [ip |-> 2, len |-> 2]]
Gateway == [Edge EXCEPT !.program = "gateway", !.enable = "edgegateway" :> TRUE @@ "edgetunnel" :> TRUE]

MCConfigs ==
    {Edge, CachingEdge, Cloud, Gateway,
     [CachingEdge EXCEPT !.cluster = NoDNS],
     [CachingEdge EXCEPT !.cluster = [NoDNS EXCEPT !["coredns"] = Blank]],
     [Cloud EXCEPT !.hostCIDR = NoCIDR, !.enable["edgeproxy"] = FALSE],
     [Gateway EXCEPT !.transport = "udp"],
     [Gateway EXCEPT !.env = {}]}

(* All caches with up to three servers, in clusters whose DNS services     *)
(* have an address, none, or do not exist, those configured among them.    *)
MCServers ==
    {IP(1, NoPort), [IP(1, NoPort) EXCEPT !.pad = TRUE], IP(1, 65535), IP(1, 65536), IP(2, 0),
     IP(2, -1), Server("fd00", NoPort, 3), Blank}
MCCaches ==
    [enable: {TRUE}, autoDetect: BOOLEAN,
     upstreamServers: UNION {[1..n -> MCServers] : n \in 0..3}]
MCClusters ==
    {"coredns" :> c @@ "kube-dns" :> k @@ "k8s-app" :> l :
        c \in {Absent, NoneIP, IP(1, NoPort)}, k \in {Blank, IP(2, NoPort)},
        l \in {<<>>, <<IP(2, NoPort), NoneIP, IP(1, NoPort)>>}}
    \cup {c.cluster : c \in MCConfigs}

(* UpdateCorefile "failed to get nodelocal dns upstream servers": a cache  *)
(* that has none is not written.  It does not hold, as a DNS service       *)
(* without ClusterIP counts as a server.                                   *)
CorefileHasServer == "edgedns" \in modules => corefile.forward # <<>>
=============================================================================
