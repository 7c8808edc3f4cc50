------------------------------ MODULE MeshConfig ------------------------------
(***************************************************************************)
(* The configuration of edgemesh-agent and edgemesh-gateway: what the      *)
(* programs make of their file and environment before they run             *)
(* (pkg/apis/config/v1alpha1, its validation, and prepareRun's choice of   *)
(* how to reach the API server).  A configuration is a record              *)
(*   program      "agent" or "gateway"                                     *)
(*   env          the environment variables the container has              *)
(*   enable       the modules the file sets enable for, and to what        *)
(*   kubeAPI      kubeAPIConfig, see KubeAPI                               *)
(*   transport, serviceFilterMode                                          *)
(*   cache        cacheDNS of EdgeDNS: enable, autoDetect, upstreamServers *)
(*   cidrs        the pod networks of cloud and edge                       *)
(***************************************************************************)
EXTENDS Integers, Sequences, Functions

AgentOrder == <<"edgedns", "edgeproxy", "edgetunnel", "edgecni">>
GatewayOrder == <<"edgegateway", "edgetunnel">>

(* registerModules of the two programs.                                    *)
Order(c) == IF c.program = "agent" THEN AgentOrder ELSE GatewayOrder

Module == Range(AgentOrder) \cup Range(GatewayOrder)

(* kubeConfig is a path: none, one that is not absolute, one where there   *)
(* is no file, or one of a mounted file.                                   *)
KubeAPI ==
    [master: BOOLEAN, kubeConfig: {"", "relative", "missing", "mounted"},
     deleteKubeConfig: BOOLEAN]

DetectRunningMode(c) == IF "KUBERNETES_PORT" \in c.env THEN "CloudMode" ELSE "EdgeMode"

(* The defaults: every module is off, but EdgeDNS of an agent at the edge. *)
preConfigAgent(m, mode) == m = "edgedns" /\ mode = "EdgeMode"

(* Config: the file is parsed over the defaults.                           *)
Enabled(c) ==
    {m \in Range(Order(c)) :
        IF m \in DOMAIN c.enable THEN c.enable[m] ELSE preConfigAgent(m, DetectRunningMode(c))}

ValidateKubeAPIConfig(kubeAPI) == kubeAPI.kubeConfig \notin {"relative", "missing"}

IsValidTransport(transport) == transport \in {"tcp", "ws", "quic"}

isValidServiceFilterMode(mode) == mode \in {"FilterIfLabelDoesNotExists", "FilterIfLabelExists"}

ValidateModuleEdgeTunnel(c) == "edgetunnel" \in Enabled(c) => IsValidTransport(c.transport)

ValidateModuleEdgeProxy(c) ==
    "edgeproxy" \in Enabled(c) => isValidServiceFilterMode(c.serviceFilterMode)

Valid(c) ==
    /\ ValidateKubeAPIConfig(c.kubeAPI)
    /\ ValidateModuleEdgeTunnel(c)
    /\ c.program = "agent" => ValidateModuleEdgeProxy(c)

(* prepareRun: with Master or KubeConfig set the mode is manual.           *)
Mode(c) ==
    IF c.kubeAPI.master \/ c.kubeAPI.kubeConfig # "" THEN "ManualMode" ELSE DetectRunningMode(c)

(* The variables prepareRun looks up.                                      *)
Environment(c) == IF c.program = "agent" THEN {"NODE_NAME", "NAMESPACE"} ELSE {"NODE_NAME"}

-----------------------------------------------------------------------------
(* The pod networks the CNI module routes (pkg/cni/adapter.go): an address *)
(* of AddressBits bits and the length of the prefix.                       *)

AddressBits == 3
CIDR == [ip: 0..(2^AddressBits - 1), len: 0..AddressBits]

InNet(net, ip) ==
    LET size == 2^(AddressBits - net.len) IN ip \div size = net.ip \div size

(* Mutant: the masks are not compared.                                     *)
CheckTunCIDR_AnyMask(outer, host) == InNet(host, outer.ip)

CheckTunCIDR(outer, host) == InNet(host, outer.ip) /\ host.len = outer.len

(* The addresses of a network.                                             *)
Addresses(net) == {ip \in 0..(2^AddressBits - 1) : InNet(net, ip)}

=============================================================================
