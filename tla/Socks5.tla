-------------------------------- MODULE Socks5 --------------------------------
(***************************************************************************)
(* The SOCKS5 proxy of pkg/proxy/socks5_proxy.go: one goroutine per client *)
(* connection, all of which parse their request into the one Request that  *)
(* SocksHandle holds, and read it from there, a field at a time, until the *)
(* tunnel stream is asked for.                                             *)
(***************************************************************************)
EXTENDS Naturals, FiniteSets

CONSTANTS
    Conn, Node,
    wants,         \* the request each client sends: [type, dst, port, command]
    localNode,     \* s.Config.NodeName
    MaxInFlight,   \* how many connections are served at the same time
    ShortReads,    \* whether a read may return less than the slice holds
    Nil

VARIABLES
    Request,       \* s.SocksHandle.Request
    pc,
    host,          \* s.SocksHandle.Request.DstAddr as read for getTargetIPByNodeName
    targetIP,      \* its result: the node whose address it is, or Nil
    dstAddr,       \* the host argument of proxyConnectToRemote
    stream         \* what GetProxyStream was asked for, or Nil

socksVars == <<Request, pc, host, targetIP, dstAddr, stream>>

NoRequest == [type |-> "none", dst |-> Nil, port |-> 0, command |-> "none"]

SocksInit ==
    /\ Request = NoRequest
    /\ pc = [c \in Conn |-> "new"]
    /\ host = [c \in Conn |-> Nil]
    /\ targetIP = [c \in Conn |-> Nil]
    /\ dstAddr = [c \in Conn |-> Nil]
    /\ stream = [c \in Conn |-> Nil]

Idle == {"new", "proxying", "closed"}

Goto(c, label) == pc' = [pc EXCEPT ![c] = label]

(* Start: Accept, and a goroutine for the connection.                      *)
Accept(c) ==
    /\ pc[c] = "new"
    /\ Cardinality({d \in Conn : pc[d] \notin Idle}) < MaxInFlight
    /\ Goto(c, "parse")
    /\ UNCHANGED <<Request, host, targetIP, dstAddr, stream>>

(* handShake, and the reads of NewRequest, which all ignore how many bytes *)
(* they got: after a short read of the port its low byte is still zero.    *)
(* After any other short read the version, the address type or the name is *)
(* not one the code knows: ParsingFails and LookupFails.                   *)
Parsed(c) ==
    {wants[c]} \cup IF ShortReads THEN {[wants[c] EXCEPT !.port = @ - (@ % 256)]} ELSE {}

ParsingConnect(c) ==
    /\ pc[c] = "parse"
    /\ \E r \in Parsed(c) : Request' = r
    /\ Goto(c, "type")
    /\ UNCHANGED <<host, targetIP, dstAddr, stream>>

(* Every return of HandleSocksProxy closes the connection.                 *)
Close(c) ==
    /\ Goto(c, "closed")
    /\ UNCHANGED <<Request, host, targetIP, dstAddr, stream>>

ParsingFails(c) == pc[c] = "parse" /\ Close(c)

CheckType(c) ==
    /\ pc[c] = "type"
    /\ IF Request.type # "domain"
       THEN Close(c)
       ELSE /\ Goto(c, "local")
            /\ UNCHANGED <<Request, host, targetIP, dstAddr, stream>>

CheckLocal(c) ==
    /\ pc[c] = "local"
    /\ IF Request.dst = localNode
       THEN Close(c)
       ELSE /\ Goto(c, "host")
            /\ UNCHANGED <<Request, host, targetIP, dstAddr, stream>>

ReadHost(c) ==
    /\ pc[c] = "host"
    /\ host' = [host EXCEPT ![c] = Request.dst]
    /\ Goto(c, "lookup")
    /\ UNCHANGED <<Request, targetIP, dstAddr, stream>>

(* The address of the agent on that node, from the API server.             *)
getTargetIPByNodeName(c) ==
    /\ pc[c] = "lookup"
    /\ targetIP' = [targetIP EXCEPT ![c] = host[c]]
    /\ Goto(c, "command")
    /\ UNCHANGED <<Request, host, dstAddr, stream>>

LookupFails(c) == pc[c] = "lookup" /\ Close(c)

CheckCommand(c) ==
    /\ pc[c] = "command"
    /\ IF Request.command # "connect"
       THEN Close(c)
       ELSE /\ Goto(c, "dst")
            /\ UNCHANGED <<Request, host, targetIP, dstAddr, stream>>

(* The arguments of proxyConnectToRemote: DstAddr, then DstPort.           *)
ReadDstAddr(c) ==
    /\ pc[c] = "dst"
    /\ dstAddr' = [dstAddr EXCEPT ![c] = Request.dst]
    /\ Goto(c, "port")
    /\ UNCHANGED <<Request, host, targetIP, stream>>

proxyConnectToRemote(c) ==
    /\ pc[c] = "port"
    /\ stream' = [stream EXCEPT ![c] =
                    [node |-> dstAddr[c], ip |-> targetIP[c], port |-> Request.port]]
    /\ Goto(c, "proxying")
    /\ UNCHANGED <<Request, host, targetIP, dstAddr>>

StreamFails(c) == pc[c] = "port" /\ Close(c)

ProxyEnds(c) == pc[c] = "proxying" /\ Close(c)

HandleSocksProxy(c) ==
    \/ ParsingConnect(c) \/ ParsingFails(c)
    \/ CheckType(c) \/ CheckLocal(c)
    \/ ReadHost(c) \/ getTargetIPByNodeName(c) \/ LookupFails(c)
    \/ CheckCommand(c)
    \/ ReadDstAddr(c) \/ proxyConnectToRemote(c) \/ StreamFails(c)
    \/ ProxyEnds(c)

SocksNext == \E c \in Conn : Accept(c) \/ HandleSocksProxy(c)

SocksSpec == SocksInit /\ [][SocksNext]_socksVars

-----------------------------------------------------------------------------
(* Properties *)

(* The SSH guide: "Resolve the destination host name and port in the proxy *)
(* server", "The traffic is forwarded to the target machine".  The stream  *)
(* of a connection goes to the node and the port its own client asked for, *)
(* at that node's address.                                                 *)
ForwardedToTarget ==
    \A c \in Conn : stream[c] # Nil =>
       stream[c] = [node |-> wants[c].dst, ip |-> wants[c].dst, port |-> wants[c].port]

=============================================================================
