------------------------------- MODULE UdpProxy -------------------------------
(***************************************************************************)
(* A UDP service port (udpProxySocket of pkg/proxy/proxysocket.go): the    *)
(* read loop, the cache of a backend connection per client address, the    *)
(* goroutine that returns the answers of each, and, for endpoints of       *)
(* another node, the far end of the tunnel stream (ProxyConnUDP and        *)
(* copyDatagram of pkg/util/net/conn.go).                                  *)
(***************************************************************************)
EXTENDS Naturals, FiniteSets

CONSTANTS
    Client,        \* client addresses
    BackendConn,   \* backend connections, as many as the model opens
    MaxDatagrams,  \* how many datagrams the clients send altogether
    None

ASSUME UdpAssumption == None \notin Client /\ None \notin BackendConn

VARIABLES
    alive,         \* myInfo.IsAlive(), and the socket is open
    sent,          \* datagrams the clients have sent
    Clients,       \* activeClients.Clients
    loop,          \* the read loop: [pc, client, conn]
    conn,          \* backend connections: [state, client, far]
    reader,        \* proxyClient of a connection: where it is
    inStream,      \* datagrams in the stream, towards the far node
    far,           \* the far end: [loop, udp, readers, got]
    owed,          \* datagrams the endpoint has got and may answer
    answers        \* answers on their way to proxyClient

udpVars == <<alive, sent, Clients, loop, conn, reader, inStream, far, owed, answers>>

Idle == [pc |-> "read", client |-> None, conn |-> None]

UdpInit ==
    /\ alive = TRUE
    /\ sent = 0
    /\ Clients = [a \in Client |-> None]
    /\ loop = Idle
    /\ conn = [c \in BackendConn |-> [state |-> "unused", client |-> None, far |-> FALSE]]
    /\ reader = [c \in BackendConn |-> "none"]
    /\ inStream = [c \in BackendConn |-> 0]
    /\ far = [c \in BackendConn |-> [loop |-> "none", udp |-> "none", readers |-> 0, got |-> 0]]
    /\ owed = [c \in BackendConn |-> 0]
    /\ answers = [c \in BackendConn |-> 0]

(* proxyClient deletes under activeClients.Mu, which the loop holds from   *)
(* the lookup of the client to the end of getBackendConn.                  *)
MuFree == loop.pc # "dial"

-----------------------------------------------------------------------------
(* ProxyLoop *)

(* Proxier.stopProxy: not alive any more, and the socket is closed.        *)
StopProxy ==
    /\ alive
    /\ alive' = FALSE
    /\ UNCHANGED <<sent, Clients, loop, conn, reader, inStream, far, owed, answers>>

(* IsAlive, then ReadFrom: a datagram of some client.                      *)
ReadFrom(a) ==
    /\ loop.pc = "read" /\ alive
    /\ sent < MaxDatagrams
    /\ sent' = sent + 1
    /\ loop' = [pc |-> "get", client |-> a, conn |-> None]
    /\ UNCHANGED <<alive, Clients, conn, reader, inStream, far, owed, answers>>

LoopExits ==
    /\ loop.pc = "read" /\ ~alive
    /\ loop' = [loop EXCEPT !.pc = "exited"]
    /\ UNCHANGED <<alive, sent, Clients, conn, reader, inStream, far, owed, answers>>

(* Mutant: the cache is not looked up.                                     *)
Lookup_NeverFound ==
    /\ loop.pc = "get"
    /\ loop' = [loop EXCEPT !.pc = "dial"]
    /\ UNCHANGED <<alive, sent, Clients, conn, reader, inStream, far, owed, answers>>

(* getBackendConn: lock, and a client that is known keeps its connection.  *)
Lookup ==
    /\ loop.pc = "get"
    /\ loop' = IF Clients[loop.client] # None
               THEN [loop EXCEPT !.pc = "write", !.conn = Clients[loop.client]]
               ELSE [loop EXCEPT !.pc = "dial"]
    /\ UNCHANGED <<alive, sent, Clients, conn, reader, inStream, far, owed, answers>>

(* TryConnectEndpoints, to this node or through the tunnel to another, the *)
(* entry in the cache, and the goroutine of the answers.                   *)
Connect(c, isFar) ==
    /\ loop.pc = "dial"
    /\ conn[c].state = "unused"
    /\ conn' = [conn EXCEPT ![c] = [state |-> "open", client |-> loop.client, far |-> isFar]]
    /\ far' = IF isFar THEN [far EXCEPT ![c].loop = "run", ![c].udp = "open"] ELSE far
    /\ Clients' = [Clients EXCEPT ![loop.client] = c]
    /\ reader' = [reader EXCEPT ![c] = "reading"]
    /\ loop' = [loop EXCEPT !.pc = "write", !.conn = c]
    /\ UNCHANGED <<alive, sent, inStream, owed, answers>>

ConnectFails ==
    /\ loop.pc = "dial"
    /\ loop' = Idle
    /\ UNCHANGED <<alive, sent, Clients, conn, reader, inStream, far, owed, answers>>

(* svrConn.Write and SetDeadline.                                          *)
WriteOK ==
    LET c == loop.conn IN
    /\ loop.pc = "write" /\ conn[c].state = "open" /\ far[c].loop # "done"
    /\ loop' = Idle
    /\ IF conn[c].far
       THEN inStream' = [inStream EXCEPT ![c] = @ + 1] /\ UNCHANGED owed
       ELSE owed' = [owed EXCEPT ![c] = @ + 1] /\ UNCHANGED inStream
    /\ UNCHANGED <<alive, sent, Clients, conn, reader, far, answers>>

(* A timeout, a reset, or proxyClient has closed the connection meanwhile: *)
(* the datagram is dropped.                                                *)
WriteErr ==
    /\ loop.pc = "write"
    /\ loop' = Idle
    /\ UNCHANGED <<alive, sent, Clients, conn, reader, inStream, far, owed, answers>>

-----------------------------------------------------------------------------
(* proxyClient *)

(* An endpoint of this node answers on the connection itself.              *)
LocalAnswer(c) ==
    /\ ~conn[c].far /\ owed[c] > 0
    /\ owed' = [owed EXCEPT ![c] = @ - 1]
    /\ answers' = [answers EXCEPT ![c] = @ + 1]
    /\ UNCHANGED <<alive, sent, Clients, loop, conn, reader, inStream, far>>

(* Read, SetDeadline and WriteTo, which fails once the socket is closed.   *)
ReturnAnswer(c) ==
    /\ reader[c] = "reading" /\ answers[c] > 0
    /\ answers' = [answers EXCEPT ![c] = @ - 1]
    /\ reader' = [reader EXCEPT ![c] = IF alive THEN "reading" ELSE "delete"]
    /\ UNCHANGED <<alive, sent, Clients, loop, conn, inStream, far, owed>>

(* Read fails: the idle timeout, a refused datagram, a reset stream.       *)
ReadFails(c) ==
    /\ reader[c] = "reading"
    /\ reader' = [reader EXCEPT ![c] = "delete"]
    /\ UNCHANGED <<alive, sent, Clients, loop, conn, inStream, far, owed, answers>>

(* Mutant: proxyClient returns without deleting.                           *)
DeleteClient_Kept(c) ==
    /\ reader[c] = "delete" /\ MuFree
    /\ reader' = [reader EXCEPT ![c] = "close"]
    /\ UNCHANGED <<alive, sent, Clients, loop, conn, inStream, far, owed, answers>>

DeleteClient(c) ==
    /\ reader[c] = "delete" /\ MuFree
    /\ Clients' = [Clients EXCEPT ![conn[c].client] = None]
    /\ reader' = [reader EXCEPT ![c] = "close"]
    /\ UNCHANGED <<alive, sent, loop, conn, inStream, far, owed, answers>>

(* The deferred svrConn.Close().                                           *)
CloseConn(c) ==
    /\ reader[c] = "close"
    /\ conn' = [conn EXCEPT ![c].state = "closed"]
    /\ reader' = [reader EXCEPT ![c] = "none"]
    /\ UNCHANGED <<alive, sent, Clients, loop, inStream, far, owed, answers>>

-----------------------------------------------------------------------------
(* The far end of a stream *)

(* ProxyConnUDP: a datagram of the stream, a goroutine of its own for the  *)
(* answers, and the write, which fails once udpConn is closed.             *)
ForwardDatagram(c) ==
    /\ far[c].loop = "run" /\ inStream[c] > 0
    /\ inStream' = [inStream EXCEPT ![c] = @ - 1]
    /\ far' = [far EXCEPT ![c].readers = @ + 1, ![c].got = @ + 1]
    /\ owed' = IF far[c].udp = "open" THEN [owed EXCEPT ![c] = @ + 1] ELSE owed
    /\ UNCHANGED <<alive, sent, Clients, loop, conn, reader, answers>>

(* The stream was closed by proxyClient.                                   *)
StreamEnds(c) ==
    /\ far[c].loop = "run" /\ inStream[c] = 0 /\ conn[c].state = "closed"
    /\ far' = [far EXCEPT ![c].loop = "done"]
    /\ UNCHANGED <<alive, sent, Clients, loop, conn, reader, inStream, owed, answers>>

(* The connection between the nodes is lost, with what the stream held.    *)
StreamReset(c) ==
    /\ far[c].loop = "run"
    /\ far' = [far EXCEPT ![c].loop = "done"]
    /\ inStream' = [inStream EXCEPT ![c] = 0]
    /\ UNCHANGED <<alive, sent, Clients, loop, conn, reader, owed, answers>>

(* One of the copyDatagrams reads an answer and writes it to the stream.   *)
CopyAnswer(c) ==
    /\ far[c].readers > 0 /\ far[c].udp = "open" /\ owed[c] > 0
    /\ owed' = [owed EXCEPT ![c] = @ - 1]
    /\ answers' = IF conn[c].state = "open" /\ far[c].loop = "run"
                  THEN [answers EXCEPT ![c] = @ + 1] ELSE answers
    /\ UNCHANGED <<alive, sent, Clients, loop, conn, reader, inStream, far>>

(* Its read or its write fails, or the second of the deadline is over: it  *)
(* closes udpConn, which ends the others too.                              *)
CopyDatagramEnds(c) ==
    /\ far[c].readers > 0
    /\ far' = [far EXCEPT ![c].readers = @ - 1, ![c].udp = "closed"]
    /\ UNCHANGED <<alive, sent, Clients, loop, conn, reader, inStream, owed, answers>>

ProxyLoop ==
    \/ \E a \in Client : ReadFrom(a)
    \/ LoopExits \/ Lookup
    \/ \E c \in BackendConn, isFar \in BOOLEAN : Connect(c, isFar)
    \/ ConnectFails \/ WriteOK \/ WriteErr

proxyClient(c) == ReturnAnswer(c) \/ ReadFails(c) \/ DeleteClient(c) \/ CloseConn(c)

ProxyConnUDP(c) ==
    \/ ForwardDatagram(c) \/ StreamEnds(c) \/ StreamReset(c)
    \/ CopyAnswer(c) \/ CopyDatagramEnds(c)

UdpNext ==
    \/ StopProxy \/ ProxyLoop
    \/ \E c \in BackendConn : proxyClient(c) \/ LocalAnswer(c) \/ ProxyConnUDP(c)

UdpSpec == UdpInit /\ [][UdpNext]_udpVars

(* The goroutines run; a read without an answer meets its deadline.  The   *)
(* clients and the endpoints do as they like.                              *)
FairUdpSpec ==
    /\ UdpSpec
    /\ WF_udpVars(Lookup \/ ConnectFails \/ WriteErr)
    /\ \A c \in BackendConn :
          /\ WF_udpVars(ReadFails(c) \/ DeleteClient(c) \/ CloseConn(c))
          /\ WF_udpVars(ForwardDatagram(c) \/ StreamEnds(c)) /\ WF_udpVars(CopyDatagramEnds(c))

-----------------------------------------------------------------------------
(* Properties *)

UdpTypeOK ==
    /\ alive \in BOOLEAN
    /\ sent \in 0..MaxDatagrams
    /\ Clients \in [Client -> BackendConn \cup {None}]
    /\ loop \in [pc : {"read", "get", "dial", "write", "exited"},
                 client : Client \cup {None}, conn : BackendConn \cup {None}]
    /\ conn \in [BackendConn -> [state : {"unused", "open", "closed"},
                                 client : Client \cup {None}, far : BOOLEAN]]
    /\ reader \in [BackendConn -> {"none", "reading", "delete", "close"}]
    /\ inStream \in [BackendConn -> Nat]
    /\ far \in [BackendConn -> [loop : {"none", "run", "done"}, udp : {"none", "open", "closed"},
                                readers : Nat, got : Nat]]
    /\ owed \in [BackendConn -> Nat]
    /\ answers \in [BackendConn -> Nat]

(* "If this is a client we know already, reuse the connection and          *)
(* goroutine": the cache has a connection for a client exactly if it is    *)
(* open, was opened for that client, and has a goroutine that has not yet  *)
(* deleted the entry. So getBackendConn never hands out a dead connection, *)
(* no client has two, and proxyClient never removes the entry of a newer   *)
(* connection.                                                             *)
CachedIffServed ==
    \A a \in Client, c \in BackendConn :
        Clients[a] = c <=> /\ conn[c].state = "open" /\ conn[c].client = a
                           /\ reader[c] \in {"reading", "delete"}

(* The goroutines of the far end never outlive udpConn unnoticed: when all *)
(* of them have ended, it is closed, unless no datagram ever came.         *)
FarSocketClosed ==
    \A c \in BackendConn : far[c].readers = 0 /\ far[c].got > 0 => far[c].udp = "closed"

(* Every backend connection is given up in the end: it is closed, no entry *)
(* holds it, and the far end's socket is closed too if it was ever used.   *)
ConnsReleased ==
    \A c \in BackendConn : conn[c].state = "open" ~>
       /\ conn[c].state = "closed"
       /\ \A a \in Client : Clients[a] # c
       /\ far[c].loop # "run"
       /\ far[c].got > 0 => far[c].udp = "closed"

(* "When Close() is called, no new connections are allowed": once the      *)
(* service port is closed no backend connection is opened. It does not     *)
(* hold for a datagram that was read before.                               *)
NoNewAfterClose ==
    [][~alive => \A c \in BackendConn : conn[c].state = "unused" => conn'[c].state = "unused"]_udpVars

=============================================================================
