------------------------------- MODULE TcpProxy -------------------------------
(***************************************************************************)
(* How the userspace proxy serves TCP connections: one accept loop per     *)
(* service port, TryConnectEndpoints with its retries in that loop, the    *)
(* choice of an endpoint under lb.lock, and the copying of bytes.          *)
(*                                                                         *)
(* Which endpoint is chosen is the subject of LoadBalancer.  Here it only  *)
(* matters that a port whose rule hashes an HTTP header (the ports of      *)
(* Hashed) reads the client's request while lb.lock is held.  A client     *)
(* sends one request and waits for its response, or closes.                *)
(***************************************************************************)
EXTENDS Naturals

CONSTANTS
    Port, Conn,
    Hashed,        \* ports with a ConsistentHash policy on an HTTP header
    MaxAttempts,   \* the length of EndpointDialTimeouts
    Nil

VARIABLES
    listening,     \* ports whose listener is open and whose service IsAlive
    serving,       \* the connection the accept loop of each port is busy with
    pc,            \* where each connection is
    attempt,       \* attempts TryConnectEndpoints has begun
    lock,          \* the connection that holds lb.lock, or Nil
    inbox,         \* the request: not "sent" yet, unread, or "taken" by ReadRequest
    closed,        \* clients that closed their side
    req,           \* the request nextEndpointWithConn returned in this attempt
    outConn,       \* the connection to the endpoint
    forwarded,     \* connections whose request was written to outConn
    crashed

proxyVars == <<listening, serving, pc, attempt, lock, inbox, closed, req, outConn,
               forwarded, crashed>>

ASSUME TcpAssumption ==
    /\ Hashed \subseteq Port
    /\ MaxAttempts \in Nat \ {0}
    /\ Nil \notin Conn

TcpInit ==
    /\ listening = Port
    /\ serving = [p \in Port |-> Nil]
    /\ pc = [c \in Conn |-> "new"]
    /\ attempt = [c \in Conn |-> 0]
    /\ lock = Nil
    /\ inbox = [c \in Conn |-> "none"]
    /\ closed = {}
    /\ req = [c \in Conn |-> FALSE]
    /\ outConn = [c \in Conn |-> "none"]
    /\ forwarded = {}
    /\ crashed = FALSE

-----------------------------------------------------------------------------
(* Clients, and the proxier that stops a service port *)

ClientSends(c) ==
    /\ inbox[c] = "none" /\ c \notin closed
    /\ inbox' = [inbox EXCEPT ![c] = "sent"]
    /\ UNCHANGED <<listening, serving, pc, attempt, lock, closed, req, outConn,
                   forwarded, crashed>>

ClientCloses(c) ==
    /\ c \notin closed
    /\ closed' = closed \cup {c}
    /\ UNCHANGED <<listening, serving, pc, attempt, lock, inbox, req, outConn,
                   forwarded, crashed>>

(* stopProxy: setAlive(false) and the listener is closed.                  *)
StopPort(p) ==
    /\ p \in listening
    /\ listening' = listening \ {p}
    /\ UNCHANGED <<serving, pc, attempt, lock, inbox, closed, req, outConn,
                   forwarded, crashed>>

-----------------------------------------------------------------------------
(* The accept loop *)

Accept(c, p) ==
    /\ p \in listening /\ serving[p] = Nil
    /\ pc[c] = "new"
    /\ serving' = [serving EXCEPT ![p] = c]
    /\ attempt' = [attempt EXCEPT ![c] = 1]
    /\ pc' = [pc EXCEPT ![c] = "lock"]
    /\ UNCHANGED <<listening, lock, inbox, closed, req, outConn, forwarded, crashed>>

(* The port of a connection that its accept loop is busy with.             *)
portOf(c) == CHOOSE p \in Port : serving[p] = c

(* Too many open files: Accept and Dial panic.                             *)
Exhausted ==
    /\ \/ \E p \in listening : serving[p] = Nil
       \/ \E c \in Conn : pc[c] = "dial"
    /\ crashed' = TRUE
    /\ UNCHANGED <<listening, serving, pc, attempt, lock, inbox, closed, req, outConn,
                   forwarded>>

(* TryConnectEndpoints returned an error: inConn is closed and the loop    *)
(* goes on.                                                                *)
Fail(c) ==
    /\ pc' = [pc EXCEPT ![c] = "failed"]
    /\ serving' = [serving EXCEPT ![portOf(c)] = Nil]

-----------------------------------------------------------------------------
(* nextEndpointWithConn: the whole of it holds lb.lock *)

LockLB(c) ==
    /\ pc[c] = "lock" /\ lock = Nil
    /\ lock' = c
    /\ pc' = [pc EXCEPT ![c] = "pick"]
    /\ UNCHANGED <<listening, serving, attempt, inbox, closed, req, outConn, forwarded, crashed>>

(* The service has no entry or no endpoints: the lock is released at once. *)
NoEndpoint(c) ==
    /\ pc[c] = "lock" /\ lock = Nil
    /\ Fail(c)
    /\ UNCHANGED <<listening, attempt, lock, inbox, closed, req, outConn, forwarded, crashed>>

Picked(c) ==
    /\ pc' = [pc EXCEPT ![c] = "dial"]
    /\ lock' = Nil
    /\ UNCHANGED <<listening, serving, attempt, closed, outConn, forwarded, crashed>>

(* Any policy or round robin that does not look at the request; cliReq is  *)
(* nil on this path.                                                       *)
PickWithoutRequest(c) ==
    /\ pc[c] = "pick" /\ portOf(c) \notin Hashed
    /\ req' = [req EXCEPT ![c] = FALSE]
    /\ Picked(c)
    /\ UNCHANGED inbox

(* http.ReadRequest takes the request out of inConn.                       *)
PickByHeader(c) ==
    /\ pc[c] = "pick" /\ portOf(c) \in Hashed
    /\ inbox[c] = "sent"
    /\ inbox' = [inbox EXCEPT ![c] = "taken"]
    /\ req' = [req EXCEPT ![c] = TRUE]
    /\ Picked(c)

(* Mutant: the lock is kept when reading the request fails.                *)
PickAfterReadError_KeepsLock(c) ==
    /\ pc[c] = "pick" /\ portOf(c) \in Hashed
    /\ inbox[c] # "sent" /\ c \in closed
    /\ req' = [req EXCEPT ![c] = FALSE]
    /\ pc' = [pc EXCEPT ![c] = "dial"]
    /\ UNCHANGED <<listening, serving, attempt, lock, inbox, closed, outConn, forwarded,
                   crashed>>

(* ReadRequest fails when the client closed: Pick returns an error and     *)
(* round robin chooses, without a request.  Until then it blocks.          *)
PickAfterReadError(c) ==
    /\ pc[c] = "pick" /\ portOf(c) \in Hashed
    /\ inbox[c] # "sent" /\ c \in closed
    /\ req' = [req EXCEPT ![c] = FALSE]
    /\ Picked(c)
    /\ UNCHANGED inbox

-----------------------------------------------------------------------------
(* The rest of TryConnectEndpoints *)

DialOK(c) ==
    /\ pc[c] = "dial"
    /\ outConn' = [outConn EXCEPT ![c] = "open"]
    /\ pc' = [pc EXCEPT ![c] = "write"]
    /\ UNCHANGED <<listening, serving, attempt, lock, inbox, closed, req, forwarded, crashed>>

(* The loop sleeps for the timeout and tries again with cliReq as it was   *)
(* passed in, not with the request that was read.                          *)
DialFails(c) ==
    /\ pc[c] = "dial"
    /\ IF attempt[c] < MaxAttempts
       THEN /\ attempt' = [attempt EXCEPT ![c] = @ + 1]
            /\ pc' = [pc EXCEPT ![c] = "lock"]
            /\ UNCHANGED serving
       ELSE /\ Fail(c)
            /\ UNCHANGED attempt
    /\ UNCHANGED <<listening, lock, inbox, closed, req, outConn, forwarded, crashed>>

(* Mutant: the request read for the choice is not passed on.               *)
Connected_RequestDropped(c) ==
    /\ pc[c] = "write"
    /\ pc' = [pc EXCEPT ![c] = "copy"]
    /\ serving' = [serving EXCEPT ![portOf(c)] = Nil]
    /\ UNCHANGED <<listening, attempt, lock, inbox, closed, req, outConn, forwarded, crashed>>

(* The request goes to the endpoint, and ProxyConn gets both connections.  *)
Connected(c) ==
    /\ pc[c] = "write"
    /\ forwarded' = IF req[c] THEN forwarded \cup {c} ELSE forwarded
    /\ pc' = [pc EXCEPT ![c] = "copy"]
    /\ serving' = [serving EXCEPT ![portOf(c)] = Nil]
    /\ UNCHANGED <<listening, attempt, lock, inbox, closed, req, outConn, crashed>>

(* Writing the request fails: outConn is neither returned nor closed.      *)
WriteFails(c) ==
    /\ pc[c] = "write" /\ req[c]
    /\ Fail(c)
    /\ UNCHANGED <<listening, attempt, lock, inbox, closed, req, outConn, forwarded, crashed>>

-----------------------------------------------------------------------------
(* ProxyConn *)

CopyRequest(c) ==
    /\ pc[c] = "copy" /\ inbox[c] = "sent" /\ outConn[c] = "open"
    /\ inbox' = [inbox EXCEPT ![c] = "taken"]
    /\ forwarded' = forwarded \cup {c}
    /\ UNCHANGED <<listening, serving, pc, attempt, lock, closed, req, outConn, crashed>>

(* Mutant: only the destination is closed when a copy ends.                *)
CopyEnds_OneSide(c) ==
    /\ pc[c] = "copy"
    /\ pc' = [pc EXCEPT ![c] = "done"]
    /\ UNCHANGED <<listening, serving, attempt, lock, inbox, closed, req, outConn,
                   forwarded, crashed>>

(* Either direction ends, at end of file or with an error, and closes both *)
(* connections, which ends the other direction.                            *)
CopyEnds(c) ==
    /\ pc[c] = "copy"
    /\ outConn' = [outConn EXCEPT ![c] = "closed"]
    /\ pc' = [pc EXCEPT ![c] = "done"]
    /\ UNCHANGED <<listening, serving, attempt, lock, inbox, closed, req, forwarded, crashed>>

Serve(c) ==
    \/ LockLB(c)
    \/ NoEndpoint(c)
    \/ PickWithoutRequest(c)
    \/ PickByHeader(c)
    \/ PickAfterReadError(c)
    \/ DialOK(c)
    \/ DialFails(c)
    \/ Connected(c)
    \/ WriteFails(c)

Run(c) ==
    \/ ClientSends(c)
    \/ ClientCloses(c)
    \/ \E p \in Port : Accept(c, p)
    \/ Serve(c)
    \/ CopyRequest(c)
    \/ CopyEnds(c)

TcpNext ==
    /\ ~crashed
    /\ \/ \E p \in Port : StopPort(p)
       \/ Exhausted
       \/ \E c \in Conn : Run(c)

TcpSpec == TcpInit /\ [][TcpNext]_proxyVars

(* The goroutines run, and clients that get no answer close in the end. A  *)
(* connection takes lb.lock a bounded number of times, so that a waiter    *)
(* gets it without further assumptions.                                    *)
FairTcpSpec ==
    /\ TcpSpec
    /\ \A c \in Conn : WF_proxyVars(~crashed /\ Serve(c)) /\ WF_proxyVars(~crashed /\ ClientCloses(c))

-----------------------------------------------------------------------------
(* Properties *)

TcpTypeOK ==
    /\ listening \subseteq Port
    /\ serving \in [Port -> Conn \cup {Nil}]
    /\ pc \in [Conn -> {"new", "lock", "pick", "dial", "write", "copy", "done", "failed"}]
    /\ attempt \in [Conn -> 0 .. MaxAttempts]
    /\ lock \in Conn \cup {Nil}
    /\ inbox \in [Conn -> {"none", "sent", "taken"}]
    /\ closed \subseteq Conn
    /\ req \in [Conn -> BOOLEAN]
    /\ outConn \in [Conn -> {"none", "open", "closed"}]
    /\ forwarded \subseteq Conn
    /\ crashed \in BOOLEAN

(* The accept loop serves one connection at a time, and only one of all    *)
(* the loops is inside nextEndpointWithConn, which changes the index and   *)
(* the affinities of the balancer and the hash ring of the policy.         *)
OneAtATime ==
    /\ \A c \in Conn : pc[c] \in {"lock", "pick", "dial", "write"} <=> (\E p \in Port : serving[p] = c)
    /\ \A c \in Conn : pc[c] = "pick" <=> lock = c

(* A connection to an endpoint is closed in the end, or being copied, or   *)
(* about to be, whatever failed on the way.  The exception is the one of   *)
(* TryConnectEndpoints that forgets it: the request could not be written.  *)
OutConnsOwned ==
    \A c \in Conn : outConn[c] = "open" =>
       \/ pc[c] \in {"write", "copy"}
       \/ pc[c] = "failed" /\ req[c]

(* nextEndpointWithConn: "because loadBalance strategy may have read       *)
(* http.Request from inConn, so here we need to return it to outConn!" It  *)
(* does not hold after a retry, for which the request is lost.             *)
RequestReturned ==
    \A c \in Conn : pc[c] = "copy" /\ inbox[c] = "taken" => c \in forwarded

(* A request that the hash policy of nextEndpointWithConn has read from    *)
(* the connection is written to the endpoint when the first attempt to     *)
(* connect succeeds.                                                       *)
RequestReturnedAtFirst ==
    \A c \in Conn :
       pc[c] = "copy" /\ inbox[c] = "taken" /\ attempt[c] = 1 => c \in forwarded

(* "cycling through until it is able to successfully connect, or it has    *)
(* tried with all timeouts in EndpointDialTimeouts": TryConnectEndpoints   *)
(* ends for every connection whose client sends its request.               *)
TryConnectEnds ==
    \A c \in Conn : pc[c] = "lock" ~> pc[c] \in {"copy", "done", "failed"} \/ crashed

=============================================================================
