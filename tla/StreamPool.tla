------------------------------ MODULE StreamPool ------------------------------
(***************************************************************************)
(* TCP and TLS connections: SipTcpConnectionProtocol, the bounded pool of  *)
(* SipServerProtocol and _send_stream_packet, with the server location.    *)
(*                                                                         *)
(* Each packet without a connection of its own is sent by a task.  It      *)
(* looks for a connection, resolves, connects target after target and      *)
(* waits in between, so two tasks for one destination overlap with each    *)
(* other, with accepted connections and with connections that go away.     *)
(***************************************************************************)
EXTENDS ServerLocation

CONSTANTS
  Connections,   \* connection objects
  NoConnection,
  MaxConnections,\* stream_max_connections
  Domain,        \* the destination that is a host name
  Destination    \* of each sender: Domain or an address

Addresses == UNION {Range(AddressesOf[h]) : h \in DOMAIN AddressesOf}
Endpoints == Addresses \cup {Domain}

ASSUME PoolAssumption ==
  /\ NoConnection \notin Connections /\ Domain \notin Addresses
  /\ MaxConnections \in Nat \ {0}
  /\ Destination \in [Senders -> Endpoints]

VARIABLES
  conn,   \* the connection objects and their transports
  pool,   \* stream_connection_set
  at,     \* stream_connections
  send,   \* the task of each packet
  heard   \* senders whose client transaction heard of a transport error

poolVars == <<conn, pool, at, send, heard, zone, cache, lookup>>
located == <<zone, cache, lookup>>

\* peer and reuse are not read once it is closed.
NoConn == [transport |-> "gone", closed |-> TRUE, peer |-> Domain, reuse |-> FALSE]
NoSend == [step |-> "idle", udp |-> FALSE, todo |-> << >>, conn |-> NoConnection]
SendSteps == {"idle", "queued", "locating", "trying", "made", "sent", "failed", "lost"}

(***************************************************************************)
(* Registering and unregistering.                                          *)
(***************************************************************************)

\* An object that no task holds and whose transport is gone.
Unused(c) == conn[c].transport = "gone" /\ \A s \in Senders : send[s].conn # c

MutantHasRoom(c) == Cardinality(pool) <= MaxConnections
HasRoom(c) == c \in pool \/ Cardinality(pool) < MaxConnections

\* connection_made; a connection beyond the limit is closed at once.
Opened(c, peer, outbound) ==
  IF HasRoom(c)
  THEN /\ conn' = [conn EXCEPT ![c] = [transport |-> "open", closed |-> FALSE,
                                       peer |-> peer, reuse |-> outbound]]
       /\ pool' = pool \cup {c}
       /\ at' = [at EXCEPT ![peer] = c]
  ELSE /\ conn' = [conn EXCEPT ![c] = [NoConn EXCEPT !.transport = "closing"]]
       /\ UNCHANGED <<pool, at>>

\* Every key of the connection goes, not only the one of its peer.
MutantDropped(c) == [at EXCEPT ![conn[c].peer] = IF @ = c THEN NoConnection ELSE @]
Dropped(c) == [k \in Endpoints |-> IF at[k] = c THEN NoConnection ELSE at[k]]
MutantUnregister(c) == at' = Dropped(c) /\ UNCHANGED pool
Unregister(c) == at' = Dropped(c) /\ pool' = pool \ {c}

(***************************************************************************)
(* What happens to a connection.                                           *)
(***************************************************************************)

Accept(c, peer) ==
  /\ Unused(c) /\ Opened(c, peer, FALSE)
  /\ UNCHANGED <<send, heard, located>>

\* A message whose Via has the alias parameter.
AliasArrives(c) ==
  /\ conn[c].transport = "open"
  /\ conn' = [conn EXCEPT ![c].reuse = TRUE]
  /\ UNCHANGED <<pool, at, send, heard, located>>

\* SipParseError: the transport is closed, the object learns of it later.
BadFrame(c) ==
  /\ conn[c].transport = "open"
  /\ conn' = [conn EXCEPT ![c].transport = "closing"]
  /\ UNCHANGED <<pool, at, send, heard, located>>

IdleExpired(c) ==
  /\ ~conn[c].closed
  /\ conn' = [conn EXCEPT ![c] = [NoConn EXCEPT !.transport = "closing"]]
  /\ Unregister(c)
  /\ UNCHANGED <<send, heard, located>>

ConnectionLost(c) ==
  /\ conn[c].transport # "gone"
  /\ conn' = [conn EXCEPT ![c] = NoConn]
  /\ Unregister(c)
  /\ UNCHANGED <<send, heard, located>>

(***************************************************************************)
(* Sending.                                                                *)
(***************************************************************************)
Step(s, step) == send' = [send EXCEPT ![s].step = step]
Finish(s, step) == send' = [send EXCEPT ![s] = [NoSend EXCEPT !.step = step]]

\* _send_packet without a connection creates the task, and so does a datagram
\* to a host name.
Send(s) ==
  /\ send[s].step = "idle"
  /\ \E udp \in {FALSE, Destination[s] = Domain} :
       send' = [send EXCEPT ![s].step = "queued", ![s].udp = udp]
  /\ UNCHANGED <<conn, pool, at, heard, located>>

\* _send_packet on the connection a request came by; closed, it falls back.
SendOn(s, c) ==
  /\ send[s].step = "idle"
  /\ conn[c].peer = Destination[s]
  /\ IF conn[c].closed THEN Step(s, "queued") ELSE Finish(s, "sent")
  /\ UNCHANGED <<conn, pool, at, heard, located>>

Reusable(s) ==
  LET c == at[Destination[s]] IN
  /\ ~send[s].udp
  /\ c # NoConnection /\ conn[c].reuse /\ ~conn[c].closed

SendReusing(s) ==
  /\ send[s].step = "queued" /\ Reusable(s)
  /\ Finish(s, "sent")
  /\ UNCHANGED <<conn, pool, at, heard, located>>

\* resolve runs in a thread; an address is returned as it is.
Given(address) == [address |-> address, priority |-> 0, weight |-> 0]
Resolve(s) ==
  /\ send[s].step = "queued" /\ ~Reusable(s)
  /\ IF Destination[s] = Domain
     THEN Step(s, "locating") /\ Ask(s)
     ELSE /\ send' = [send EXCEPT ![s].step = "trying", ![s].todo = <<Given(Destination[s])>>]
          /\ UNCHANGED located
  /\ UNCHANGED <<conn, pool, at, heard>>

Resolving(s) ==
  /\ send[s].step = "locating" /\ LookupStep(s)
  /\ UNCHANGED <<conn, pool, at, send, heard>>

\* The failure of one packet: the key is dropped, and every unanswered
\* request to the destination hears of it.
MutantTellAll(s) == UNCHANGED heard
TellAll(s) ==
  heard' = heard \cup {o \in Senders : /\ Destination[o] = Destination[s]
                                       /\ send[o].step # "idle" /\ ~send[o].udp}
Fail(s) ==
  /\ at' = [at EXCEPT ![Destination[s]] = NoConnection]
  /\ TellAll(s)
  /\ Finish(s, "failed")
  /\ UNCHANGED <<conn, pool>>

Forget(s) == lookup' = [lookup EXCEPT ![s] = NoLookup] /\ UNCHANGED <<zone, cache>>

Located(s) ==
  /\ send[s].step = "locating" /\ lookup[s].step = "answered"
  /\ IF send[s].udp
     THEN Finish(s, "sent")    \* to the first target only
     ELSE send' = [send EXCEPT ![s].step = "trying", ![s].todo = lookup[s].found]
  /\ Forget(s)
  /\ UNCHANGED <<conn, pool, at, heard>>

\* An OSError of getaddrinfo fails the packet; a datagram's task dies of it.
LocationFails(s) ==
  /\ send[s].step = "locating" /\ lookup[s].step = "failed"
  /\ IF send[s].udp THEN Finish(s, "lost") /\ UNCHANGED <<conn, pool, at, heard>>
     ELSE Fail(s)
  /\ Forget(s)

NextTarget(s) == send' = [send EXCEPT ![s].step = "trying", ![s].todo = Tail(@)]

Connect(s, c) ==
  /\ send[s].step = "trying" /\ send[s].todo # << >>
  /\ Unused(c) /\ Opened(c, Head(send[s].todo).address, TRUE)
  /\ send' = [send EXCEPT ![s].step = "made", ![s].conn = c]
  /\ UNCHANGED <<heard, located>>

Refused(s) ==
  /\ send[s].step = "trying" /\ send[s].todo # << >>
  /\ NextTarget(s)
  /\ UNCHANGED <<conn, pool, at, heard, located>>

\* The task goes on after create_connection.
TurnedAway(s) == conn[send[s].conn].closed

Connected(s) ==
  /\ send[s].step = "made"
  /\ IF TurnedAway(s)
     THEN NextTarget(s) /\ UNCHANGED at
     ELSE /\ at' = [at EXCEPT ![Destination[s]] = send[s].conn]
          /\ Finish(s, "sent")
  /\ UNCHANGED <<conn, pool, heard, located>>

NoTargetLeft(s) ==
  /\ send[s].step = "trying" /\ send[s].todo = << >>
  /\ Fail(s)
  /\ UNCHANGED located

\* The next packet of this sender.
Again(s) ==
  /\ send[s].step \in {"sent", "failed", "lost"}
  /\ send' = [send EXCEPT ![s] = NoSend]
  /\ heard' = heard \ {s}
  /\ UNCHANGED <<conn, pool, at, located>>

SendTask(s) ==
  \/ SendReusing(s) \/ Resolve(s) \/ Resolving(s) \/ Located(s) \/ LocationFails(s)
  \/ (\E c \in Connections : Connect(s, c)) \/ Refused(s)
  \/ Connected(s) \/ NoTargetLeft(s)

Outside ==
  /\ ZoneChanges \/ ClockTicks
  /\ UNCHANGED <<conn, pool, at, send, heard>>

PoolInit ==
  /\ LocationInit
  /\ conn = [c \in Connections |-> NoConn]
  /\ pool = {} /\ at = [k \in Endpoints |-> NoConnection]
  /\ send = [s \in Senders |-> NoSend]
  /\ heard = {}

PoolRest == zone = (CHOOSE z \in Zones : TRUE) /\ PoolInit

PoolNext ==
  \/ \E c \in Connections :
       \/ \E peer \in Addresses : Accept(c, peer)
       \/ AliasArrives(c) \/ BadFrame(c) \/ IdleExpired(c) \/ ConnectionLost(c)
  \/ \E s \in Senders :
       \/ Send(s) \/ (\E c \in Connections : SendOn(s, c)) \/ SendTask(s) \/ Again(s)
  \/ Outside

\* Tasks and threads run, and connecting ends one way or the other.
PoolFairness == \A s \in Senders : WF_poolVars(SendTask(s))
PoolSpec == PoolInit /\ [][PoolNext]_poolVars /\ PoolFairness

(***************************************************************************)
(* Properties                                                              *)
(***************************************************************************)

PoolTypeOK ==
  /\ conn \in [Connections -> [transport : {"open", "closing", "gone"},
                               closed : BOOLEAN, peer : Endpoints, reuse : BOOLEAN]]
  /\ pool \subseteq Connections /\ Cardinality(pool) <= MaxConnections
  /\ at \in [Endpoints -> Connections \cup {NoConnection}]
  /\ \A s \in Senders :
       /\ send[s].step \in SendSteps
       /\ send[s].udp \in BOOLEAN
       /\ \A t \in Range(send[s].todo) : t.address \in Addresses
       /\ send[s].conn \in Connections \cup {NoConnection}
  /\ heard \subseteq Senders

\* The pool holds exactly the connections that are not closed, in whichever
\* order they were refused, expired or were lost: no slot leaks.
PoolExact == \A c \in Connections : c \in pool <=> ~conn[c].closed

\* No key leads to a connection that left the pool, though a connection is
\* registered under its peer, and again under the destination by its task
\* when it may already be gone.
KeysInPool == \A k \in Endpoints : at[k] # NoConnection => at[k] \in pool

\* A request given to a task is written or its client transaction is heard,
\* through every race of lookups, connects, refusals and the pool's limit.
SendSettles ==
  \A s \in Senders :
    (send[s].step = "queued" /\ ~send[s].udp) ~> (send[s].step = "sent" \/ s \in heard)

\* docs/PROTOCOL_CORE_LAYER2.md:19-21: a failure of DNS is cached too
\* ("positive and negative caching"): no lookup asks DNS right after one
\* failed.  getaddrinfo raises instead, and nothing is stored.
FailureCached ==
  [][\A s \in Senders :
       lookup[s].step # "failed" /\ lookup'[s].step = "failed" => cache' # cache]_poolVars

\* docs/PROTOCOL_CORE_LAYER3.md:22, "connection failures terminate transactions
\* for the affected target": a failure does not reach a request that another
\* target took.  transport_error compares the destination before resolution.
OthersNotTold ==
  [][\A s \in Senders : s \in heard' \ heard => send[s].step # "sent"]_poolVars
=============================================================================
