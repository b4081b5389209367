---------------------------- MODULE MediaSessions ----------------------------
(***************************************************************************)
(* MediaServer: the RTP sessions of calls that the SBC answers itself, the *)
(* ports they hold and the bridge rooms that pair them.                    *)
(*                                                                         *)
(* create_session allocates a port and binds it at once, but it waits for  *)
(* the endpoint before it binds the RTCP port and registers the session,   *)
(* so other calls are created, joined and hung up in between.              *)
(***************************************************************************)
EXTENDS Integers, FiniteSets

CONSTANTS
  Callers,    \* the calls
  NoCaller,
  Rooms,      \* bridge_rooms
  NoRoom,     \* the call is echoed
  PortCount   \* RTP ports between port_min and port_max

ASSUME MediaAssumption ==
  NoCaller \notin Callers /\ NoRoom \notin Rooms /\ PortCount \in Nat \ {0}

Ports == 0 .. PortCount - 1

VARIABLES
  session,   \* the RtpSession of each call and how far create_session is
  waiting,   \* bridge_waiting
  socket,    \* who has bound each RTP port
  nextPort   \* _next_port

mediaVars == <<session, waiting, socket, nextPort>>

NoPort == PortCount
NoSession == [state |-> "none", room |-> NoRoom, port |-> NoPort, peer |-> NoCaller]
SessionStates == {"none", "binding", "open", "failed"}

(***************************************************************************)
(* _allocate_port: the loop tries each port once and comes back to where   *)
(* it began.                                                               *)
(***************************************************************************)
MutantAfter(p) == p + 1
After(p) == IF p + 1 = PortCount THEN 0 ELSE p + 1
MutantIsFree(p) == p \in Ports
IsFree(p) == socket[p] = NoCaller

\* The port that turn n of a loop from p tries, and the turns that find one.
Tried(p, n) == IF p + n < PortCount THEN p + n ELSE p + n - PortCount
MutantGoodTurns(p) == {n \in 1 .. PortCount - 1 : IsFree(Tried(p, n))}
GoodTurns(p) == {n \in 0 .. PortCount - 1 : IsFree(Tried(p, n))}
First(turns) == CHOOSE n \in turns : \A m \in turns : n <= m

Allocated(p) ==
  IF GoodTurns(p) = {} THEN NoPort ELSE Tried(p, First(GoodTurns(p)))

(***************************************************************************)
(* create_session and join_bridge.                                         *)
(***************************************************************************)

Create(c, room) ==
  /\ session[c].state = "none"
  /\ LET p == Allocated(nextPort) IN
     /\ p # NoPort
     /\ nextPort' = After(p)
     /\ socket' = [socket EXCEPT ![p] = c]
     /\ session' = [session EXCEPT ![c] = [NoSession EXCEPT
                      !.state = "binding", !.room = room, !.port = p]]
  /\ UNCHANGED waiting

\* "No RTP ports available": the caller's task dies.
CreateExhausted(c) ==
  /\ session[c].state = "none" /\ Allocated(nextPort) = NoPort
  /\ session' = [session EXCEPT ![c].state = "failed"]
  /\ UNCHANGED <<waiting, socket, nextPort>>

\* Somebody else has the RTCP port: create_session raises, and the RTP
\* endpoint stays bound.
RtcpTaken(c) ==
  /\ session[c].state = "binding"
  /\ session' = [session EXCEPT ![c].state = "failed"]
  /\ UNCHANGED <<waiting, socket, nextPort>>

Opens(c) ==
  LET room == session[c].room
      opened == [session EXCEPT ![c].state = "open"] IN
  /\ session[c].state = "binding"
  /\ IF room = NoRoom THEN session' = opened /\ UNCHANGED waiting
     ELSE IF waiting[room] # NoCaller
     THEN LET w == waiting[room] IN
          /\ session' = [opened EXCEPT ![c].peer = w, ![w].peer = c]
          /\ waiting' = [waiting EXCEPT ![room] = NoCaller]
     ELSE session' = opened /\ waiting' = [waiting EXCEPT ![room] = c]
  /\ UNCHANGED <<socket, nextPort>>

(***************************************************************************)
(* close_session.                                                          *)
(***************************************************************************)
MutantLeftRoom(c) == waiting
LeftRoom(c) ==
  [r \in Rooms |-> IF waiting[r] = c THEN NoCaller ELSE waiting[r]]

MutantClosed(c) == [session EXCEPT ![c] = NoSession]
Closed(c) ==
  [d \in Callers |-> IF d = c THEN NoSession
                     ELSE IF session[c].peer = d
                     THEN [session[d] EXCEPT !.peer = NoCaller] ELSE session[d]]

Close(c) ==
  /\ session[c].state = "open"
  /\ session' = Closed(c)
  /\ waiting' = LeftRoom(c)
  /\ socket' = [socket EXCEPT ![session[c].port] = NoCaller]
  /\ UNCHANGED nextPort

\* The next call of a caller whose call failed.
CallsAgain(c) ==
  /\ session[c].state = "failed"
  /\ session' = [session EXCEPT ![c] = NoSession]
  /\ UNCHANGED <<waiting, socket, nextPort>>

MediaInit ==
  /\ session = [c \in Callers |-> NoSession]
  /\ waiting = [r \in Rooms |-> NoCaller]
  /\ socket = [p \in Ports |-> NoCaller]
  /\ nextPort = 0

MediaNext ==
  \E c \in Callers :
    \/ \E room \in Rooms \cup {NoRoom} : Create(c, room)
    \/ CreateExhausted(c) \/ RtcpTaken(c) \/ Opens(c) \/ Close(c) \/ CallsAgain(c)

MediaSpec == MediaInit /\ [][MediaNext]_mediaVars

(***************************************************************************)
(* Properties                                                              *)
(***************************************************************************)

MediaTypeOK ==
  /\ session \in [Callers -> [state : SessionStates, room : Rooms \cup {NoRoom},
                              port : 0..PortCount, peer : Callers \cup {NoCaller}]]
  /\ waiting \in [Rooms -> Callers \cup {NoCaller}]
  /\ socket \in [Ports -> Callers \cup {NoCaller}]
  /\ nextPort \in Ports

\* Relayed media reaches the other party of the call and nobody else: the
\* peer of a session is open, in the same room, and has this one as its peer,
\* through any order of joining, leaving and creating.
PeersMutual ==
  \A c \in Callers : session[c].peer # NoCaller =>
    LET d == session[c].peer IN
    /\ session[c].state = "open" /\ session[d].state = "open"
    /\ session[d].peer = c /\ session[d].room = session[c].room

\* Who waits in a room can be joined: open and without a peer.
WaiterAlone ==
  \A r \in Rooms : waiting[r] # NoCaller =>
    LET s == session[waiting[r]] IN
    s.state = "open" /\ s.room = r /\ s.peer = NoCaller

\* Two sessions never hold one port, and a session holds the port it says.
PortsHeld ==
  \A c \in Callers : session[c].state \in {"binding", "open"} =>
    session[c].port # NoPort /\ socket[session[c].port] = c

\* The allocator gives up only when every port is taken, wherever its round
\* began.
NoFalseExhaustion ==
  [][\A c \in Callers :
       session[c].state = "none" /\ session'[c].state = "failed"
         => \A p \in Ports : ~IsFree(p)]_mediaVars

\* Media reaches the other party of the call and nobody else, who waits in a
\* room can be joined, no two sessions hold one port, and the allocator gives
\* up only when none is free, in every order of joining, leaving and creating.
SessionsSafe == [](PeersMutual /\ WaiterAlone /\ PortsHeld) /\ NoFalseExhaustion

\* docs/BUSINESS_CALLING_SERVICES.md:142: "no PlaySBC or RTPengine session
\* leaks".  A port is held by a session only while its call has one.
PortsReturned ==
  \A p \in Ports : socket[p] # NoCaller =>
    session[socket[p]].port = p /\ session[socket[p]].state \in {"binding", "open"}
=============================================================================
