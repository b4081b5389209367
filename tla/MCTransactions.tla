--------------------------- MODULE MCTransactions ---------------------------
(***************************************************************************)
(* The two transaction tables and the overload gate in one run.  They      *)
(* share no state here, so a behaviour moves one of them; what the gate    *)
(* does to the server table is checked with Shedding, by MCServerTransaction. *)
(***************************************************************************)
EXTENDS ClientTransaction, OverloadGate, TLC

CONSTANTS i1, b1, i2

VARIABLES serverTxn, tu, finals, acked, focus

MCKeys == {i1, b1, i2}
MCInvites == {i1, i2}
MCReliable == {i2}

\* An INVITE over UDP, one over a stream and a BYE over UDP, of three calls.
Server == INSTANCE ServerTransaction WITH
  SameCall <- [k \in MCKeys |-> {}], txn <- serverTxn,
  T4 <- 1, TimerH <- 2, Shedding <- FALSE
serverVars == <<serverTxn, tu, finals, acked>>

\* Two users of one realm behind one address, and an emergency call.
Request(id, user, method, priority) ==
  [id |-> id, source |-> "net", realm |-> "access", user |-> user,
   method |-> method, priority |-> priority]
MCRequests == {Request(1, "a", "INVITE", FALSE), Request(2, "a", "REGISTER", FALSE),
               Request(3, "b", "INVITE", FALSE), Request(4, "b", "INVITE", TRUE)}
MCLimit ==
  ("source" :> 3) @@ ("realm" :> 0) @@ ("subscriber" :> 2) @@
  ("method" :> 0) @@ ("registration" :> 1) @@ ("invite" :> 2)

MCInit ==
  /\ Init /\ Server!Init /\ GateInit
  /\ focus \in {"client", "server", "gate"}

ClientStep == Next /\ UNCHANGED <<serverVars, gateVars, focus>>
ServerStep == Server!Next /\ UNCHANGED <<vars, gateVars, focus>>
GateStep == GateNext /\ UNCHANGED <<vars, serverVars, focus>>

MCNext ==
  \/ focus = "client" /\ ClientStep
  \/ focus = "server" /\ ServerStep
  \/ focus = "gate" /\ GateStep

\* The fairness of both tables: time passes and the loop runs the due tasks.
MCSpec ==
  /\ MCInit /\ [][MCNext]_<<vars, serverVars, gateVars, focus>>
  /\ WF_vars(focus = "client" /\ Tick) /\ WF_serverVars(focus = "server" /\ Server!Tick)
  /\ \A k \in Keys :
       /\ WF_vars(focus = "client" /\ Retransmit(k))
       /\ WF_vars(focus = "client" /\ Timeout(k))
       /\ WF_vars(focus = "client" /\ Cleanup(k))
       /\ WF_serverVars(focus = "server" /\ Server!Retransmit(k))
       /\ WF_serverVars(focus = "server" /\ Server!Expire(k))

\* A server transaction that has its final response is forgotten in the end,
\* however often the request or its ACK is retransmitted, by whichever of
\* expiry task, Timer G and the lookup of another request comes first.
ServerForgets == Server!FinalsForgotten

\* No transaction of either table outlives its work.
TransactionsEnd == NonInviteEnds /\ ServerForgets
=============================================================================
