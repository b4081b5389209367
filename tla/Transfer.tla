------------------------------- MODULE Transfer -------------------------------
(***************************************************************************)
(* REFER transfers over an answered call: handle_b2bua_refer,              *)
(* handle_b2bua_transfer_notify, the REFER branch of handle_response and   *)
(* sip/business_services.CallTransfer.                                     *)
(*                                                                         *)
(* The call keeps one transfer.  Either party may refer the other; REFERs, *)
(* their responses and the NOTIFYs of the referred party may overtake one  *)
(* another.  Retransmission is the business of the transaction layer.      *)
(***************************************************************************)
EXTENDS Integers, Sequences

CONSTANTS
  MaxRefers,    \* bound: REFERs of both parties
  MaxFailovers, \* bound: the call is restored on another node
  Overlap       \* a party may refer while a transfer is under way

ASSUME TransferAssumption ==
  MaxRefers \in Nat /\ MaxFailovers \in Nat /\ Overlap \in BOOLEAN

VARIABLES
  refers,    \* what each REFER is and how it stands at its sender
  peer,      \* how the referred party stands with each REFER
  wire,      \* messages under way
  transfer,  \* B2BUACall.transfer and transfer_origin_inbound
  told,      \* the sipfrag results sent to each party
  inCall,    \* the call is in the tables
  consult,   \* the call that an attended transfer replaces
  failovers

transferVars == <<refers, peer, wire, transfer, told, inCall, consult, failovers>>

Parties == {"A", "B"}
Other(p) == CHOOSE q \in Parties : q # p
Refers == 1 .. MaxRefers
Results == {"success", "failure"}
NoTransfer == [refer |-> 0, origin |-> "A", state |-> "none"]

ToSbc(kind, n, what) == [kind |-> kind, n |-> n, what |-> what]

(***************************************************************************)
(* CallTransfer.                                                           *)
(***************************************************************************)
MutantOpen(t) == t.state \in {"accepted", "progress", "recovered"}
Open(t) == t.state \in {"accepted", "progress"}

\* notify, and recover_original after a failure.
MutantNotified(t, what) ==
  [t EXCEPT !.state = CASE what = "progress" -> "progress"
                        [] what = "success" -> "completed"
                        [] what = "failure" -> "failed"]
Notified(t, what) ==
  [t EXCEPT !.state = CASE what = "progress" -> "progress"
                        [] what = "success" -> "completed"
                        [] what = "failure" -> "recovered"]

\* The NOTIFY that goes to the referring party; only final results are kept,
\* with the REFER they stem from.
Tell(n, what) ==
  told' = IF what = "progress" THEN told
          ELSE [told EXCEPT ![transfer.origin] = Append(@, [n |-> n, what |-> what])]

Told(n) == \E p \in Parties : \E i \in DOMAIN told[p] : told[p][i].n = n

(***************************************************************************)
(* The parties.                                                            *)
(***************************************************************************)
\* A polite party waits for the result of the last REFER, and when it was its
\* own until nothing of it is under way any more.
Quiet(n) == peer[n] \in {"none", "ended"} /\ ~\E m \in wire : m.n = n
Polite(n, p) == \A k \in 1 .. n - 1 :
  \/ refers[k].state = "refused"
  \/ Told(k) /\ (refers[k].from = p => Quiet(k))

SendRefer(n, p, kind) ==
  /\ refers[n].state = "idle" /\ \A k \in 1 .. n - 1 : refers[k].state # "idle"
  /\ Overlap \/ Polite(n, p)
  /\ refers' = [refers EXCEPT ![n] = [from |-> p, kind |-> kind, state |-> "sent"]]
  /\ wire' = wire \cup {ToSbc("refer", n, kind)}
  /\ UNCHANGED <<peer, transfer, told, inCall, consult, failovers>>

\* The relayed REFER reaches the other party.
PeerAnswers(n) ==
  /\ ToSbc("relayed", n, "") \in wire
  /\ \E ok \in BOOLEAN :
       /\ peer' = [peer EXCEPT ![n] = IF ok THEN "trying" ELSE "ended"]
       /\ wire' = (wire \ {ToSbc("relayed", n, "")}) \cup
            {ToSbc("response", n, IF ok THEN "accepted" ELSE "rejected")}
  /\ UNCHANGED <<refers, transfer, told, inCall, consult, failovers>>

\* Progress, then the result; some phones notify it twice, the second time to
\* end the subscription.
PeerNotifies(n) ==
  /\ peer[n] \in {"trying", "success", "failure"}
  /\ \E what \in IF peer[n] = "trying" THEN Results \cup {"progress"} ELSE {peer[n]} :
       /\ ToSbc("notify", n, what) \notin wire
       /\ wire' = wire \cup {ToSbc("notify", n, what)}
       /\ peer' = [peer EXCEPT ![n] = IF what = "progress" THEN @
                                      ELSE IF @ = "trying" THEN what ELSE "ended"]
  /\ UNCHANGED <<refers, transfer, told, inCall, consult, failovers>>

\* A's other call: being set up, answered, over.
ConsultMoves ==
  /\ consult' = CASE consult = "early" -> "up" [] consult = "up" -> "gone"
                  [] consult = "gone" -> "gone"
  /\ consult' # consult
  /\ UNCHANGED <<refers, peer, wire, transfer, told, inCall, failovers>>

HangUp ==
  /\ inCall /\ inCall' = FALSE
  /\ UNCHANGED <<refers, peer, wire, transfer, told, consult, failovers>>

\* restore_b2bua_call_state: the transfer is not part of the saved call.
Failover ==
  /\ inCall /\ failovers < MaxFailovers
  /\ failovers' = failovers + 1 /\ transfer' = NoTransfer
  /\ UNCHANGED <<refers, peer, wire, told, inCall, consult>>

(***************************************************************************)
(* The SBC.                                                                *)
(***************************************************************************)

\* 481 without the call, 400 when the replaced dialog or its tags are missing.
Acceptable(n) == inCall /\ (refers[n].kind = "attended" => consult = "up")

ReceiveRefer(n) ==
  /\ ToSbc("refer", n, refers[n].kind) \in wire
  /\ refers' = [refers EXCEPT ![n].state = IF Acceptable(n) THEN "accepted" ELSE "refused"]
  /\ IF Acceptable(n)
     THEN /\ transfer' = [refer |-> n, origin |-> refers[n].from, state |-> "accepted"]
          /\ wire' = (wire \ {ToSbc("refer", n, refers[n].kind)}) \cup {ToSbc("relayed", n, "")}
     ELSE /\ wire' = wire \ {ToSbc("refer", n, refers[n].kind)}
          /\ UNCHANGED transfer
  /\ UNCHANGED <<peer, told, inCall, consult, failovers>>

\* The response carries no mark of the transfer it belongs to: the current
\* one fails, and its origin is told even when it had ended.
MutantRejected(n) == ToSbc("response", n, "accepted") \in wire
Rejected(n) == ToSbc("response", n, "rejected") \in wire

ReceiveResponse(n) ==
  /\ \E what \in {"accepted", "rejected"} :
       /\ ToSbc("response", n, what) \in wire
       /\ wire' = wire \ {ToSbc("response", n, what)}
  /\ IF Rejected(n) /\ inCall /\ transfer # NoTransfer
     THEN /\ transfer' = IF Open(transfer) THEN Notified(transfer, "failure") ELSE transfer
          /\ Tell(n, "failure")
     ELSE UNCHANGED <<transfer, told>>
  /\ UNCHANGED <<refers, peer, inCall, consult, failovers>>

\* 481 unless it comes from the other side of the transfer.
MutantExpected(n) == inCall /\ transfer # NoTransfer /\ Open(transfer)
Expected(n) ==
  inCall /\ transfer # NoTransfer /\ transfer.origin = refers[n].from /\ Open(transfer)

ReceiveNotify(n, what) ==
  /\ ToSbc("notify", n, what) \in wire
  /\ wire' = wire \ {ToSbc("notify", n, what)}
  /\ IF Expected(n)
     THEN transfer' = Notified(transfer, what) /\ Tell(n, what)
     ELSE UNCHANGED <<transfer, told>>
  /\ UNCHANGED <<refers, peer, inCall, consult, failovers>>

TransferInit ==
  /\ refers = [n \in Refers |-> [from |-> "A", kind |-> "blind", state |-> "idle"]]
  /\ peer = [n \in Refers |-> "none"]
  /\ wire = {} /\ transfer = NoTransfer
  /\ told = [p \in Parties |-> <<>>]
  /\ inCall = TRUE /\ consult = "early" /\ failovers = 0

Sbc == \E n \in Refers :
         \/ ReceiveRefer(n) \/ ReceiveResponse(n)
         \/ \E what \in Results \cup {"progress"} : ReceiveNotify(n, what)
PeerStep == \E n \in Refers : PeerAnswers(n) \/ PeerNotifies(n)

TransferNext ==
  \/ \E n \in Refers, p \in Parties, kind \in {"blind", "attended"} : SendRefer(n, p, kind)
  \/ PeerStep \/ ConsultMoves \/ HangUp \/ Failover \/ Sbc

\* Datagrams arrive in the end (they are retransmitted), and a referred party
\* ends its subscription with a final result.
TransferFairness ==
  /\ WF_transferVars(Sbc) /\ \A n \in Refers : WF_transferVars(PeerAnswers(n))
  /\ \A n \in Refers : WF_transferVars(PeerNotifies(n) /\ peer'[n] # "trying")
TransferSpec == TransferInit /\ [][TransferNext]_transferVars /\ TransferFairness

(***************************************************************************)
(* Properties                                                              *)
(***************************************************************************)

TransferTypeOK ==
  /\ transfer.refer \in 0 .. MaxRefers /\ transfer.origin \in Parties
  /\ transfer.state \in {"none", "accepted", "progress", "completed", "recovered"}
  /\ \A n \in Refers : peer[n] \in Results \cup {"none", "trying", "ended"}
  /\ \A p \in Parties : told[p] \in Seq([n : Refers, what : Results])

\* A result goes to the party whose REFER it answers, and each REFER gets one,
\* in whatever order responses and NOTIFYs arrive.
ResultToReferrer ==
  \A p \in Parties : \A i \in DOMAIN told[p] :
    /\ refers[told[p][i].n].from = p
    /\ \A j \in DOMAIN told[p] : told[p][i].n = told[p][j].n => i = j

\* Whoever was told 202 learns how the transfer ended, or the call ends.
ReferrerTold == \A n \in Refers : refers[n].state = "accepted" ~> Told(n) \/ ~inCall
=============================================================================
