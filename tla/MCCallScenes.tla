----------------------------- MODULE MCCallScenes -----------------------------
(***************************************************************************)
(* One call in three scenes: its outbound leg over UDP, which loses and    *)
(* repeats; over a stream, whose connection can fail; and at a node that   *)
(* other calls, not followed here, have filled.                            *)
(***************************************************************************)
EXTENDS MCB2BUACall

VARIABLE scene

Stream == INSTANCE B2BUACall WITH ReliablePeer <- TRUE, Provisionals <- MCPlain

\* Init, with every slot of admission taken.
FullInit ==
  /\ pc = [c \in Calls |-> "idle"] /\ call = [c \in Calls |-> NewCall]
  /\ queue = [c \in Calls |-> << >>] /\ active = MaxCalls
  /\ dialog = [c \in Calls |-> "none"] /\ stx = [c \in Calls |-> "none"]
  /\ ctx = [c \in Calls |-> [inv |-> "none", cancel |-> "none"]]
  /\ timer = [c \in Calls |-> [finalizer |-> FALSE, session |-> FALSE]]
  /\ media = [c \in Calls |-> {}]
  /\ wire = [c \in Calls |->
               [ toA |-> {}, early |-> FALSE, provs |-> 0, heard |-> {},
                 acked |-> {}, byed |-> {}, ended |-> {}, unacked |-> FALSE,
                 failAck |-> FALSE, aCancel |-> "no", aBye |-> "no",
                 expired |-> FALSE ]]

SceneInit ==
  \/ scene \in {"datagrams", "stream"} /\ Init
  \/ scene = "full" /\ FullInit

SceneNext ==
  /\ \/ scene = "stream" /\ Stream!Next
     \/ scene # "stream" /\ Next
  /\ UNCHANGED scene

sceneVars == <<vars, scene>>

\* The fairness of the calls, in each scene that of its own steps.
SceneFairness ==
  \A c \in Calls :
    /\ WF_sceneVars(scene # "stream" /\ Task(c) /\ UNCHANGED scene)
    /\ WF_sceneVars(scene # "stream" /\ FinalizeLater(c) /\ UNCHANGED scene)
    /\ WF_sceneVars(scene = "stream" /\ Stream!Task(c) /\ UNCHANGED scene)
    /\ WF_sceneVars(scene = "stream" /\ Stream!FinalizeLater(c) /\ UNCHANGED scene)

SceneSpec == SceneInit /\ [][SceneNext]_sceneVars /\ SceneFairness
=============================================================================
