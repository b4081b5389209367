---------------------------------- MODULE Node ---------------------------------
(***************************************************************************)
(* The process of one node: main() from the configuration to the listeners, *)
(* the task that reloads the TLS certificate, the control requests that     *)
(* drain the node, and what a new TLS handshake or a new INVITE finds.      *)
(*                                                                         *)
(* A certificate and its key have the version they were issued with.       *)
(***************************************************************************)
EXTENDS Integers, FiniteSets

CONSTANTS
  MaxVersion,     \* bound: certificates that are issued
  MaxRestarts,    \* bound: ends of the process
  EarlyRotation   \* a certificate may be replaced while the process starts

ASSUME NodeAssumption == {MaxVersion, MaxRestarts} \subseteq Nat /\ EarlyRotation \in BOOLEAN

VARIABLES
  phase,      \* "down", "loaded", "listening", "serving"
  cert,       \* the version in the certificate file
  key,        \* the version in the key file
  context,    \* tls_server_context: what it holds of the two
  client,     \* tls_client_context
  signature,  \* last_signature of the reload task
  draining,   \* ha_node_draining
  ordered,    \* what the operator was last told: drained or not
  taken,      \* a new INVITE was admitted by a drained node
  restarts

nodeVars == <<phase, cert, key, context, client, signature, draining, ordered, taken, restarts>>

Files == [cert |-> cert, key |-> key]
Nothing == [cert |-> 0, key |-> 0]
Paired(c) == c.cert = c.key
NoSignature == Nothing

\* create_tls_contexts: without a pair of files the process ends.
Load ==
  /\ phase = "down"
  /\ IF Paired(Files)
     THEN context' = Files /\ client' = Files /\ phase' = "loaded"
     ELSE UNCHANGED <<context, client, phase>>
  /\ signature' = NoSignature /\ draining' = FALSE
  /\ UNCHANGED <<cert, key, ordered, taken, restarts>>

\* The listeners are bound one after the other, the one for health last; if one
\* fails the process ends.
Listen ==
  /\ phase = "loaded" /\ phase' \in {"listening", "down"}
  /\ UNCHANGED <<cert, key, context, client, signature, draining, ordered, taken, restarts>>

\* One turn of reload_tls_certificate_loop.  The first only takes the times of
\* the files.  A key that does not fit leaves the context without one.
MutantAfterLoad(loaded) == Files
AfterLoad(loaded) == IF loaded THEN Files ELSE signature
Reload ==
  /\ phase \in {"listening", "serving"} /\ phase' = "serving"
  /\ \/ /\ signature = NoSignature /\ signature' = Files
        /\ UNCHANGED context
     \/ /\ signature \notin {NoSignature, Files}
        /\ \/ Paired(Files) /\ context' = Files
           \/ ~Paired(Files) /\ context' \in {context, [cert |-> cert, key |-> 0]}
        /\ signature' = AfterLoad(Paired(Files))
  /\ UNCHANGED <<cert, key, client, draining, ordered, taken, restarts>>

\* handle_health_request.
Control ==
  /\ phase \in {"listening", "serving"}
  /\ draining' \in BOOLEAN /\ ordered' = draining'
  /\ UNCHANGED <<phase, cert, key, context, client, signature, taken, restarts>>

\* A new INVITE, at a node that takes it.
Invite ==
  /\ phase \in {"listening", "serving"} /\ ~draining
  /\ taken' = (taken \/ ordered)
  /\ UNCHANGED <<phase, cert, key, context, client, signature, draining, ordered, restarts>>

(***************************************************************************)
(* The environment                                                         *)
(***************************************************************************)
MayRotate == EarlyRotation \/ phase = "down" \/ (phase = "serving" /\ signature # NoSignature)

RotateCert ==
  /\ MayRotate /\ cert < MaxVersion
  /\ cert' = cert + 1 /\ key' \in {key, cert'}
  /\ UNCHANGED <<phase, context, client, signature, draining, ordered, taken, restarts>>

RotateKey ==
  /\ MayRotate /\ key # cert /\ key' = cert
  /\ UNCHANGED <<phase, cert, context, client, signature, draining, ordered, taken, restarts>>

Dies ==
  /\ phase # "down" /\ restarts < MaxRestarts
  /\ phase' = "down" /\ restarts' = restarts + 1
  /\ UNCHANGED <<cert, key, context, client, signature, draining, ordered, taken>>

NodeInit ==
  /\ phase = "down" /\ cert = 1 /\ key = 1 /\ context = Nothing /\ client = Nothing
  /\ signature = NoSignature /\ draining = FALSE /\ ordered = FALSE /\ taken = FALSE /\ restarts = 0

NodeNext == Load \/ Listen \/ Reload \/ Control \/ Invite \/ RotateCert \/ RotateKey \/ Dies

\* The platform restarts the process, ports become free, and the task runs.
NodeFairness ==
  /\ WF_nodeVars(Load) /\ WF_nodeVars(Reload)
  /\ SF_nodeVars(Listen /\ phase' = "listening") /\ WF_nodeVars(RotateKey)

NodeSpec == NodeInit /\ [][NodeNext]_nodeVars /\ NodeFairness

(***************************************************************************)
(* Properties                                                              *)
(***************************************************************************)
NodeTypeOK ==
  /\ phase \in {"down", "loaded", "listening", "serving"}
  /\ {cert, key} \subseteq 1 .. MaxVersion /\ draining \in BOOLEAN /\ ordered \in BOOLEAN
  /\ restarts \in 0 .. MaxRestarts

\* New TLS handshakes see the certificate that was issued last in the end,
\* although the two files change one after the other, a turn of the task may
\* meet only one of them, and the process may end in between.
RotationSeen == <>[](phase = "serving" /\ context = Files /\ Paired(context))

\* A turn never gives up a pair that works for files that are no newer, and
\* times that were taken belong to files that were loaded.
ReloadCurrent ==
  phase = "serving" /\ signature # NoSignature => context.cert >= signature.cert /\ Paired(signature)

(***************************************************************************)
(* Properties that the code does not have                                  *)
(***************************************************************************)

\* docs/PROTOCOL_CORE_LAYER2.md:23-24, "in-place certificate/key reload for new
\* handshakes": handshakes succeed all the time.  Between the two files of a
\* rotation the context has a certificate without its key.
HandshakesWork == phase = "serving" => Paired(context)

\* The same for the connections the node opens: tls_client_context stays.
OutboundRotated == <>[](phase = "serving" => client = Files)

\* docs/RTPENGINE_LOCAL.md:40, "New calls can be drained from a node": a
\* drained node takes no new call.  One that restarts forgets.
DrainHolds == ~taken
=============================================================================
