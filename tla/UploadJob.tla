------------------------------ MODULE UploadJob ------------------------------
(***************************************************************************)
(* What one call of UploadFunc (client-plugin/upload/upload.go) promises   *)
(* to its caller, without goroutines, channels or a clock: parts are       *)
(* acknowledged by UploadFile, the target is composed at most once and     *)
(* only from parts that are all acknowledged, and the call returns once.   *)
(* What nil does not promise: that the composition succeeded (a failure is *)
(* logged, upload.go:333), or that the destination still holds what it     *)
(* acknowledged.  ChunkUpload implements this specification.               *)
(*                                                                         *)
(* "disturbed" stands for the two events after which the code makes no     *)
(* promise about the meaning of a nil error: a part was sent a second      *)
(* time, or the deadline of the upload passed.                             *)
(***************************************************************************)

CONSTANT Parts

VARIABLES
  acknowledged, \* parts for which UploadFile has returned nil
  composed,     \* the one ComposeFile call: "no", "running", "ok" or "failed"
  result,       \* what the caller got: "none" so far, "nil" or "err"
  disturbed     \* a part was re-sent or the deadline passed

vars == <<acknowledged, composed, result, disturbed>>

Init ==
  /\ acknowledged = {}
  /\ composed = "no"
  /\ result = "none"
  /\ disturbed = FALSE

\* A part is acknowledged; a re-sent part changes nothing.
AcknowledgePart(p) ==
  /\ acknowledged' = acknowledged \cup {p}
  /\ UNCHANGED <<composed, result, disturbed>>

\* Composition is called once, when every part was acknowledged.
StartCompose ==
  /\ composed = "no"
  /\ acknowledged = Parts
  /\ composed' = "running"
  /\ UNCHANGED <<acknowledged, result, disturbed>>

EndCompose ==
  /\ composed = "running"
  /\ composed' \in {"ok", "failed"}
  /\ UNCHANGED <<acknowledged, result, disturbed>>

\* An undisturbed upload only returns nil after its composition has ended,
\* well or not.
Return ==
  /\ result = "none"
  /\ \/ result' = "err"
     \/ /\ result' = "nil"
        /\ composed \in {"ok", "failed"} \/ disturbed
  /\ UNCHANGED <<acknowledged, composed, disturbed>>

Disturb ==
  /\ disturbed' = TRUE
  /\ UNCHANGED <<acknowledged, composed, result>>

Next ==
  \/ \E p \in Parts : AcknowledgePart(p)
  \/ StartCompose
  \/ EndCompose
  \/ Return
  \/ Disturb

Spec == Init /\ [][Next]_vars
=============================================================================
