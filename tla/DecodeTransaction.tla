--------------------------- MODULE DecodeTransaction ---------------------------
(***************************************************************************)
(* What Deserialization_Adapters.Deserialize promises its caller           *)
(* (deserialization_adapters.ads and docs/architecture.md): one document   *)
(* replaces the published value as a whole, or nothing is published and    *)
(* the reader is of no use until it is reset.                              *)
(***************************************************************************)

CONSTANT NoError   \* the clear Error.Code

VARIABLES
  source,      \* the reader: "open", "complete" or "poisoned"
  error,       \* Error.Code between calls
  raised,      \* whether the last call ended with an exception
  published    \* the application's value

vars == <<source, error, raised, published>>

Init ==
  /\ source = "open" /\ error = NoError /\ raised = FALSE

\* A document was read to its end: it is published, and nothing else happened.
Publish ==
  /\ source = "open" /\ error = NoError
  /\ source' = "complete"
  /\ raised' = FALSE
  /\ UNCHANGED error

\* A failed call leaves the published value alone, poisons, and says why.
Fail ==
  /\ error = NoError
  /\ source' = "poisoned"
  /\ error' # NoError \/ raised'
  /\ UNCHANGED published

\* Abort_Document poisons whatever was there.
Abort ==
  /\ source' = "poisoned" /\ raised' = FALSE
  /\ UNCHANGED <<error, published>>

\* The only way back.
Reset ==
  /\ source' = "open" /\ raised' = FALSE
  /\ UNCHANGED <<error, published>>

\* The caller's own Error_Info.
SetError ==
  /\ raised' = FALSE
  /\ UNCHANGED <<source, published>>

Next == Publish \/ Fail \/ Abort \/ Reset \/ SetError

Spec == Init /\ [][Next]_vars
=============================================================================
