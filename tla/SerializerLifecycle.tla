------------------------- MODULE SerializerLifecycle -------------------------
(***************************************************************************)
(* The contract of flyology_serde-serialization.ads, lines 16-30: the four *)
(* states of a serializer and what an event, Finish_Document,              *)
(* Abort_Document and Reset may do in each.  The document is what a client *)
(* can read back: nothing until Finish_Document has published it.          *)
(***************************************************************************)

CONSTANTS
  NoError,   \* the clear Error.Code
  Nothing    \* no published document

VARIABLES
  state,     \* Ready, Active, Finished or Poisoned
  error,     \* Error.Code as the client sees it between calls
  document   \* the published document, or Nothing

vars == <<state, error, document>>

Open == state \in {"Ready", "Active"}

Init ==
  /\ state = "Ready"
  /\ error = NoError
  /\ document = Nothing

\* An accepted event: the operation is active, nothing is published.
Accept ==
  /\ Open /\ error = NoError
  /\ state' = "Active"
  /\ UNCHANGED <<error, document>>

\* A refused event or Finish_Document, or one that raised, poisons.
Refuse ==
  /\ Open /\ error = NoError
  /\ state' = "Poisoned"
  /\ error' # "Application_Error"
  /\ UNCHANGED document

\* A balanced Finish_Document publishes.
Publish ==
  /\ state = "Active" /\ error = NoError
  /\ state' = "Finished"
  /\ document' # Nothing
  /\ UNCHANGED error

\* Finished and Poisoned reject every event without changing anything else.
Misuse ==
  /\ ~Open /\ error = NoError
  /\ error' = "Invalid_State"
  /\ UNCHANGED <<state, document>>

\* Abort_Document revokes publication, from any state, whatever the error.
Abort ==
  /\ state' = "Poisoned"
  /\ document' = Nothing
  /\ UNCHANGED error

\* The only way back.
Reset ==
  /\ state' = "Ready"
  /\ document' = Nothing
  /\ UNCHANGED error

\* Reading the document back may fail, but never changes the serializer: nothing is there
\* before publication, and a published document may not fit its target.
ReadBack ==
  /\ error = NoError
  /\ error' = IF document = Nothing THEN "Invalid_State" ELSE "Capacity_Exceeded"
  /\ UNCHANGED <<state, document>>

\* The client latches or clears its own Error_Info between two calls; a call made with
\* a latched Error_Info changes nothing.
SetError ==
  /\ error' \in {error, NoError, "Application_Error"}
  /\ UNCHANGED <<state, document>>

Next == Accept \/ Refuse \/ Publish \/ Misuse \/ Abort \/ Reset \/ ReadBack \/ SetError

Spec == Init /\ [][Next]_vars
=============================================================================
