----------------------------- MODULE RootLifecycle -----------------------------
(***************************************************************************)
(* What Serialization_Adapters.Serialize promises its caller: the whole    *)
(* traversal happens at once, on a Ready serializer, or not at all.        *)
(***************************************************************************)
EXTENDS SerializerLifecycle

\* The value was acceptable and fitted: its document is published.
RootPublish ==
  /\ state = "Ready" /\ error = NoError
  /\ state' = "Finished"
  /\ document' # Nothing
  /\ UNCHANGED error

\* Preflight, the real pass or Finish_Document failed, or something raised: poisoned, with
\* the reason latched unless an exception carries it.
RootFail ==
  /\ state = "Ready" /\ error = NoError
  /\ state' = "Poisoned"
  /\ UNCHANGED document

\* An operation in progress is ended; a finished or poisoned one is left alone.
RootRefuse ==
  /\ state # "Ready" /\ error = NoError
  /\ error' = "Invalid_State"
  /\ state' = IF state = "Active" THEN "Poisoned" ELSE state
  /\ UNCHANGED document

RootNext == Next \/ RootPublish \/ RootFail \/ RootRefuse

RootSpec == Init /\ [][RootNext]_vars
=============================================================================
