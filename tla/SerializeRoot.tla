----------------------------- MODULE SerializeRoot -----------------------------
(***************************************************************************)
(* Serialization_Adapters.Serialize: a preflight of the traversal through  *)
(* the Counter, the same traversal through the backend, Finish_Document.   *)
(*                                                                         *)
(* Serialize_Value is the application's: it makes any calls in any order,  *)
(* ignores the Error, latches one of its own, or raises.  `stable` says    *)
(* whether it keeps the contract of serialization_adapters.ads, lines      *)
(* 22-26, to make the same calls in both traversals.                       *)
(***************************************************************************)
EXTENDS Backends

CONSTANTS
  TraversalEvents,   \* the events a source may make
  ClientEvents       \* the events a client makes on the backend directly

ASSUME EventsAssumption == TraversalEvents \cup ClientEvents \subseteq AnyEvents

VARIABLES
  backend,     \* which writer
  into,        \* Into, with the Error the caller passed
  validator,   \* Validator, with the same Error while it runs
  pc,          \* "idle", or which traversal is running: "preflight" or "writing"
  stable,      \* whether Serialize_Value repeats itself
  script,      \* the events of the preflight, for a stable source to repeat
  raised       \* whether the last call ended with an exception

rootVars == <<backend, into, validator, pc, stable, script, raised>>

\* A slip: the validator keeps the default profile, in which everything is representable.
IdleDefault(error) == Counting!Reset(Cbor!Capabilities, error)

Idle(error) == Counting!Reset(Capabilities(backend), error)

RootInit ==
  /\ backend \in Backend
  /\ \E room \in 1..MaxRoom, x \in Json!Exhaustions : into = Fresh(backend, room, x)
  /\ validator = Idle(NoError)
  /\ pc = "idle" /\ stable = TRUE /\ script = <<>> /\ raised = FALSE

\* The state between two calls: what the validator and the traversal left is gone.
Settled ==
  /\ pc' = "idle" /\ validator' = Idle(NoError) /\ stable' = TRUE /\ script' = <<>>
  /\ UNCHANGED backend

-----------------------------------------------------------------------------
(* Serialize. *)

\* Entered with an operation in progress, or with one finished or poisoned.
Refuse ==
  /\ pc = "idle" /\ ~Latched(into)
  /\ State(into) # "Ready"
  /\ into' = LET t == LatchCode(into, "Invalid_State")
             IN  IF State(into) = "Active" THEN Abort_Document(t) ELSE t
  /\ raised' = FALSE
  /\ Settled

Enter ==
  /\ pc = "idle" /\ ~Latched(into)
  /\ State(into) = "Ready"
  /\ pc' = "preflight"
  /\ stable' \in BOOLEAN
  /\ raised' = FALSE
  /\ validator' = Idle(NoError)
  /\ UNCHANGED <<backend, into, script>>

\* Serialize_Value makes a call, in the preflight.
Observe ==
  /\ pc = "preflight"
  /\ \E e \in TraversalEvents :
       /\ validator' = Counting!Event(validator, e)
       /\ script' = IF stable /\ ~Latched(validator) THEN Append(script, e) ELSE script
  /\ UNCHANGED <<backend, into, pc, stable, raised>>

\* A slip: a failed preflight returns without touching the backend.
FailCallOpen(error) ==
  /\ into' = [into EXCEPT !.error = error]
  /\ raised' = FALSE
  /\ Settled

\* Back from the call with an error: both operations are aborted.
FailCall(error) ==
  /\ into' = [Abort_Document(into) EXCEPT !.error = error]
  /\ raised' = FALSE
  /\ Settled

\* A slip: the backend is left open by the exception handler.
RaiseCallOpen(error) ==
  /\ into' = [into EXCEPT !.error = error]
  /\ raised' = TRUE
  /\ Settled

\* Out of the call with an exception: the handler aborts both, and raises again.
RaiseCall(error) ==
  /\ into' = [Abort_Document(into) EXCEPT !.error = error]
  /\ raised' = TRUE
  /\ Settled

\* Serialize_Value returns from the preflight.
EndPreflight ==
  /\ pc = "preflight"
  /\ \E v \in {Counting!Finish_Document(validator)} :
       \/ /\ Latched(v)
          /\ FailCall(v.error)
       \/ /\ ~Latched(v)
          /\ pc' = "writing"
          /\ validator' = v
          /\ UNCHANGED <<backend, into, stable, script, raised>>

\* Serialize_Value makes a call, in the real pass; Storage_Error ends the pass.
Emit ==
  /\ pc = "writing"
  /\ \E e \in TraversalEvents :
       /\ stable => script # <<>> /\ e = Head(script)
       /\ \E t \in {WriterEvent(backend, into, e)} :
            \/ /\ t.error = Raised
               /\ RaiseCall(NoError)
            \/ /\ t.error # Raised
               /\ into' = t
               /\ script' = IF stable THEN Tail(script) ELSE <<>>
               /\ UNCHANGED <<backend, validator, pc, stable, raised>>

\* Serialize_Value returns from the real pass.
EndWriting ==
  /\ pc = "writing"
  /\ stable => script = <<>> \/ Latched(into)
  /\ \E t \in {WriterFinish(backend, into)} :
       \/ /\ Latched(t)
          /\ FailCall(t.error)
       \/ /\ ~Latched(t)
          /\ into' = t
          /\ raised' = FALSE
          /\ Settled

\* Serialize_Value latches an error of its own; one that repeats itself did so before.
SourceFails ==
  \/ /\ pc = "preflight"
     /\ validator' = LatchCode(validator, "Application_Error")
     /\ UNCHANGED <<backend, into, pc, stable, script, raised>>
  \/ /\ pc = "writing" /\ ~stable
     /\ into' = LatchCode(into, "Application_Error")
     /\ UNCHANGED <<backend, validator, pc, stable, script, raised>>

\* Serialize_Value raises, whether or not an error is latched.
SourceRaises ==
  \/ pc = "preflight" /\ RaiseCall(validator.error)
  \/ pc = "writing" /\ RaiseCall(into.error)

-----------------------------------------------------------------------------
(* The client, between calls. *)

Client(s) ==
  /\ pc = "idle"
  /\ \E t \in {s} :
       /\ into' = Returned(t)
       /\ raised' = (t.error = Raised)
  /\ UNCHANGED <<backend, validator, pc, stable, script>>

Drive ==
  \/ \E e \in ClientEvents : Client(WriterEvent(backend, into, e))
  \/ Client(WriterFinish(backend, into))
  \/ Client(Abort_Document(into))
  \/ Client(WriterReset(backend, into))
  \/ \E c \in {NoError, "Application_Error"} : Client([into EXCEPT !.error = c])

Serialize ==
  \/ Refuse \/ Enter \/ Observe \/ EndPreflight \/ Emit \/ EndWriting
  \/ SourceFails \/ SourceRaises

RootNext == Drive \/ Serialize

RootSpec == RootInit /\ [][RootNext]_rootVars

-----------------------------------------------------------------------------
(* Properties. *)

\* serialization.ads, lines 28-30: once a source that repeats itself passed the preflight,
\* the real pass fails for want of room only.
OnlyStorageFails ==
  pc = "writing" /\ stable =>
    into.error = NoError \/ (into.error = "Capacity_Exceeded" /\ into.length = into.room)

\* ... and if nothing failed, its document is published when the call returns.
AcceptedIsPublished ==
  [][EndWriting /\ stable /\ ~Latched(into) => State(into') = "Finished"]_rootVars

\* Whatever the source does, a published document is one whole value, and none is
\* published while a call is under way.
PublishedIsWhole ==
  \A d \in Document(backend, into) : Whole(backend, d) /\ pc = "idle"

\* Every call that started a traversal ends published and silent, or poisoned with the
\* reason latched or raised: never half way, never poisoned without a word.
OutcomeIsReported ==
  [][pc # "idle" /\ pc' = "idle" =>
       \/ State(into') = "Finished" /\ ~Latched(into') /\ ~raised'
       \/ State(into') = "Poisoned" /\ (Latched(into') \/ raised')]_rootVars

\* Seen between calls, Serialize is one step of the contract.
Root == INSTANCE RootLifecycle
          WITH state <- IF pc = "idle" THEN State(into) ELSE "Ready",
               error <- IF pc = "idle" THEN into.error ELSE NoError,
               document <- Document(backend, into), Nothing <- {}
SerializeIsAtomic == Root!RootSpec
=============================================================================
