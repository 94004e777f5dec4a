------------------------------- MODULE Writers -------------------------------
(***************************************************************************)
(* A client of the package Serializers: it declares a JSON or a CBOR       *)
(* writer and drives it in any order, right or wrong.                      *)
(***************************************************************************)
EXTENDS Backends

CONSTANT MaxHeads   \* bound on the room of a CBOR writer

ASSUME HeadsAssumption == MaxHeads \in Nat

VARIABLES
  format,     \* the writer the client declared
  writer,     \* the writer and the client's Error_Info
  delivered   \* what Copy_Output or Output last handed out

vars == <<format, writer, delivered>>

\* No writer looks at a type name.
Events == EventsOver({"text"}, Texts, Floats,
                     {Known_Length(n) : n \in 0..MaxItems} \cup {Unknown_Length},
                     0..MaxItems)

Room(b) == 0..(IF b = "json" THEN MaxRoom ELSE MaxHeads)

Nothing == {}

Init ==
  /\ format \in Backend
  /\ \E room \in Room(format), x \in Json!Exhaustions : writer = Fresh(format, room, x)
  /\ delivered = Nothing

\* A call that leaves the writer as `s`.
Call(s) ==
  /\ writer' = Returned(s)
  /\ UNCHANGED <<format, delivered>>

Put == \E e \in Events : Call(WriterEvent(format, writer, e))

\* A byte string without content has a head of its own in CBOR.
PutEmptyBytes == format = "cbor" /\ Call(Cbor!Put_Bytes(writer, 0))

Finish == Call(WriterFinish(format, writer))
Abort == Call(Abort_Document(writer))
Reset == Call(WriterReset(format, writer))

\* Copy_Output, into a target that is large enough or not.
Copy_Output ==
  \/ /\ ~Latched(writer) /\ Document(format, writer) = Nothing
     /\ Call(LatchCode(writer, "Invalid_State"))
  \/ /\ ~Latched(writer) /\ Document(format, writer) # Nothing
     /\ Call(LatchCode(writer, "Capacity_Exceeded"))
  \/ /\ ~Latched(writer) /\ Document(format, writer) # Nothing
     /\ delivered' = Document(format, writer)
     /\ UNCHANGED <<format, writer>>

\* The client latches a failure of its own, or takes a clear Error_Info.
SetError(c) ==
  /\ writer' = [writer EXCEPT !.error = c]
  /\ UNCHANGED <<format, delivered>>

Next ==
  \/ Put \/ PutEmptyBytes \/ Finish \/ Abort \/ Reset \/ Copy_Output
  \/ \E c \in {NoError, "Application_Error"} : SetError(c)

Spec == Init /\ [][Next]_vars

-----------------------------------------------------------------------------
(* Properties. *)

\* Whatever a client got from Copy_Output or Output of a JSON writer is one whole JSON
\* value: every comma, bracket and name that Before_Value, After_Value and Pop emitted is
\* in its place.
DeliveredIsJson ==
  format = "json" => \A document \in delivered : Json!Grammar!Whole(document)

\* Whatever a client got from Copy_Output or Output of a CBOR writer is one whole item:
\* every declared count was filled and every break closes what it was meant to close.
DeliveredIsCbor ==
  format = "cbor" => \A document \in delivered : Cbor!Grammar!Whole(document)

\* While the operation is open and unfailed, what was emitted is the beginning of a
\* document, whole exactly when the writer's stack says so: no Emit of Before_Value,
\* After_Value, Push or Pop was skipped or done twice on the way through nested events.
EmittedFollowsGrammar ==
  ~writer.failed => IF format = "json" THEN Json!Follows(writer) ELSE Cbor!Follows(writer)

\* Either writer obeys the contract of the Serializer interface: events, Finish_Document,
\* Abort_Document, Reset and the reads of the output move it between Ready, Active,
\* Finished and Poisoned as SerializerLifecycle allows.
Lifecycle == INSTANCE SerializerLifecycle
               WITH state <- State(writer), error <- writer.error,
                    document <- Document(format, writer)
ImplementsLifecycle == Lifecycle!Spec
=============================================================================
