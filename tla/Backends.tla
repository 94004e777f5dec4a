------------------------------- MODULE Backends -------------------------------
(***************************************************************************)
(* The three serializers of the package Serializers: the Counter, and the  *)
(* JSON and CBOR writers behind the dispatching calls that a root adapter  *)
(* or another client makes on Serializer'Class.                            *)
(***************************************************************************)
EXTENDS SerializerTypes

Counting == INSTANCE CountingSerializer
Json == INSTANCE JsonWriter
Cbor == INSTANCE CborWriter

Backend == {"json", "cbor"}

\* Any call of a traversal; a declared length is a Natural.
AnyEvents == EventsOver(Texts, Texts, Floats, [known : BOOLEAN, length : Nat], Nat)

Capabilities(b) == IF b = "json" THEN Json!Capabilities ELSE Cbor!Capabilities

Fresh(b, room, exhaustion) ==
  IF b = "json" THEN Json!Fresh(room, exhaustion, NoError) ELSE Cbor!Fresh(room, exhaustion, NoError)

WriterEvent(b, w, e) == IF b = "json" THEN Json!Event(w, e) ELSE Cbor!Event(w, e)

WriterFinish(b, w) == IF b = "json" THEN Json!Finish_Document(w) ELSE Cbor!Finish_Document(w)

WriterReset(b, w) == IF b = "json" THEN Json!Reset_Writer(w) ELSE Cbor!Reset_Writer(w)

Document(b, w) == IF b = "json" THEN Json!Document(w) ELSE Cbor!Document(w)

Whole(b, text) == IF b = "json" THEN Json!Grammar!Whole(text) ELSE Cbor!Grammar!Whole(text)

\* The writer's buffer is full, and the call that found it so reported it or raised.
OutOfRoom(w) == w.error \in {"Capacity_Exceeded", Raised} /\ w.length = w.room
=============================================================================
