-------------------------- MODULE SerializerParity --------------------------
(***************************************************************************)
(* The Counter and a backend given the same traversal in lockstep.         *)
(*                                                                         *)
(* flyology_serde-serialization.ads, lines 26-30: the capabilities of a    *)
(* backend and the limits of the root "completely determine semantic       *)
(* acceptance of an identical traversal; after a successful Counting       *)
(* preflight, only backend storage or sink failures may newly fail".  The  *)
(* Counter and the writers keep their own frames and count a nested        *)
(* container at different moments, so that agreement is not by the letter. *)
(***************************************************************************)
EXTENDS Backends

VARIABLES
  encoding,   \* which writer
  counter,    \* the validator of the root adapter
  emitter     \* the backend's writer

parityVars == <<encoding, counter, emitter>>

Traversal ==
  EventsOver(Texts, Texts, Floats,
             {Known_Length(n) : n \in 0..MaxItems} \cup {Unknown_Length}, 0..MaxItems)

ParityInit ==
  /\ encoding \in Backend
  /\ \E room \in {MaxRoom, 1}, x \in Json!Exhaustions : emitter = Fresh(encoding, room, x)
  /\ counter = Counting!Reset(Capabilities(encoding), NoError)

Running == ~Latched(counter) /\ ~Latched(emitter)

\* One event of the traversal, given to both; a refusal by either ends it.
GiveBoth(e) ==
  /\ Running
  /\ counter' = Counting!Event(counter, e)
  /\ emitter' = WriterEvent(encoding, emitter, e)
  /\ UNCHANGED encoding

FinishBoth ==
  /\ Running
  /\ counter' = Counting!Finish_Document(counter)
  /\ emitter' = WriterFinish(encoding, emitter)
  /\ UNCHANGED encoding

ParityNext == FinishBoth \/ \E e \in Traversal : GiveBoth(e)

ParitySpec == ParityInit /\ [][ParityNext]_parityVars

-----------------------------------------------------------------------------
(* Properties. *)

\* What the Counter accepts the backend accepts too, unless its buffer is full.
PreflightSuffices == Latched(emitter) /\ ~OutOfRoom(emitter) => Latched(counter)

\* The Counter refuses nothing on grounds of its own: an event it finds misplaced or beyond
\* the capabilities is refused by the backend for the same reason, and a text the backend
\* would refuse never gets as far as the backend.  What remains are the limits of the root
\* and the type names, which no backend emits.
PreflightIsNotStricter ==
  /\ counter.error \in {"Invalid_State", "Unsupported_Value"} =>
       OutOfRoom(emitter) \/ emitter.error = counter.error
  /\ emitter.error = "Invalid_Text" => counter.error = "Invalid_Text"

\* Frame i of the Counter has counted the open child of frame i of the writer already, or
\* turned from key to value for it; otherwise the two frames agree.
Agree(i) ==
  LET c == counter.stack[i]
      w == emitter.stack[i]
      inner == i < Len(emitter.stack)
      key == inner /\ w.kind = "map" /\ ~w.child_is_value
  IN  /\ <<c.kind, c.known, c.expected>> = <<w.kind, w.known, w.expected>>
      /\ c.observed = IF inner /\ ~key THEN w.observed + 1 ELSE w.observed
      /\ c.waiting = IF inner THEN key ELSE w.waiting

LockStep ==
  Running =>
    /\ Len(counter.stack) = Len(emitter.stack)
    /\ \A i \in DOMAIN emitter.stack : Agree(i)
    /\ counter.root_written = emitter.root_written
    /\ counter.finalized = emitter.finalized

\* As long as both accept, the two stacks correspond frame by frame, through every nesting
\* of containers as map keys, map values, items and fields; the Counter never lets either
\* past the limits of the root.
StacksAgree ==
  /\ counter.events <= Limits.events /\ Len(counter.stack) <= Limits.nesting
  /\ \A i \in DOMAIN counter.stack : counter.stack[i].observed <= Limits.items
  /\ LockStep
=============================================================================
