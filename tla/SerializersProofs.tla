--------------------------- MODULE SerializersProofs ---------------------------
(***************************************************************************)
(* What the serializers guarantee, for every nesting, limit, room and      *)
(* declared length: a writer to the client that drives it in any order, a  *)
(* Counter to the traversal it accepts, and Serialization_Adapters.        *)
(* Serialize to its caller, whatever the source.                           *)
(*                                                                         *)
(* First what an event does to a serializer, for every backend, nesting,   *)
(* limit and state.  Each writer is shown to do, but for running out of    *)
(* room, what its frames say and nothing else: the same for JSON and for   *)
(* CBOR.  That is then compared with the Counter, event by event.          *)
(* Whatever state it is called in, a writer is left as the contract of the *)
(* interface allows.  What it emits is the beginning of a document that    *)
(* its frames describe: the brackets they have open in JSON, the items     *)
(* they still owe in CBOR.                                                 *)
(***************************************************************************)
EXTENDS Writers, SerializerParity, SerializeRoot, SequenceTheorems, TLAPS

(* The writers without their output. *)

Components ==
  {"stack", "root_written", "failed", "finalized", "length", "text", "room", "exhaustion",
   "error"}

IsWriter(w) ==
  /\ w = [i \in Components |-> w[i]]   \* a record of these components
  /\ w.stack \in Seq(Frames)
  /\ w.root_written \in BOOLEAN /\ w.failed \in BOOLEAN /\ w.finalized \in BOOLEAN
  /\ w.length \in Nat /\ w.room \in Nat /\ w.length <= w.room
  /\ w.exhaustion \in {"Capacity_Exceeded", "Storage_Error"}
  /\ w.stack # <<>> => w.root_written

\* A writer that takes the next event.
IsOpen(w) == IsWriter(w) /\ w.error = NoError /\ ~w.failed /\ ~w.finalized

\* The writer is in the document, with these frames.
Leads(t, stack) == IsOpen(t) /\ t.root_written /\ t.stack = stack

Lost(t) == t = [i \in Components |-> t[i]] /\ Latched(t) /\ OutOfRoom(t)

LastOf(stack) == stack[Len(stack)]

\* Before_Value refuses.
Misplaced(s) ==
  IF s.stack = <<>> THEN s.root_written
  ELSE LET f == LastOf(s.stack) IN
         \/ f.kind \in {"optional", "sequence"} /\ Full(f)
         \/ f.kind = "map" /\ ~f.waiting /\ Full(f)
         \/ f.kind \in {"record", "variant"} /\ ~f.waiting

\* The frames when a child begins, and when it is complete.
Entered(stack) ==
  LET f == LastOf(stack) IN
  IF stack # <<>> /\ f.kind = "map"
  THEN [stack EXCEPT ![Len(stack)] = [f EXCEPT !.child_is_value = f.waiting]]
  ELSE stack

CompletesKey(f) == f.kind = "map" /\ ~f.child_is_value

Overflows(stack) ==
  stack # <<>> /\ ~CompletesKey(LastOf(stack)) /\ LastOf(stack).observed = NaturalLast

Completed(stack) ==
  LET f == LastOf(stack) IN
  IF stack = <<>> THEN stack
  ELSE [stack EXCEPT ![Len(stack)] =
          IF CompletesKey(f) THEN [f EXCEPT !.waiting = TRUE]
          ELSE [f EXCEPT !.waiting = FALSE, !.observed = @ + 1]]

Popped(stack) == SubSeq(stack, 1, Len(stack) - 1)

Field(stack) == [stack EXCEPT ![Len(stack)] = [LastOf(stack) EXCEPT !.waiting = TRUE]]

(* What an event leaves of a writer, when its texts and values can be written. *)

Held(t, stack) == Lost(t) \/ Leads(t, stack)

\* `t` is on the way, after the Before_Value of an event given to `s`.
Began(s, t) ==
  IF Misplaced(s) THEN t.error = "Invalid_State" ELSE Held(t, Entered(s.stack))

ValueOutcome(s, t) ==
  IF Misplaced(s) THEN t.error = "Invalid_State"
  ELSE Lost(t) \/ IF Overflows(Entered(s.stack))
                  THEN t.error = "Capacity_Exceeded"
                  ELSE Leads(t, Completed(Entered(s.stack)))

OpenOutcome(s, t, kind, length) ==
  IF Misplaced(s) THEN t.error = "Invalid_State"
  ELSE Lost(t) \/ IF Len(s.stack) = MaxSupportedNesting
                  THEN t.error = "Depth_Exceeded"
                  ELSE Leads(t, Append(Entered(s.stack), Frame(kind, length)))

CloseOutcome(s, t, kind) ==
  IF s.stack = <<>> \/ Unclosable(LastOf(s.stack), kind) THEN t.error = "Invalid_State"
  ELSE Lost(t) \/ IF Overflows(Popped(s.stack))
                  THEN t.error = "Capacity_Exceeded"
                  ELSE Leads(t, Completed(Popped(s.stack)))

FieldOutcome(s, t) ==
  IF s.stack = <<>> \/ ~TakesField(LastOf(s.stack)) THEN t.error = "Invalid_State"
  ELSE Held(t, Field(s.stack))

-----------------------------------------------------------------------------
\* Backends sees the operators of SerializerTypes through each of its writers.
USE DEF NoError, Raised, Latched, LatchCode, Json!NoError, Json!Raised, Json!Latched,
  Json!LatchCode, Cbor!NoError, Cbor!Raised, Cbor!Latched, Cbor!LatchCode, Counting!NoError,
  Counting!Raised, Counting!Latched, Counting!LatchCode, Top, SetTop, PushFrame, PopFrame,
  Json!Top, Json!SetTop, Json!PushFrame, Json!PopFrame, Cbor!Top, Cbor!SetTop, Cbor!PushFrame,
  Cbor!PopFrame, Full, Json!Full, Cbor!Full, Counting!Full, Guarded, Json!Guarded, Cbor!Guarded,
  Counting!Guarded, Closed, Json!Closed, Cbor!Closed, Counting!Closed

\* A string is appended where there is room.
LEMMA Appended ==
  ASSUME NEW s, IsOpen(s), s.root_written, s.length < s.room, NEW text
  PROVE  Leads([s EXCEPT !.length = @ + 1, !.text = text], s.stack)
<1>. DEFINE t == [s EXCEPT !.length = @ + 1, !.text = text]
<1>1. s.length \in Nat /\ s.room \in Nat /\ s.length + 1 \in Nat /\ s.length + 1 <= s.room
  BY DEF IsOpen, IsWriter
<1>2. /\ t = [i \in Components |-> t[i]]
      /\ t.length = s.length + 1 /\ t.stack = s.stack /\ t.root_written = s.root_written
      /\ t.failed = s.failed /\ t.finalized = s.finalized /\ t.room = s.room
      /\ t.exhaustion = s.exhaustion /\ t.error = s.error
  BY DEF IsOpen, IsWriter, Components
<1>. HIDE DEF t
<1>3. IsOpen(t)
  BY <1>1, <1>2 DEF IsOpen, IsWriter
<1>. QED
  BY <1>2, <1>3 DEF Leads, t

\* Emit appends, or finds no room.
LEMMA JsonEmit ==
  ASSUME NEW s, IsOpen(s), s.root_written, NEW tokens
  PROVE  Lost(Json!Emit(s, tokens)) \/ Leads(Json!Emit(s, tokens), s.stack)
<1>1. ~Latched(s) /\ ~s.failed
  BY DEF IsOpen
<1>2. CASE s.length < s.room
  <2>1. Json!Emit(s, tokens) =
          [s EXCEPT !.length = @ + 1, !.text = Json!Grammar!ReadTokens(@, tokens)]
    BY <1>1, <1>2 DEF Json!Emit
  <2>2. [s EXCEPT !.length = @ + 1, !.text = Json!Grammar!ReadTokens(@, tokens)] =
          [s EXCEPT !.length = @ + 1, !.text = Json!Grammar!ReadTokens(s.text, tokens)]
    OBVIOUS
  <2>. QED
    BY <1>2, <2>1, <2>2, Appended
<1>3. CASE ~(s.length < s.room)
  <2>1. s.length = s.room
    BY <1>3 DEF IsOpen, IsWriter
  <2>. QED
    BY <1>1, <1>3, <2>1 DEF IsOpen, IsWriter, Components, Lost, OutOfRoom,
      Json!Emit, Json!EmitBounded, Json!EmitAllocating, Json!Fail
<1>. QED
  BY <1>2, <1>3

\* The same of a head or a piece of content.
LEMMA CborEmit ==
  ASSUME NEW s, IsOpen(s), s.root_written, NEW token
  PROVE  Lost(Cbor!Emit(s, token)) \/ Leads(Cbor!Emit(s, token), s.stack)
<1>1. ~Latched(s) /\ ~s.failed
  BY DEF IsOpen
<1>2. CASE s.length < s.room
  <2>1. Cbor!Emit(s, token) =
          [s EXCEPT !.length = @ + 1, !.text = Cbor!Grammar!ReadToken(@, token)]
    BY <1>1, <1>2 DEF Cbor!Emit
  <2>2. [s EXCEPT !.length = @ + 1, !.text = Cbor!Grammar!ReadToken(@, token)] =
          [s EXCEPT !.length = @ + 1, !.text = Cbor!Grammar!ReadToken(s.text, token)]
    OBVIOUS
  <2>. QED
    BY <1>2, <2>1, <2>2, Appended
<1>3. CASE ~(s.length < s.room)
  <2>1. s.length = s.room
    BY <1>3 DEF IsOpen, IsWriter
  <2>. QED
    BY <1>1, <1>3, <2>1 DEF IsOpen, IsWriter, Components, Lost, OutOfRoom,
      Cbor!Emit, Cbor!EmitBounded, Cbor!EmitAllocating, Cbor!Fail
<1>. QED
  BY <1>2, <1>3

\* Frames stay frames.
LEMMA TopIsFrame ==
  ASSUME NEW stack \in Seq(Frames), stack # <<>>
  PROVE  Len(stack) \in 1..Len(stack) /\ Len(stack) \in Nat \ {0} /\ LastOf(stack) \in Frames
  BY EmptySeq, LenProperties, ElementOfSeq DEF LastOf

\* Its frame may be replaced by any other.
LEMMA TopSet ==
  ASSUME NEW stack \in Seq(Frames), stack # <<>>, NEW f \in Frames
  PROVE  /\ [stack EXCEPT ![Len(stack)] = f] \in Seq(Frames)
         /\ Len([stack EXCEPT ![Len(stack)] = f]) = Len(stack)
         /\ [stack EXCEPT ![Len(stack)] = f] # <<>>
         /\ LastOf([stack EXCEPT ![Len(stack)] = f]) = f
         /\ \A i \in 1..Len(stack) : i # Len(stack) =>
              [stack EXCEPT ![Len(stack)] = f][i] = stack[i]
  BY TopIsFrame, ExceptSeq, EmptySeq DEF LastOf

\* The components of a frame.
LEMMA FrameFields ==
  ASSUME NEW f \in Frames
  PROVE  /\ f.waiting \in BOOLEAN /\ f.child_is_value \in BOOLEAN /\ f.known \in BOOLEAN
         /\ f.observed \in Nat /\ f.expected \in Nat /\ f.kind \in Kinds
  BY DEF Frames

\* A frame of other flags and another count is a frame.
LEMMA FrameSet ==
  ASSUME NEW f \in Frames
  PROVE  /\ \A b \in BOOLEAN : [f EXCEPT !.waiting = b] \in Frames
         /\ \A b \in BOOLEAN : [f EXCEPT !.child_is_value = b] \in Frames
         /\ \A b \in BOOLEAN : [f EXCEPT !.waiting = b, !.observed = @ + 1] \in Frames
         /\ f.waiting \in BOOLEAN /\ f.child_is_value \in BOOLEAN /\ f.known \in BOOLEAN
         /\ f.observed \in Nat /\ f.expected \in Nat /\ f.kind \in Kinds
<1>1. f.observed + 1 \in Nat
  BY DEF Frames
<1>. QED
  BY <1>1 DEF Frames

\* The frames stay frames when a child begins.
LEMMA EnteredIsStack ==
  ASSUME NEW stack \in Seq(Frames)
  PROVE  Entered(stack) \in Seq(Frames) /\ Len(Entered(stack)) = Len(stack)
<1>1. CASE stack # <<>> /\ LastOf(stack).kind = "map"
  BY <1>1, FrameSet, TopIsFrame, TopSet DEF Entered
<1>. QED
  BY <1>1 DEF Entered

\* ... and when it is complete.
LEMMA CompletedIsStack ==
  ASSUME NEW stack \in Seq(Frames)
  PROVE  Completed(stack) \in Seq(Frames) /\ Len(Completed(stack)) = Len(stack)
<1>1. CASE stack # <<>>
  BY <1>1, FrameSet, TopIsFrame, TopSet DEF Completed
<1>. QED
  BY <1>1 DEF Completed

\* A writer is moved to other frames.
LEMMA Restacked ==
  ASSUME NEW s, IsOpen(s), s.root_written, NEW stack \in Seq(Frames)
  PROVE  Leads([s EXCEPT !.stack = stack], stack)
<1>. DEFINE t == [s EXCEPT !.stack = stack]
<1>1. /\ t = [i \in Components |-> t[i]]
      /\ t.length = s.length /\ t.stack = stack /\ t.root_written = s.root_written
      /\ t.failed = s.failed /\ t.finalized = s.finalized /\ t.room = s.room
      /\ t.exhaustion = s.exhaustion /\ t.error = s.error
  BY DEF IsOpen, IsWriter, Components
<1>. HIDE DEF t
<1>2. IsOpen(t)
  BY <1>1 DEF IsOpen, IsWriter
<1>. QED
  BY <1>1, <1>2 DEF Leads, t

\* Its innermost frame is replaced.
LEMMA TopMoved ==
  ASSUME NEW s, IsOpen(s), s.root_written, s.stack # <<>>, NEW f \in Frames
  PROVE  Leads(SetTop(s, f), [s.stack EXCEPT ![Len(s.stack)] = f])
<1>1. s.stack \in Seq(Frames)
  BY DEF IsOpen, IsWriter
<1>2. [s.stack EXCEPT ![Len(s.stack)] = f] \in Seq(Frames)
  BY <1>1, TopSet
<1>3. SetTop(s, f) = [s EXCEPT !.stack = [s.stack EXCEPT ![Len(s.stack)] = f]]
  OBVIOUS
<1>. QED
  BY <1>2, <1>3, Restacked

\* What a lost writer keeps in its frames does not matter.
LEMMA LostMoved ==
  ASSUME NEW s, Lost(s), NEW f
  PROVE  Lost(SetTop(s, f))
  BY DEF Lost, OutOfRoom, Components

\* After an error, no helper of a writer does anything.
LEMMA JsonIdle ==
  ASSUME NEW s, Latched(s)
  PROVE  /\ \A tokens : Json!Emit(s, tokens) = s
         /\ Json!Before_Value(s) = s /\ Json!After_Value(s) = s
         /\ \A kind, length : Json!Push(s, kind, length) = s
  BY DEF Json!Emit, Json!Before_Value, Json!After_Value, Json!Push

\* The same of the CBOR writer.
LEMMA CborIdle ==
  ASSUME NEW s, Latched(s)
  PROVE  /\ \A token : Cbor!Emit(s, token) = s
         /\ Cbor!Before_Value(s) = s /\ Cbor!After_Value(s) = s
         /\ \A kind, length : Cbor!Push(s, kind, length) = s
  BY DEF Cbor!Emit, Cbor!Before_Value, Cbor!After_Value, Cbor!Push

\* A child begins where its parent's frame allows one.
LEMMA JsonBefore ==
  ASSUME NEW s, IsOpen(s)
  PROVE  IF Misplaced(s)
         THEN Json!Before_Value(s).error = "Invalid_State"
         ELSE \/ Lost(Json!Before_Value(s))
              \/ Leads(Json!Before_Value(s), Entered(s.stack))
<1>. DEFINE t == Json!Before_Value(s)
            f == LastOf(s.stack)
<1>1. ~Latched(s) /\ ~s.failed /\ ~s.finalized /\ s.stack \in Seq(Frames)
  BY DEF IsOpen, IsWriter
<1>2. Json!Fail(s, "Invalid_State").error = "Invalid_State"
  BY <1>1 DEF IsOpen, IsWriter, Components, Json!Fail
<1>3. CASE s.stack = <<>>
  <2>1. CASE s.root_written
    BY <1>1, <1>2, <1>3, <2>1 DEF Json!Before_Value, Misplaced
  <2>2. CASE ~s.root_written
    <3>1. t = [s EXCEPT !.root_written = TRUE]
      BY <1>1, <1>3, <2>2 DEF Json!Before_Value
    <3>2. IsOpen(t) /\ t.root_written /\ t.stack = s.stack
      BY <3>1 DEF IsOpen, IsWriter, Components
    <3>. QED
      BY <1>3, <2>2, <3>2 DEF Misplaced, Leads, Entered
  <2>. QED
    BY <2>1, <2>2
<1>4. CASE s.stack # <<>>
  <2>1. s.root_written /\ f \in Frames /\ f = Json!Top(s)
    BY <1>1, <1>4, TopIsFrame DEF IsOpen, IsWriter, LastOf
  <2>2. f.kind \in Kinds /\ f.waiting \in BOOLEAN
    BY <2>1, FrameSet
  <2>3. Lost(Json!SeparateItem(s)) \/ Leads(Json!SeparateItem(s), s.stack)
    <3>1. Leads(s, s.stack)
      BY <2>1 DEF Leads
    <3>. QED
      BY <2>1, <3>1, JsonEmit DEF Json!SeparateItem
  <2>4. CASE f.kind \in {"record", "variant"}
    <3>1. CASE f.waiting
      BY <1>1, <1>4, <2>1, <2>4, <3>1 DEF Json!Before_Value, Misplaced, Leads, Entered
    <3>2. CASE ~f.waiting
      BY <1>1, <1>2, <1>4, <2>1, <2>4, <3>2 DEF Json!Before_Value, Misplaced
    <3>. QED
      BY <3>1, <3>2
  <2>5. CASE f.kind = "map" /\ f.waiting
    <3>. DEFINE u == Json!Emit(s, <<",">>)
    <3>1. t = IF u.error = Raised THEN u ELSE SetTop(u, [LastOf(u.stack) EXCEPT !.child_is_value = TRUE])
      BY <1>1, <1>4, <2>1, <2>5 DEF Json!Before_Value, Json!ContinueEntry, LastOf
    <3>2. Lost(u) \/ Leads(u, s.stack)
      BY <2>1, JsonEmit
    <3>. HIDE DEF u, t
    <3>3. CASE Lost(u)
      <4>1. Lost(t)
        BY <3>1, <3>3, LostMoved
      <4>. QED
        BY <1>4, <2>5, <4>1 DEF Misplaced, t
    <3>4. CASE Leads(u, s.stack)
      <4>1. t = SetTop(u, [f EXCEPT !.child_is_value = f.waiting])
        BY <2>2, <2>5, <3>1, <3>4 DEF Leads, IsOpen
      <4>2. [f EXCEPT !.child_is_value = f.waiting] \in Frames
        BY <2>1, <2>2, FrameSet
      <4>3. Leads(t, [s.stack EXCEPT ![Len(s.stack)] = [f EXCEPT !.child_is_value = f.waiting]])
        BY <1>4, <3>4, <4>1, <4>2, TopMoved DEF Leads
      <4>4. Leads(t, Entered(s.stack))
        BY <1>4, <2>5, <4>3 DEF Entered
      <4>. QED
        BY <1>4, <2>5, <4>4 DEF Misplaced, t
    <3>. QED
      BY <3>2, <3>3, <3>4
  <2>6. CASE f.kind = "map" /\ ~f.waiting /\ ~Full(f)
    <3>. DEFINE u == Json!Emit(Json!SeparateItem(s), <<"[">>)
    <3>1. t = IF u.error = Raised THEN u ELSE SetTop(u, [LastOf(u.stack) EXCEPT !.child_is_value = FALSE])
      BY <1>1, <1>4, <2>1, <2>6 DEF Json!Before_Value, Json!OpenEntry, LastOf
    <3>2. Lost(u) \/ Leads(u, s.stack)
      BY <2>3, JsonEmit, JsonIdle DEF Leads, Lost
    <3>. HIDE DEF u, t
    <3>3. CASE Lost(u)
      <4>1. Lost(t)
        BY <3>1, <3>3, LostMoved
      <4>. QED
        BY <1>4, <2>6, <4>1 DEF Misplaced, t
    <3>4. CASE Leads(u, s.stack)
      <4>1. t = SetTop(u, [f EXCEPT !.child_is_value = f.waiting])
        BY <2>2, <2>6, <3>1, <3>4 DEF Leads, IsOpen
      <4>2. [f EXCEPT !.child_is_value = f.waiting] \in Frames
        BY <2>1, <2>2, FrameSet
      <4>3. Leads(t, [s.stack EXCEPT ![Len(s.stack)] = [f EXCEPT !.child_is_value = f.waiting]])
        BY <1>4, <3>4, <4>1, <4>2, TopMoved DEF Leads
      <4>4. Leads(t, Entered(s.stack))
        BY <1>4, <2>6, <4>3 DEF Entered
      <4>. QED
        BY <1>4, <2>6, <4>4 DEF Misplaced, t
    <3>. QED
      BY <3>2, <3>3, <3>4
  <2>7. CASE f.kind \in {"optional", "sequence"} /\ ~Full(f)
    <3>1. t = Json!SeparateItem(s) \/ t = Json!Emit(s, <<",">>)
      BY <1>1, <1>4, <2>1, <2>7 DEF Json!Before_Value, Json!SeparateOptional
    <3>2. Lost(t) \/ Leads(t, s.stack)
      BY <2>1, <2>3, <3>1, JsonEmit
    <3>. QED
      BY <1>4, <2>7, <3>2 DEF Misplaced, Entered
  <2>8. CASE ((f.kind = "map" /\ ~f.waiting) \/ f.kind \in {"optional", "sequence"}) /\ Full(f)
    BY <1>1, <1>2, <1>4, <2>1, <2>8 DEF Json!Before_Value, Misplaced
  <2>. QED
    BY <2>2, <2>4, <2>5, <2>6, <2>7, <2>8 DEF Kinds
<1>. QED
  BY <1>3, <1>4

\* The CBOR writer begins a child under the same conditions.
LEMMA CborBefore ==
  ASSUME NEW s, IsOpen(s)
  PROVE  IF Misplaced(s)
         THEN Cbor!Before_Value(s).error = "Invalid_State"
         ELSE Leads(Cbor!Before_Value(s), Entered(s.stack))
<1>. DEFINE t == Cbor!Before_Value(s)
            f == LastOf(s.stack)
<1>1. ~Latched(s) /\ ~s.failed /\ ~s.finalized /\ s.stack \in Seq(Frames)
  BY DEF IsOpen, IsWriter
<1>2. Cbor!Fail(s, "Invalid_State").error = "Invalid_State"
  BY <1>1 DEF IsOpen, IsWriter, Components, Cbor!Fail
<1>3. CASE s.stack = <<>>
  <2>1. CASE s.root_written
    BY <1>1, <1>2, <1>3, <2>1 DEF Cbor!Before_Value, Misplaced
  <2>2. CASE ~s.root_written
    <3>1. t = [s EXCEPT !.root_written = TRUE]
      BY <1>1, <1>3, <2>2 DEF Cbor!Before_Value
    <3>2. IsOpen(t) /\ t.root_written /\ t.stack = s.stack
      BY <3>1 DEF IsOpen, IsWriter, Components
    <3>. QED
      BY <1>3, <2>2, <3>2 DEF Misplaced, Leads, Entered
  <2>. QED
    BY <2>1, <2>2
<1>4. CASE s.stack # <<>>
  <2>1. s.root_written /\ f \in Frames /\ f = Cbor!Top(s)
    BY <1>1, <1>4, TopIsFrame DEF IsOpen, IsWriter, LastOf
  <2>2. f.kind \in Kinds /\ f.waiting \in BOOLEAN
    BY <2>1, FrameSet
  <2>3. CASE Misplaced(s)
    BY <1>1, <1>2, <1>4, <2>1, <2>3 DEF Cbor!Before_Value, Cbor!BeginsKey, Misplaced
  <2>4. CASE ~Misplaced(s) /\ f.kind # "map"
    <3>1. t = s
      BY <1>1, <1>4, <2>1, <2>2, <2>4 DEF Cbor!Before_Value, Cbor!BeginsKey, Misplaced, Kinds
    <3>. QED
      BY <1>4, <2>1, <2>4, <3>1 DEF Leads, Entered
  <2>5. CASE ~Misplaced(s) /\ f.kind = "map"
    <3>1. t = SetTop(s, [f EXCEPT !.child_is_value = f.waiting])
      BY <1>1, <1>4, <2>1, <2>2, <2>5 DEF Cbor!Before_Value, Cbor!BeginsKey, Misplaced
    <3>2. [f EXCEPT !.child_is_value = f.waiting] \in Frames
      BY <2>1, <2>2, FrameSet
    <3>3. Leads(t, [s.stack EXCEPT ![Len(s.stack)] = [f EXCEPT !.child_is_value = f.waiting]])
      BY <1>4, <2>1, <3>1, <3>2, TopMoved
    <3>. QED
      BY <1>4, <2>5, <3>3 DEF Entered
  <2>. QED
    BY <2>3, <2>4, <2>5
<1>. QED
  BY <1>3, <1>4

\* A child completed becomes the key of an entry, or one more item.
LEMMA JsonCounted ==
  ASSUME NEW s, IsOpen(s), s.stack # <<>>, ~CompletesKey(LastOf(s.stack))
  PROVE  IF Overflows(s.stack)
         THEN Json!Counted(s).error = "Capacity_Exceeded"
         ELSE Leads(Json!Counted(s), Completed(s.stack))
<1>. DEFINE f == LastOf(s.stack)
            g == [f EXCEPT !.waiting = FALSE]
<1>1. s.root_written /\ f \in Frames /\ f = Json!Top(s) /\ ~Latched(s)
  BY TopIsFrame DEF IsOpen, IsWriter, LastOf
<1>2. CASE f.observed = NaturalLast
  <2>1. Json!Counted(s) = Json!Fail(SetTop(s, g), "Capacity_Exceeded")
    BY <1>1, <1>2 DEF Json!Counted
  <2>2. Json!Fail(SetTop(s, g), "Capacity_Exceeded").error = "Capacity_Exceeded"
    BY <1>1 DEF IsOpen, IsWriter, Components, Json!Fail
  <2>. QED
    BY <1>2, <2>1, <2>2 DEF Overflows
<1>3. CASE f.observed # NaturalLast
  <2>1. Json!Counted(s) = SetTop(s, [g EXCEPT !.observed = @ + 1])
    BY <1>1, <1>3 DEF Json!Counted
  <2>2. [g EXCEPT !.observed = @ + 1] = [f EXCEPT !.waiting = FALSE, !.observed = @ + 1]
    BY <1>1 DEF Frames
  <2>3. [f EXCEPT !.waiting = FALSE, !.observed = @ + 1] \in Frames
    BY <1>1, FrameSet
  <2>4. Leads(Json!Counted(s), [s.stack EXCEPT ![Len(s.stack)] =
                                  [f EXCEPT !.waiting = FALSE, !.observed = @ + 1]])
    BY <1>1, <2>1, <2>2, <2>3, TopMoved
  <2>. QED
    BY <1>3, <2>4 DEF Overflows, Completed
<1>. QED
  BY <1>2, <1>3

\* The value is complete: the innermost frame counts it, or holds a key.
LEMMA JsonAfter ==
  ASSUME NEW s, IsOpen(s), s.root_written
  PROVE  \/ Lost(Json!After_Value(s))
         \/ IF Overflows(s.stack)
            THEN Json!After_Value(s).error = "Capacity_Exceeded"
            ELSE Leads(Json!After_Value(s), Completed(s.stack))
<1>. DEFINE t == Json!After_Value(s)
            f == LastOf(s.stack)
<1>1. ~Latched(s) /\ ~s.failed /\ s.stack \in Seq(Frames)
  BY DEF IsOpen, IsWriter
<1>2. CASE s.stack = <<>>
  BY <1>2 DEF Json!After_Value, Leads, Overflows, Completed
<1>3. CASE s.stack # <<>> /\ f.kind # "map"
  <2>1. t = Json!Counted(s)
    BY <1>1, <1>3 DEF Json!After_Value, LastOf
  <2>. QED
    BY <1>3, <2>1, JsonCounted DEF CompletesKey
<1>4. CASE s.stack # <<>> /\ f.kind = "map" /\ f.child_is_value
  <2>. DEFINE u == Json!Emit(s, <<"]">>)
  <2>1. t = IF Latched(u) THEN u ELSE Json!Counted(u)
    BY <1>1, <1>4 DEF Json!After_Value, Json!CloseEntry, LastOf
  <2>2. Lost(u) \/ Leads(u, s.stack)
    BY JsonEmit
  <2>. HIDE DEF u, t
  <2>3. CASE Lost(u)
    BY <2>1, <2>3 DEF Lost, t
  <2>4. CASE Leads(u, s.stack)
    <3>1. t = Json!Counted(u)
      BY <2>1, <2>4 DEF Leads, IsOpen
    <3>. QED
      BY <1>4, <2>4, <3>1, JsonCounted DEF Leads, CompletesKey, t
  <2>. QED
    BY <2>2, <2>3, <2>4
<1>5. CASE s.stack # <<>> /\ CompletesKey(f)
  <2>1. f \in Frames /\ f = Json!Top(s)
    BY <1>1, <1>5, TopIsFrame DEF LastOf
  <2>2. t = SetTop(s, [f EXCEPT !.waiting = TRUE])
    BY <1>1, <1>5, <2>1 DEF Json!After_Value, CompletesKey
  <2>3. [f EXCEPT !.waiting = TRUE] \in Frames
    BY <2>1, FrameSet
  <2>4. Leads(t, [s.stack EXCEPT ![Len(s.stack)] = [f EXCEPT !.waiting = TRUE]])
    BY <1>5, <2>2, <2>3, TopMoved
  <2>. QED
    BY <1>5, <2>4 DEF Overflows, Completed
<1>. QED
  BY <1>2, <1>3, <1>4, <1>5 DEF CompletesKey

\* CBOR writes nothing between the items, and counts them as JSON does.
LEMMA CborAfter ==
  ASSUME NEW s, IsOpen(s), s.root_written
  PROVE  IF Overflows(s.stack)
         THEN Cbor!After_Value(s).error = "Capacity_Exceeded"
         ELSE Leads(Cbor!After_Value(s), Completed(s.stack))
<1>. DEFINE t == Cbor!After_Value(s)
            f == LastOf(s.stack)
<1>1. ~Latched(s) /\ ~s.failed /\ s.stack \in Seq(Frames)
  BY DEF IsOpen, IsWriter
<1>2. CASE s.stack = <<>>
  BY <1>2 DEF Cbor!After_Value, Leads, Overflows, Completed
<1>3. CASE s.stack # <<>> /\ ~CompletesKey(f)
  <2>1. t = Cbor!Counted(s)
    BY <1>1, <1>3 DEF Cbor!After_Value, LastOf, CompletesKey
  <2>2. Cbor!Counted(s) = Json!Counted(s)
    BY DEF Cbor!Counted, Json!Counted, Cbor!Fail, Json!Fail
  <2>. QED
    BY <1>3, <2>1, <2>2, JsonCounted
<1>4. CASE s.stack # <<>> /\ CompletesKey(f)
  <2>1. f \in Frames /\ f = Cbor!Top(s)
    BY <1>1, <1>4, TopIsFrame DEF LastOf
  <2>2. t = SetTop(s, [f EXCEPT !.waiting = TRUE])
    BY <1>1, <1>4, <2>1 DEF Cbor!After_Value, CompletesKey
  <2>3. [f EXCEPT !.waiting = TRUE] \in Frames
    BY <2>1, FrameSet
  <2>4. Leads(t, [s.stack EXCEPT ![Len(s.stack)] = [f EXCEPT !.waiting = TRUE]])
    BY <1>4, <2>2, <2>3, TopMoved
  <2>. QED
    BY <1>4, <2>4 DEF Overflows, Completed
<1>. QED
  BY <1>2, <1>3, <1>4

-----------------------------------------------------------------------------
(* The steps of an event, put together. *)

Lengths == [known : BOOLEAN, length : Nat]

\* A container opens with a frame of its kind.
LEMMA FrameIsFrame ==
  ASSUME NEW kind \in Kinds, NEW length \in Lengths
  PROVE  Frame(kind, length) \in Frames
  BY DEF Frame, Frames, Lengths

\* A container is pushed, up to the supported nesting.
LEMMA JsonPush ==
  ASSUME NEW s, IsOpen(s), s.root_written, NEW kind \in Kinds, NEW length \in Lengths
  PROVE  IF Len(s.stack) = MaxSupportedNesting
         THEN Json!Push(s, kind, length).error = "Depth_Exceeded"
         ELSE Leads(Json!Push(s, kind, length), Append(s.stack, Frame(kind, length)))
<1>1. ~Latched(s) /\ s.stack \in Seq(Frames)
  BY DEF IsOpen, IsWriter
<1>2. CASE Len(s.stack) = MaxSupportedNesting
  BY <1>1, <1>2 DEF Json!Push, Json!Fail, IsOpen, IsWriter, Components
<1>3. CASE Len(s.stack) # MaxSupportedNesting
  <2>1. Json!Push(s, kind, length) = [s EXCEPT !.stack = Append(s.stack, Frame(kind, length))]
    BY <1>1, <1>3 DEF Json!Push, Json!Frame, Frame
  <2>2. Append(s.stack, Frame(kind, length)) \in Seq(Frames)
    BY <1>1, FrameIsFrame, AppendProperties
  <2>. QED
    BY <1>3, <2>1, <2>2, Restacked
<1>. QED
  BY <1>2, <1>3

\* What follows Before_Value in an event keeps to the outcome it announced.
LEMMA JsonOnward ==
  ASSUME NEW s, IsOpen(s), NEW u, Began(s, u)
  PROVE  /\ \A tokens : Began(s, Json!Emit(u, tokens))
         /\ ValueOutcome(s, Json!After_Value(u))
         /\ \A kind \in Kinds, length \in Lengths :
              OpenOutcome(s, Json!Push(u, kind, length), kind, length)
<1>1. CASE Latched(u)
  <2>1. \/ Misplaced(s) /\ u.error = "Invalid_State"
        \/ ~Misplaced(s) /\ Lost(u)
    BY <1>1 DEF Began, Held, Leads, IsOpen
  <2>. QED
    BY <1>1, <2>1, JsonIdle DEF Began, Held, ValueOutcome, OpenOutcome
<1>2. CASE ~Latched(u)
  <2>1. ~Misplaced(s) /\ IsOpen(u) /\ u.root_written /\ u.stack = Entered(s.stack)
    BY <1>2 DEF Began, Held, Leads, Lost
  <2>2. s.stack \in Seq(Frames)
    BY DEF IsOpen, IsWriter
  <2>3. Len(u.stack) = Len(s.stack)
    BY <2>1, <2>2, EnteredIsStack
  <2>4. \A tokens : Began(s, Json!Emit(u, tokens))
    BY <2>1, JsonEmit DEF Began, Held
  <2>5. ValueOutcome(s, Json!After_Value(u))
    BY <2>1, JsonAfter DEF ValueOutcome
  <2>6. \A kind \in Kinds, length \in Lengths :
          OpenOutcome(s, Json!Push(u, kind, length), kind, length)
    BY <2>1, <2>3, JsonPush DEF OpenOutcome
  <2>. QED
    BY <2>4, <2>5, <2>6
<1>. QED
  BY <1>1, <1>2

\* The same of the CBOR writer.
LEMMA CborOnward ==
  ASSUME NEW s, IsOpen(s), NEW u, Began(s, u)
  PROVE  /\ \A token : Began(s, Cbor!Emit(u, token))
         /\ ValueOutcome(s, Cbor!After_Value(u))
         /\ \A kind \in Kinds, length \in Lengths :
              OpenOutcome(s, Cbor!Push(u, kind, length), kind, length)
<1>1. CASE Latched(u)
  <2>1. \/ Misplaced(s) /\ u.error = "Invalid_State"
        \/ ~Misplaced(s) /\ Lost(u)
    BY <1>1 DEF Began, Held, Leads, IsOpen
  <2>. QED
    BY <1>1, <2>1, CborIdle DEF Began, Held, ValueOutcome, OpenOutcome
<1>2. CASE ~Latched(u)
  <2>1. ~Misplaced(s) /\ IsOpen(u) /\ u.root_written /\ u.stack = Entered(s.stack)
    BY <1>2 DEF Began, Held, Leads, Lost
  <2>2. \A token : Began(s, Cbor!Emit(u, token))
    BY <2>1, CborEmit DEF Began, Held
  <2>3. ValueOutcome(s, Cbor!After_Value(u))
    BY <2>1, CborAfter DEF ValueOutcome
  <2>4. \A kind, length : Cbor!Push(u, kind, length) = Json!Push(u, kind, length)
    BY DEF Cbor!Push, Json!Push, Cbor!Fail, Json!Fail, Cbor!Frame, Json!Frame
  <2>. QED
    BY <2>2, <2>3, <2>4, JsonOnward
<1>. QED
  BY <1>1, <1>2

\* The frames under the innermost.
LEMMA PoppedIsStack ==
  ASSUME NEW stack \in Seq(Frames), stack # <<>>
  PROVE  /\ Popped(stack) \in Seq(Frames) /\ Len(Popped(stack)) = Len(stack) - 1
         /\ \A i \in 1..(Len(stack) - 1) : Popped(stack)[i] = stack[i]
<1>. DEFINE n == Len(stack) - 1
<1>1. Len(stack) \in Nat \ {0} /\ n \in Nat
  BY EmptySeq, LenProperties
<1>2. \A i \in 1..n : stack[i] \in Frames
  BY <1>1, ElementOfSeq
<1>3. /\ SubSeq(stack, 1, n) \in Seq(Frames)
      /\ Len(SubSeq(stack, 1, n)) = IF 1 <= n THEN n - 1 + 1 ELSE 0
      /\ \A i \in 1..(n - 1 + 1) : SubSeq(stack, 1, n)[i] = stack[1 + i - 1]
  BY <1>1, <1>2, SubSeqProperties
<1>. HIDE DEF n
<1>4. n = 0 \/ 1 <= n
  BY <1>1
<1>5. \A i \in 1..n : n - 1 + 1 = n /\ 1 + i - 1 = i
  BY <1>1
<1>6. /\ SubSeq(stack, 1, n) \in Seq(Frames) /\ Len(SubSeq(stack, 1, n)) = n
      /\ \A i \in 1..n : SubSeq(stack, 1, n)[i] = stack[i]
  BY <1>1, <1>3, <1>4, <1>5
<1>. QED
  BY <1>6, Zenon DEF Popped, n

\* A container is closed, and completes an item of the one around it.
LEMMA JsonPop ==
  ASSUME NEW s, IsOpen(s), NEW kind, NEW close
  PROVE  CloseOutcome(s, Json!Pop(s, kind, close), kind)
<1>. DEFINE t == Json!Pop(s, kind, close)
            f == LastOf(s.stack)
<1>1. ~Latched(s) /\ ~s.failed /\ ~s.finalized /\ s.stack \in Seq(Frames)
  BY DEF IsOpen, IsWriter
<1>2. CASE s.stack = <<>> \/ Unclosable(f, kind)
  BY <1>1, <1>2 DEF Json!Pop, Json!Unclosable, Unclosable, LastOf, CloseOutcome, Json!Fail,
    IsOpen, IsWriter, Components
<1>3. CASE s.stack # <<>> /\ ~Unclosable(f, kind)
  <2>. DEFINE u == Json!Emit(s, close)
              v == [u EXCEPT !.stack = Popped(s.stack)]
  <2>1. t = IF Latched(u) THEN u
            ELSE Json!After_Value([u EXCEPT !.stack = SubSeq(@, 1, Len(@) - 1)])
    BY <1>1, <1>3 DEF Json!Pop, Json!Unclosable, Unclosable, LastOf
  <2>2. s.root_written /\ (Lost(u) \/ Leads(u, s.stack))
    BY <1>3, JsonEmit DEF IsOpen, IsWriter
  <2>. HIDE DEF t, u
  <2>3. CASE Lost(u)
    BY <1>3, <2>1, <2>3 DEF Lost, CloseOutcome, t
  <2>4. CASE Leads(u, s.stack)
    <3>1. t = Json!After_Value(v)
      BY <2>1, <2>4 DEF Leads, IsOpen, Popped
    <3>2. Leads(v, Popped(s.stack))
      BY <1>1, <1>3, <2>4, PoppedIsStack, Restacked DEF Leads
    <3>. HIDE DEF v
    <3>. QED
      BY <1>3, <3>1, <3>2, JsonAfter DEF Leads, CloseOutcome, t
  <2>. QED
    BY <2>2, <2>3, <2>4
<1>. QED
  BY <1>2, <1>3

\* The CBOR writer closes under the same conditions.
LEMMA CborPop ==
  ASSUME NEW s, IsOpen(s), NEW kind
  PROVE  CloseOutcome(s, Cbor!Pop(s, kind), kind)
<1>. DEFINE t == Cbor!Pop(s, kind)
            f == LastOf(s.stack)
<1>1. ~Latched(s) /\ ~s.failed /\ ~s.finalized /\ s.stack \in Seq(Frames)
  BY DEF IsOpen, IsWriter
<1>2. CASE s.stack = <<>> \/ Unclosable(f, kind)
  BY <1>1, <1>2 DEF Cbor!Pop, Cbor!Unclosable, Unclosable, LastOf, CloseOutcome, Cbor!Fail,
    IsOpen, IsWriter, Components
<1>3. CASE s.stack # <<>> /\ ~Unclosable(f, kind)
  <2>. DEFINE u == IF f.known THEN s ELSE Cbor!Emit_Head(s, "break", 0)
              v == [u EXCEPT !.stack = Popped(s.stack)]
  <2>1. t = IF Latched(u) THEN u
            ELSE Cbor!After_Value([u EXCEPT !.stack = SubSeq(@, 1, Len(@) - 1)])
    BY <1>1, <1>3 DEF Cbor!Pop, Cbor!Unclosable, Unclosable, LastOf
  <2>2. s.root_written /\ (Lost(u) \/ Leads(u, s.stack))
    BY <1>3, CborEmit DEF IsOpen, IsWriter, Leads, Cbor!Emit_Head
  <2>. HIDE DEF t, u
  <2>3. CASE Lost(u)
    BY <1>3, <2>1, <2>3 DEF Lost, CloseOutcome, t
  <2>4. CASE Leads(u, s.stack)
    <3>1. t = Cbor!After_Value(v)
      BY <2>1, <2>4 DEF Leads, IsOpen, Popped
    <3>2. Leads(v, Popped(s.stack))
      BY <1>1, <1>3, <2>4, PoppedIsStack, Restacked DEF Leads
    <3>. HIDE DEF v
    <3>. QED
      BY <1>3, <3>1, <3>2, CborAfter DEF Leads, CloseOutcome, t
  <2>. QED
    BY <2>2, <2>3, <2>4
<1>. QED
  BY <1>2, <1>3

\* A name stands where the innermost record or variant awaits one.
LEMMA JsonField ==
  ASSUME NEW s, IsOpen(s), NEW name, Json!ValidText(name)
  PROVE  FieldOutcome(s, Json!Put_Field(s, name))
<1>. DEFINE t == Json!Put_Field(s, name)
            f == LastOf(s.stack)
<1>1. ~Latched(s) /\ ~s.failed /\ ~s.finalized /\ s.stack \in Seq(Frames)
  BY DEF IsOpen, IsWriter
<1>2. CASE s.stack = <<>> \/ ~TakesField(f)
  BY <1>1, <1>2 DEF Json!Put_Field, Json!TakesField, TakesField, LastOf, FieldOutcome, Json!Fail,
    IsOpen, IsWriter, Components
<1>3. CASE s.stack # <<>> /\ TakesField(f)
  <2>. DEFINE u == Json!Emit(Json!Emit(Json!SeparateItem(s), <<"string">>), <<":">>)
  <2>1. t = IF Latched(u) THEN u ELSE SetTop(u, [LastOf(u.stack) EXCEPT !.waiting = TRUE])
    BY <1>1, <1>3 DEF Json!Put_Field, Json!Emit_Quoted, Json!TakesField, TakesField, LastOf
  <2>2. Held(u, s.stack)
    <3>1. Held(s, s.stack)
      BY <1>3 DEF Held, Leads, IsOpen, IsWriter
    <3>2. \A v, tokens : Held(v, s.stack) => Held(Json!Emit(v, tokens), s.stack)
      BY JsonEmit, JsonIdle DEF Held, Leads, Lost
    <3>. QED
      BY <3>1, <3>2 DEF Json!SeparateItem
  <2>3. f \in Frames /\ [f EXCEPT !.waiting = TRUE] \in Frames
    BY <1>1, <1>3, TopIsFrame, FrameSet
  <2>. HIDE DEF t, u
  <2>4. CASE Lost(u)
    BY <1>3, <2>1, <2>4 DEF Lost, FieldOutcome, Held, t
  <2>5. CASE Leads(u, s.stack)
    <3>1. t = SetTop(u, [f EXCEPT !.waiting = TRUE])
      BY <2>1, <2>5 DEF Leads, IsOpen
    <3>2. Leads(t, Field(s.stack))
      BY <1>3, <2>3, <2>5, <3>1, TopMoved DEF Leads, Field
    <3>. QED
      BY <1>3, <3>2 DEF FieldOutcome, Held, t
  <2>. QED
    BY <2>2, <2>4, <2>5 DEF Held
<1>. QED
  BY <1>2, <1>3

\* The CBOR writer takes a field name under the same conditions.
LEMMA CborField ==
  ASSUME NEW s, IsOpen(s), NEW name, Cbor!ValidText(name)
  PROVE  FieldOutcome(s, Cbor!Put_Field(s, name))
<1>. DEFINE t == Cbor!Put_Field(s, name)
            f == LastOf(s.stack)
<1>1. ~Latched(s) /\ ~s.failed /\ ~s.finalized /\ s.stack \in Seq(Frames)
  BY DEF IsOpen, IsWriter
<1>2. CASE s.stack = <<>> \/ ~TakesField(f)
  BY <1>1, <1>2 DEF Cbor!Put_Field, Cbor!TakesField, TakesField, LastOf, FieldOutcome, Cbor!Fail,
    IsOpen, IsWriter, Components
<1>3. CASE s.stack # <<>> /\ TakesField(f)
  <2>. DEFINE u == Cbor!Emit_Text(s, name)
  <2>1. t = IF Latched(u) THEN u ELSE SetTop(u, [LastOf(u.stack) EXCEPT !.waiting = TRUE])
    BY <1>1, <1>3 DEF Cbor!Put_Field, Cbor!TakesField, TakesField, LastOf
  <2>2. Held(u, s.stack)
    <3>1. Held(s, s.stack)
      BY <1>3 DEF Held, Leads, IsOpen, IsWriter
    <3>2. \A v, token : Held(v, s.stack) => Held(Cbor!Emit(v, token), s.stack)
      BY CborEmit, CborIdle DEF Held, Leads, Lost
    <3>. QED
      BY <3>1, <3>2 DEF Cbor!Emit_Text, Cbor!Emit_Head, Cbor!Content
  <2>3. f \in Frames /\ [f EXCEPT !.waiting = TRUE] \in Frames
    BY <1>1, <1>3, TopIsFrame, FrameSet
  <2>. HIDE DEF t, u
  <2>4. CASE Lost(u)
    BY <1>3, <2>1, <2>4 DEF Lost, FieldOutcome, Held, t
  <2>5. CASE Leads(u, s.stack)
    <3>1. t = SetTop(u, [f EXCEPT !.waiting = TRUE])
      BY <2>1, <2>5 DEF Leads, IsOpen
    <3>2. Leads(t, Field(s.stack))
      BY <1>3, <2>3, <2>5, <3>1, TopMoved DEF Leads, Field
    <3>. QED
      BY <1>3, <3>2 DEF FieldOutcome, Held, t
  <2>. QED
    BY <2>2, <2>4, <2>5 DEF Held
<1>. QED
  BY <1>2, <1>3

-----------------------------------------------------------------------------
(* The events. *)

Values == {"Put_Scalar", "Put_Float_64", "Put_Text", "Put_Bytes", "Put_Enumeration"}
Begins == {"Begin_Optional", "Begin_Sequence", "Begin_Map", "Begin_Record", "Begin_Variant"}
Ends == {"End_Optional", "End_Sequence", "End_Map", "End_Record", "End_Variant"}
Written == {"Put_Text", "Put_Enumeration", "Put_Field", "Begin_Variant"}

KindOf(e) ==
  IF e.op \in {"Begin_Optional", "End_Optional"} THEN "optional"
  ELSE IF e.op \in {"Begin_Sequence", "End_Sequence"} THEN "sequence"
  ELSE IF e.op \in {"Begin_Map", "End_Map"} THEN "map"
  ELSE IF e.op \in {"Begin_Record", "End_Record"} THEN "record" ELSE "variant"

LengthOf(e) ==
  IF e.op = "Begin_Optional" THEN Known_Length(IF e.present THEN 1 ELSE 0)
  ELSE IF e.op \in {"Begin_Sequence", "Begin_Map"} THEN e.length ELSE Known_Length(e.count)

\* What a writer refuses whatever its frames are.
Spoiled(e) == e.op \in Written /\ e.text = "invalid"
Unwritable(b, e) == b = "json" /\ e.op = "Put_Float_64" /\ e.value = "nonfinite"

EventOutcome(b, s, t, e) ==
  IF s.finalized THEN t.error = "Invalid_State"
  ELSE IF Spoiled(e) THEN t.error = "Invalid_Text"
  ELSE IF Unwritable(b, e) THEN t.error = "Unsupported_Value"
  ELSE /\ e.op \in Values => ValueOutcome(s, t)
       /\ e.op \in Begins => OpenOutcome(s, t, KindOf(e), LengthOf(e))
       /\ e.op \in Ends => CloseOutcome(s, t, KindOf(e))
       /\ e.op = "Put_Field" => FieldOutcome(s, t)

\* Every event has the parameters its operation takes.
LEMMA EventShape ==
  ASSUME NEW e \in AnyEvents
  PROVE  /\ e.op \in Values \cup Begins \cup Ends \cup {"Put_Field"}
         /\ e.op \in Written => e.text \in Texts
         /\ e.op = "Put_Float_64" => e.value \in Floats
         /\ e.op = "Put_Bytes" => e.text \in Texts \ {"invalid"}
         /\ e.op \in {"Put_Enumeration", "Begin_Record", "Begin_Variant"} => e.name \in Texts
         /\ e.op \in Begins => KindOf(e) \in Kinds /\ LengthOf(e) \in Lengths
         /\ e.op = "Begin_Optional" => e.present \in BOOLEAN
         /\ e.op \in {"Begin_Sequence", "Begin_Map"} => e.length \in Lengths
         /\ e.op \in {"Begin_Record", "Begin_Variant"} => e.count \in Nat
<1>. DEFINE lengths == [known : BOOLEAN, length : Nat]
            counts == Nat
<1>1. lengths = Lengths
  BY DEF Lengths
<1>. HIDE DEF lengths, counts
<1>3. e \in EventsOver(Texts, Texts, Floats, lengths, counts)
  BY DEF AnyEvents, lengths, counts
<1>4. counts \subseteq Nat /\ lengths \subseteq Lengths
  BY <1>1 DEF counts
<1>5. /\ e.op \in Values \cup Begins \cup Ends \cup {"Put_Field"}
      /\ e.op \in Written => e.text \in Texts
      /\ e.op = "Put_Float_64" => e.value \in Floats
      /\ e.op = "Put_Bytes" => e.text \in Texts \ {"invalid"}
      /\ e.op \in {"Put_Enumeration", "Begin_Record", "Begin_Variant"} => e.name \in Texts
      /\ e.op = "Begin_Optional" => e.present \in BOOLEAN
      /\ e.op \in {"Begin_Sequence", "Begin_Map"} => e.length \in lengths
      /\ e.op \in {"Begin_Record", "Begin_Variant"} => e.count \in counts
  <2>1. /\ e.op \in Values \cup Begins \cup Ends \cup {"Put_Field"}
        /\ e.op \in {"Put_Text", "Put_Field"} => e.text \in Texts
        /\ e.op \in {"Put_Enumeration", "Begin_Variant"} => e.text \in Texts /\ e.name \in Texts
    BY <1>3 DEF EventsOver, Values, Begins, Ends
  <2>2. /\ e.op = "Put_Float_64" => e.value \in Floats
        /\ e.op = "Put_Bytes" => e.text \in Texts \ {"invalid"}
        /\ e.op = "Begin_Record" => e.name \in Texts
    BY <1>3 DEF EventsOver
  <2>3. /\ e.op = "Begin_Optional" => e.present \in BOOLEAN
        /\ e.op \in {"Begin_Sequence", "Begin_Map"} => e.length \in lengths
        /\ e.op \in {"Begin_Record", "Begin_Variant"} => e.count \in counts
    BY <1>3 DEF EventsOver
  <2>. QED
    BY <2>1, <2>2, <2>3 DEF Written
<1>6. ASSUME e.op \in Begins
      PROVE  KindOf(e) \in Kinds /\ LengthOf(e) \in Lengths
  <2>1. \A n \in Nat : Known_Length(n) \in Lengths
    BY DEF Known_Length, Lengths
  <2>. QED
    BY <1>4, <1>5, <1>6, <2>1 DEF KindOf, Kinds, LengthOf, Begins
<1>. QED
  BY <1>4, <1>5, <1>6

\* The dispatch of an event.
LEMMA JsonDispatch ==
  ASSUME NEW s, NEW e
  PROVE  /\ e.op = "Put_Scalar" => Json!Event(s, e) = Json!Put_Scalar(s)
         /\ e.op = "Put_Float_64" => Json!Event(s, e) = Json!Put_Float_64(s, e.value)
         /\ e.op = "Put_Text" => Json!Event(s, e) = Json!Put_Text(s, e.text)
         /\ e.op = "Put_Bytes" => Json!Event(s, e) = Json!Put_Bytes(s)
         /\ e.op = "Put_Enumeration" => Json!Event(s, e) = Json!Put_Enumeration(s, e.text)
         /\ e.op = "Put_Field" => Json!Event(s, e) = Json!Put_Field(s, e.text)
         /\ e.op = "Begin_Optional" => Json!Event(s, e) = Json!Begin_Optional(s, e.present)
         /\ e.op = "Begin_Sequence" => Json!Event(s, e) = Json!Begin_Sequence(s, e.length)
         /\ e.op = "Begin_Map" => Json!Event(s, e) = Json!Begin_Map(s, e.length)
         /\ e.op = "Begin_Record" => Json!Event(s, e) = Json!Begin_Record(s, e.count)
         /\ e.op = "Begin_Variant" => Json!Event(s, e) = Json!Begin_Variant(s, e.text, e.count)
         /\ e.op = "End_Optional" => Json!Event(s, e) = Json!End_Optional(s)
         /\ e.op = "End_Sequence" => Json!Event(s, e) = Json!End_Sequence(s)
         /\ e.op = "End_Map" => Json!Event(s, e) = Json!End_Map(s)
         /\ e.op = "End_Record" => Json!Event(s, e) = Json!End_Record(s)
         /\ e.op = "End_Variant" => Json!Event(s, e) = Json!End_Variant(s)
  BY Zenon DEF Json!Event

\* The same of the CBOR writer.
LEMMA CborDispatch ==
  ASSUME NEW s, NEW e
  PROVE  /\ e.op = "Put_Scalar" => Cbor!Event(s, e) = Cbor!Put_Scalar(s)
         /\ e.op = "Put_Float_64" => Cbor!Event(s, e) = Cbor!Put_Float_64(s, e.value)
         /\ e.op = "Put_Text" => Cbor!Event(s, e) = Cbor!Put_Text(s, e.text)
         /\ e.op = "Put_Bytes" => Cbor!Event(s, e) = Cbor!Put_Bytes(s, 1)
         /\ e.op = "Put_Enumeration" => Cbor!Event(s, e) = Cbor!Put_Enumeration(s, e.text)
         /\ e.op = "Put_Field" => Cbor!Event(s, e) = Cbor!Put_Field(s, e.text)
         /\ e.op = "Begin_Optional" => Cbor!Event(s, e) = Cbor!Begin_Optional(s, e.present)
         /\ e.op = "Begin_Sequence" => Cbor!Event(s, e) = Cbor!Begin_Sequence(s, e.length)
         /\ e.op = "Begin_Map" => Cbor!Event(s, e) = Cbor!Begin_Map(s, e.length)
         /\ e.op = "Begin_Record" => Cbor!Event(s, e) = Cbor!Begin_Record(s, e.count)
         /\ e.op = "Begin_Variant" => Cbor!Event(s, e) = Cbor!Begin_Variant(s, e.text, e.count)
         /\ e.op = "End_Optional" => Cbor!Event(s, e) = Cbor!End_Optional(s)
         /\ e.op = "End_Sequence" => Cbor!Event(s, e) = Cbor!End_Sequence(s)
         /\ e.op = "End_Map" => Cbor!Event(s, e) = Cbor!End_Map(s)
         /\ e.op = "End_Record" => Cbor!Event(s, e) = Cbor!End_Record(s)
         /\ e.op = "End_Variant" => Cbor!Event(s, e) = Cbor!End_Variant(s)
  BY Zenon DEF Cbor!Event

\* A finished or poisoned operation takes no event, and an error in hand stops everything.
LEMMA JsonDeclines ==
  ASSUME NEW s, IsWriter(s), Latched(s) \/ Closed(s), NEW e \in AnyEvents
  PROVE  Json!Event(s, e) = LatchCode(s, "Invalid_State")
<1>. DEFINE t == Json!Event(s, e)
            r == LatchCode(s, "Invalid_State")
<1>. SUFFICES t = r
  OBVIOUS
<1>1. /\ Latched(s) => r = s
      /\ ~Latched(s) => Closed(s)
      /\ r.error # NoError
  BY DEF IsWriter, Components
<1>2. /\ Json!Before_Value(s) = r /\ Json!After_Value(r) = r
      /\ \A tokens : Json!Emit(r, tokens) = r
      /\ \A kind, length : Json!Push(r, kind, length) = r
  <2>1. Json!Before_Value(s) = r
    BY <1>1 DEF Json!Before_Value
  <2>. HIDE DEF r
  <2>. QED
    BY <1>1, <2>1, JsonIdle
<1>. HIDE DEF r
<1>3. CASE e.op \in {"Put_Scalar", "Put_Bytes"}
  <2>1. Json!Put_Scalar(s) = r
    BY <1>2 DEF Json!Put_Scalar
  <2>2. Json!Put_Bytes(s) = r
    BY <1>2 DEF Json!Put_Bytes
  <2>. QED
    BY <1>3, <2>1, <2>2, JsonDispatch
<1>4. CASE e.op \in {"Begin_Optional", "Begin_Sequence", "Begin_Map", "Begin_Record"}
  <2>1. Json!Begin_Optional(s, e.present) = r
    BY <1>2 DEF Json!Begin_Optional
  <2>2. Json!Begin_Sequence(s, e.length) = r
    BY <1>2 DEF Json!Begin_Sequence
  <2>3. Json!Begin_Map(s, e.length) = r
    BY <1>2 DEF Json!Begin_Map
  <2>4. Json!Begin_Record(s, e.count) = r
    BY <1>2 DEF Json!Begin_Record
  <2>. QED
    BY <1>1, <1>4, <2>1, <2>2, <2>3, <2>4, JsonDispatch
<1>5. CASE e.op \in Ends
  <2>1. \A kind, close : Json!Pop(s, kind, close) = r
    BY <1>1 DEF Json!Pop, r
  <2>. QED
    BY <1>1, <1>5, <2>1, JsonDispatch DEF Ends, Json!End_Optional, Json!End_Sequence,
      Json!End_Map, Json!End_Record, Json!End_Variant
<1>6. CASE e.op \in Written \cup {"Put_Float_64"}
  <2>1. /\ Json!Put_Text(s, e.text) = r
        /\ Json!Put_Enumeration(s, e.text) = r
        /\ Json!Put_Field(s, e.text) = r
        /\ Json!Begin_Variant(s, e.text, e.count) = r
    BY <1>1 DEF Json!Put_Text, Json!Put_Enumeration, Json!Put_Field, Json!Begin_Variant, r
  <2>2. Json!Put_Float_64(s, e.value) = r
    BY <1>1, <1>2 DEF Json!Put_Float_64, r
  <2>. QED
    BY <1>1, <1>6, <2>1, <2>2, JsonDispatch DEF Written
<1>. QED
  BY <1>3, <1>4, <1>5, <1>6, EventShape DEF Values, Begins, Written

\* The same of the CBOR writer.
LEMMA CborDeclines ==
  ASSUME NEW s, IsWriter(s), Latched(s) \/ Closed(s), NEW e \in AnyEvents
  PROVE  Cbor!Event(s, e) = LatchCode(s, "Invalid_State")
<1>. DEFINE t == Cbor!Event(s, e)
            r == LatchCode(s, "Invalid_State")
<1>. SUFFICES t = r
  OBVIOUS
<1>1. /\ Latched(s) => r = s
      /\ ~Latched(s) => Closed(s)
      /\ r.error # NoError
  BY DEF IsWriter, Components
<1>2. /\ Cbor!Before_Value(s) = r /\ Cbor!After_Value(r) = r
      /\ \A tokens : Cbor!Emit(r, tokens) = r
      /\ \A kind, length : Cbor!Push(r, kind, length) = r
  <2>1. Cbor!Before_Value(s) = r
    BY <1>1 DEF Cbor!Before_Value
  <2>. HIDE DEF r
  <2>. QED
    BY <1>1, <2>1, CborIdle
<1>. HIDE DEF r
<1>3. CASE e.op \in {"Put_Scalar", "Put_Bytes"}
  BY <1>1, <1>2, <1>3, CborDispatch DEF Cbor!Put_Scalar, Cbor!Put_Bytes,
    Cbor!Emit_Head, Cbor!Content
<1>4. CASE e.op \in {"Begin_Optional", "Begin_Sequence", "Begin_Map", "Begin_Record"}
  <2>1. Cbor!Begin_Optional(s, e.present) = r
    BY <1>2 DEF Cbor!Begin_Optional, Cbor!Emit_Head
  <2>2. Cbor!Begin_Sequence(s, e.length) = r
    BY <1>2 DEF Cbor!Begin_Sequence, Cbor!Emit_Head, Cbor!Opened
  <2>3. Cbor!Begin_Map(s, e.length) = r
    BY <1>2 DEF Cbor!Begin_Map, Cbor!Emit_Head, Cbor!Opened
  <2>4. Cbor!Begin_Record(s, e.count) = r
    BY <1>2 DEF Cbor!Begin_Record, Cbor!Emit_Head
  <2>. QED
    BY <1>1, <1>4, <2>1, <2>2, <2>3, <2>4, CborDispatch
<1>5. CASE e.op \in Ends
  <2>1. \A kind : Cbor!Pop(s, kind) = r
    BY <1>1 DEF Cbor!Pop, r
  <2>. QED
    BY <1>1, <1>5, <2>1, CborDispatch DEF Ends, Cbor!End_Optional, Cbor!End_Sequence,
      Cbor!End_Map, Cbor!End_Record, Cbor!End_Variant
<1>6. CASE e.op \in Written \cup {"Put_Float_64"}
  <2>1. /\ Cbor!Put_Text(s, e.text) = r
        /\ Cbor!Put_Enumeration(s, e.text) = r
        /\ Cbor!Put_Field(s, e.text) = r
        /\ Cbor!Begin_Variant(s, e.text, e.count) = r
    BY <1>1 DEF Cbor!Put_Text, Cbor!Put_Enumeration, Cbor!Put_Field, Cbor!Begin_Variant, r
  <2>2. Cbor!Put_Float_64(s, e.value) = r
    BY <1>1, <1>2 DEF Cbor!Put_Float_64, Cbor!Put_Scalar, Cbor!Emit_Head
  <2>. QED
    BY <1>1, <1>6, <2>1, <2>2, CborDispatch DEF Written
<1>. QED
  BY <1>3, <1>4, <1>5, <1>6, EventShape DEF Values, Begins, Written

\* An event has the outcome its frames announce, whichever writer it is given to.
LEMMA JsonEvent ==
  ASSUME NEW s, IsWriter(s), s.error = NoError, ~s.failed, NEW e \in AnyEvents
  PROVE  EventOutcome("json", s, Json!Event(s, e), e)
<1>. DEFINE t == Json!Event(s, e)
<1>1. CASE s.finalized
  BY <1>1, JsonDeclines DEF EventOutcome, IsWriter, Components
<1>2. CASE ~s.finalized
  <2>. DEFINE u == Json!Before_Value(s)
  <2>1. IsOpen(s) /\ ~Latched(s) /\ ~Closed(s)
    BY <1>2 DEF IsOpen
  <2>2. Began(s, u)
    BY <2>1, JsonBefore DEF Began, Held
  <2>3. ASSUME NEW v, Began(s, v)
        PROVE  /\ \A tokens : Began(s, Json!Emit(v, tokens))
               /\ ValueOutcome(s, Json!After_Value(v))
               /\ \A kind \in Kinds, length \in Lengths :
                    OpenOutcome(s, Json!Push(v, kind, length), kind, length)
    BY <2>1, <2>3, JsonOnward
  <2>. HIDE DEF u
  <2>4. CASE Spoiled(e)
    <3>1. \A c : Json!Fail(s, c).error = c
      BY <2>1 DEF IsWriter, Components, Json!Fail
    <3>2. /\ Json!Put_Text(s, e.text).error = "Invalid_Text"
          /\ Json!Put_Enumeration(s, e.text).error = "Invalid_Text"
          /\ Json!Put_Field(s, e.text).error = "Invalid_Text"
          /\ Json!Begin_Variant(s, e.text, e.count).error = "Invalid_Text"
      BY <2>1, <2>4, <3>1 DEF Spoiled, Json!ValidText, Json!Put_Text, Json!Put_Enumeration,
        Json!Put_Field, Json!Begin_Variant
    <3>. QED
      BY <1>2, <2>4, <3>2, JsonDispatch DEF EventOutcome, Spoiled, Written
  <2>5. CASE Unwritable("json", e)
    <3>1. Json!Put_Float_64(s, e.value).error = "Unsupported_Value"
      BY <2>1, <2>5 DEF Unwritable, Json!Put_Float_64, Json!Fail, IsWriter, Components
    <3>. QED
      BY <1>2, <2>5, <3>1, JsonDispatch DEF EventOutcome, Unwritable, Spoiled, Written
  <2>6. CASE ~Spoiled(e) /\ ~Unwritable("json", e) /\ e.op \in Values
    <3>1. ValueOutcome(s, Json!Put_Scalar(s))
      BY <2>2, <2>3 DEF Json!Put_Scalar, u
    <3>2. e.op = "Put_Float_64" => ValueOutcome(s, Json!Put_Float_64(s, e.value))
      BY <2>1, <2>2, <2>3, <2>6 DEF Json!Put_Float_64, u, Unwritable
    <3>3. e.op \in {"Put_Text", "Put_Enumeration"} => ValueOutcome(s, Json!Put_Text(s, e.text))
      BY <2>1, <2>2, <2>3, <2>6 DEF Json!Put_Text, Json!Emit_Quoted, Json!ValidText, u, Spoiled,
        Written
    <3>4. ValueOutcome(s, Json!Put_Bytes(s))
      BY <2>2, <2>3 DEF Json!Put_Bytes, u
    <3>5. ValueOutcome(s, t)
      BY <2>6, <3>1, <3>2, <3>3, <3>4, JsonDispatch DEF Json!Put_Enumeration, Values
    <3>. QED
      BY <1>2, <2>6, <3>5 DEF EventOutcome, Values, Begins, Ends
  <2>7. CASE ~Spoiled(e) /\ ~Unwritable("json", e) /\ e.op \in Begins
    <3>1. {"optional", "sequence", "map", "record", "variant"} = Kinds
      BY DEF Kinds
    <3>2. OpenOutcome(s, Json!Begin_Optional(s, e.present), "optional",
                      Known_Length(IF e.present THEN 1 ELSE 0))
      <4>1. Known_Length(IF e.present THEN 1 ELSE 0) \in Lengths
        BY DEF Known_Length, Lengths
      <4>. QED
        BY <2>2, <2>3, <3>1, <4>1 DEF Json!Begin_Optional, Json!Known_Length, Known_Length, u
    <3>3. e.length \in Lengths => /\ OpenOutcome(s, Json!Begin_Sequence(s, e.length), "sequence", e.length)
                                  /\ OpenOutcome(s, Json!Begin_Map(s, e.length), "map", e.length)
      BY <2>2, <2>3, <3>1 DEF Json!Begin_Sequence, Json!Begin_Map, u
    <3>4. Known_Length(e.count) \in Lengths =>
            OpenOutcome(s, Json!Begin_Record(s, e.count), "record", Known_Length(e.count))
      BY <2>2, <2>3, <3>1 DEF Json!Begin_Record, Json!Known_Length, Known_Length, u
    <3>5. e.op = "Begin_Variant" /\ Known_Length(e.count) \in Lengths =>
            OpenOutcome(s, Json!Begin_Variant(s, e.text, e.count), "variant", Known_Length(e.count))
      BY <2>1, <2>2, <2>3, <2>7, <3>1 DEF Json!Begin_Variant, Json!Known_Length, Known_Length,
        Json!Emit_Quoted, Json!ValidText, Spoiled, Written, u
    <3>6. LengthOf(e) \in Lengths
      BY <2>7, EventShape
    <3>7. OpenOutcome(s, t, KindOf(e), LengthOf(e))
      <4>1. CASE e.op = "Begin_Optional"
        BY <3>2, <4>1, JsonDispatch DEF KindOf, LengthOf
      <4>2. CASE e.op = "Begin_Sequence"
        BY <3>3, <3>6, <4>2, JsonDispatch DEF KindOf, LengthOf
      <4>3. CASE e.op = "Begin_Map"
        BY <3>3, <3>6, <4>3, JsonDispatch DEF KindOf, LengthOf
      <4>4. CASE e.op = "Begin_Record"
        BY <3>4, <3>6, <4>4, JsonDispatch DEF KindOf, LengthOf
      <4>5. CASE e.op = "Begin_Variant"
        BY <3>5, <3>6, <4>5, JsonDispatch DEF KindOf, LengthOf
      <4>. QED
        BY <2>7, <4>1, <4>2, <4>3, <4>4, <4>5 DEF Begins
    <3>. QED
      BY <1>2, <2>7, <3>7 DEF EventOutcome, Values, Begins, Ends
  <2>8. CASE ~Spoiled(e) /\ ~Unwritable("json", e) /\ e.op \in Ends
    <3>1. \A kind, close : CloseOutcome(s, Json!Pop(s, kind, close), kind)
      BY <2>1, JsonPop
    <3>2. /\ CloseOutcome(s, Json!End_Optional(s), "optional")
          /\ CloseOutcome(s, Json!End_Sequence(s), "sequence")
          /\ CloseOutcome(s, Json!End_Map(s), "map")
          /\ CloseOutcome(s, Json!End_Record(s), "record")
          /\ CloseOutcome(s, Json!End_Variant(s), "variant")
      BY <3>1 DEF Json!End_Optional, Json!End_Sequence, Json!End_Map, Json!End_Record,
        Json!End_Variant
    <3>3. CloseOutcome(s, t, KindOf(e))
      BY <2>8, <3>2, JsonDispatch DEF Ends, KindOf
    <3>. QED
      BY <1>2, <2>8, <3>3 DEF EventOutcome, Values, Begins, Ends
  <2>9. CASE ~Spoiled(e) /\ ~Unwritable("json", e) /\ e.op = "Put_Field"
    <3>1. FieldOutcome(s, Json!Put_Field(s, e.text))
      BY <2>1, <2>9, JsonField DEF Json!ValidText, Spoiled, Written
    <3>2. FieldOutcome(s, t)
      BY <2>9, <3>1, JsonDispatch
    <3>. QED
      BY <1>2, <2>9, <3>2 DEF EventOutcome, Values, Begins, Ends
  <2>. QED
    BY <2>4, <2>5, <2>6, <2>7, <2>8, <2>9, EventShape
<1>. QED
  BY <1>1, <1>2

\* The CBOR writer has the same outcomes.
LEMMA CborEvent ==
  ASSUME NEW s, IsWriter(s), s.error = NoError, ~s.failed, NEW e \in AnyEvents
  PROVE  EventOutcome("cbor", s, Cbor!Event(s, e), e)
<1>. DEFINE t == Cbor!Event(s, e)
<1>1. CASE s.finalized
  BY <1>1, CborDeclines DEF EventOutcome, IsWriter, Components
<1>2. CASE ~s.finalized
  <2>. DEFINE u == Cbor!Before_Value(s)
  <2>1. IsOpen(s) /\ ~Latched(s) /\ ~Closed(s)
    BY <1>2 DEF IsOpen
  <2>2. Began(s, u)
    BY <2>1, CborBefore DEF Began, Held
  <2>3. ASSUME NEW v, Began(s, v)
        PROVE  /\ \A tokens : Began(s, Cbor!Emit(v, tokens))
               /\ ValueOutcome(s, Cbor!After_Value(v))
               /\ \A kind \in Kinds, length \in Lengths :
                    OpenOutcome(s, Cbor!Push(v, kind, length), kind, length)
    BY <2>1, <2>3, CborOnward
  <2>. HIDE DEF u
  <2>4. CASE Spoiled(e)
    <3>1. \A c : Cbor!Fail(s, c).error = c
      BY <2>1 DEF IsWriter, Components, Cbor!Fail
    <3>2. /\ Cbor!Put_Text(s, e.text).error = "Invalid_Text"
          /\ Cbor!Put_Enumeration(s, e.text).error = "Invalid_Text"
          /\ Cbor!Put_Field(s, e.text).error = "Invalid_Text"
          /\ Cbor!Begin_Variant(s, e.text, e.count).error = "Invalid_Text"
      BY <2>1, <2>4, <3>1 DEF Spoiled, Cbor!ValidText, Cbor!Put_Text, Cbor!Put_Enumeration,
        Cbor!Put_Field, Cbor!Begin_Variant
    <3>. QED
      BY <1>2, <2>4, <3>2, CborDispatch DEF EventOutcome, Spoiled, Written
  <2>5. ASSUME NEW v, Began(s, v)
        PROVE  /\ \A head, count : Began(s, Cbor!Emit_Head(v, head, count))
               /\ \A pieces : Began(s, Cbor!Content(v, pieces))
    <3>1. \A w : Began(s, w) => \A head, count : Began(s, Cbor!Emit_Head(w, head, count))
      BY <2>3 DEF Cbor!Emit_Head
    <3>2. \A pieces : Began(s, Cbor!Content(v, pieces))
      BY <2>5, <3>1 DEF Cbor!Content
    <3>. QED
      BY <2>5, <3>1, <3>2
  <2>6. ASSUME NEW v, Began(s, v), NEW text, Cbor!ValidText(text)
        PROVE  Began(s, Cbor!Emit_Text(v, text))
    BY <2>5, <2>6 DEF Cbor!Emit_Text
  <2>7. CASE ~Spoiled(e) /\ ~Unwritable("cbor", e) /\ e.op \in Values
    <3>1. ValueOutcome(s, Cbor!Put_Scalar(s))
      BY <2>2, <2>3, <2>5 DEF Cbor!Put_Scalar, u
    <3>3. e.op \in {"Put_Text", "Put_Enumeration"} => ValueOutcome(s, Cbor!Put_Text(s, e.text))
      <4>1. CASE e.op \in {"Put_Text", "Put_Enumeration"}
        <5>1. Cbor!ValidText(e.text)
          BY <2>7, <4>1 DEF Cbor!ValidText, Spoiled, Written
        <5>2. Cbor!Put_Text(s, e.text) = Cbor!After_Value(Cbor!Emit_Text(u, e.text))
          BY <2>1, <5>1 DEF Cbor!Put_Text, u
        <5>. QED
          BY <2>2, <2>3, <2>6, <5>1, <5>2
      <4>. QED
        BY <4>1
    <3>4. ValueOutcome(s, Cbor!Put_Bytes(s, 1))
      BY <2>2, <2>3, <2>5 DEF Cbor!Put_Bytes, u
    <3>5. ValueOutcome(s, t)
      BY <2>7, <3>1, <3>3, <3>4, CborDispatch DEF Cbor!Put_Enumeration, Cbor!Put_Float_64, Values
    <3>. QED
      BY <1>2, <2>7, <3>5 DEF EventOutcome, Values, Begins, Ends
  <2>8. CASE ~Spoiled(e) /\ ~Unwritable("cbor", e) /\ e.op \in Begins
    <3>1. {"optional", "sequence", "map", "record", "variant"} = Kinds
      BY DEF Kinds
    <3>2. OpenOutcome(s, Cbor!Begin_Optional(s, e.present), "optional",
                      Known_Length(IF e.present THEN 1 ELSE 0))
      <4>1. Known_Length(IF e.present THEN 1 ELSE 0) \in Lengths
        BY DEF Known_Length, Lengths
      <4>. QED
        BY <2>2, <2>3, <2>5, <3>1, <4>1 DEF Cbor!Begin_Optional, Cbor!Known_Length, Known_Length, u
    <3>3. e.length \in Lengths => /\ OpenOutcome(s, Cbor!Begin_Sequence(s, e.length), "sequence", e.length)
                                  /\ OpenOutcome(s, Cbor!Begin_Map(s, e.length), "map", e.length)
      BY <2>2, <2>3, <2>5, <3>1 DEF Cbor!Begin_Sequence, Cbor!Begin_Map, Cbor!Opened, u
    <3>4. Known_Length(e.count) \in Lengths =>
            OpenOutcome(s, Cbor!Begin_Record(s, e.count), "record", Known_Length(e.count))
      BY <2>2, <2>3, <2>5, <3>1 DEF Cbor!Begin_Record, Cbor!Known_Length, Known_Length, u
    <3>5. e.op = "Begin_Variant" /\ Known_Length(e.count) \in Lengths =>
            OpenOutcome(s, Cbor!Begin_Variant(s, e.text, e.count), "variant", Known_Length(e.count))
      <4>1. CASE e.op = "Begin_Variant" /\ Known_Length(e.count) \in Lengths
        <5>. DEFINE v == Cbor!Emit_Text(Cbor!Emit_Head(u, "array", 2), e.text)
        <5>1. Cbor!ValidText(e.text)
          BY <2>8, <4>1 DEF Cbor!ValidText, Spoiled, Written
        <5>2. Cbor!Begin_Variant(s, e.text, e.count) =
                Cbor!Push(Cbor!Emit_Head(v, "map", e.count), "variant", Known_Length(e.count))
          BY <2>1, <5>1 DEF Cbor!Begin_Variant, Cbor!Known_Length, Known_Length, u
        <5>3. Began(s, v)
          BY <2>2, <2>5, <2>6, <5>1
        <5>4. Began(s, Cbor!Emit_Head(v, "map", e.count))
          BY <2>5, <5>3
        <5>. QED
          BY <2>3, <3>1, <4>1, <5>2, <5>4
      <4>. QED
        BY <4>1
    <3>6. LengthOf(e) \in Lengths
      BY <2>8, EventShape
    <3>7. OpenOutcome(s, t, KindOf(e), LengthOf(e))
      <4>1. CASE e.op = "Begin_Optional"
        BY <3>2, <4>1, CborDispatch DEF KindOf, LengthOf
      <4>2. CASE e.op = "Begin_Sequence"
        BY <3>3, <3>6, <4>2, CborDispatch DEF KindOf, LengthOf
      <4>3. CASE e.op = "Begin_Map"
        BY <3>3, <3>6, <4>3, CborDispatch DEF KindOf, LengthOf
      <4>4. CASE e.op = "Begin_Record"
        BY <3>4, <3>6, <4>4, CborDispatch DEF KindOf, LengthOf
      <4>5. CASE e.op = "Begin_Variant"
        BY <3>5, <3>6, <4>5, CborDispatch DEF KindOf, LengthOf
      <4>. QED
        BY <2>8, <4>1, <4>2, <4>3, <4>4, <4>5 DEF Begins
    <3>. QED
      BY <1>2, <2>8, <3>7 DEF EventOutcome, Values, Begins, Ends
  <2>9. CASE ~Spoiled(e) /\ ~Unwritable("cbor", e) /\ e.op \in Ends
    <3>1. \A kind : CloseOutcome(s, Cbor!Pop(s, kind), kind)
      BY <2>1, CborPop
    <3>2. /\ CloseOutcome(s, Cbor!End_Optional(s), "optional")
          /\ CloseOutcome(s, Cbor!End_Sequence(s), "sequence")
          /\ CloseOutcome(s, Cbor!End_Map(s), "map")
          /\ CloseOutcome(s, Cbor!End_Record(s), "record")
          /\ CloseOutcome(s, Cbor!End_Variant(s), "variant")
      BY <3>1 DEF Cbor!End_Optional, Cbor!End_Sequence, Cbor!End_Map, Cbor!End_Record,
        Cbor!End_Variant
    <3>3. CloseOutcome(s, t, KindOf(e))
      BY <2>9, <3>2, CborDispatch DEF Ends, KindOf
    <3>. QED
      BY <1>2, <2>9, <3>3 DEF EventOutcome, Values, Begins, Ends
  <2>10. CASE ~Spoiled(e) /\ ~Unwritable("cbor", e) /\ e.op = "Put_Field"
    <3>1. FieldOutcome(s, Cbor!Put_Field(s, e.text))
      BY <2>1, <2>10, CborField DEF Cbor!ValidText, Spoiled, Written
    <3>2. FieldOutcome(s, t)
      BY <2>10, <3>1, CborDispatch
    <3>. QED
      BY <1>2, <2>10, <3>2 DEF EventOutcome, Values, Begins, Ends
  <2>. QED
    BY <2>4, <2>7, <2>8, <2>9, <2>10, EventShape DEF Unwritable
<1>. QED
  BY <1>1, <1>2

-----------------------------------------------------------------------------
(* The Counter. *)

CounterParts == {"profile", "events", "stack", "root_written", "failed", "finalized", "error"}

\* A frame of the Counter is within the limits of the root, and leaves room for what it awaits.
Within(f) ==
  /\ f.observed <= Limits.items /\ f.observed <= NaturalLast
  /\ f.known => f.expected <= Limits.items
  /\ f.kind = "map" /\ f.waiting => f.observed < Limits.items
  /\ f.kind \in {"record", "variant"} =>
       f.known /\ f.observed <= f.expected /\ (f.waiting => f.observed < f.expected)

SafeStack(stack) ==
  /\ stack \in Seq(Frames) /\ Len(stack) <= Limits.nesting
  /\ \A i \in 1..Len(stack) : Within(stack[i])

IsCounter(c) ==
  /\ c = [i \in CounterParts |-> c[i]]   \* a record of these components
  /\ SafeStack(c.stack) /\ c.events \in Nat /\ c.events <= Limits.events
  /\ c.root_written \in BOOLEAN /\ c.failed \in BOOLEAN /\ c.finalized \in BOOLEAN
  /\ c.stack # <<>> => c.root_written

\* A Counter that takes the next event.
IsCounting(c) ==
  IsCounter(c) /\ c.error = NoError /\ ~c.failed /\ ~c.finalized /\ c.profile.arbitrary_map_keys

\* The innermost frame when an item is counted in it, or its key admitted.
NotedFrame(f) ==
  IF f.kind = "map" /\ ~f.waiting THEN [f EXCEPT !.waiting = TRUE]
  ELSE [f EXCEPT !.waiting = FALSE, !.observed = @ + 1]

Noted(stack) ==
  IF stack = <<>> THEN stack ELSE [stack EXCEPT ![Len(stack)] = NotedFrame(LastOf(stack))]

\* One more item can be counted, if that is what a child would be.
Countable(stack) ==
  LET f == LastOf(stack) IN
  stack # <<>> /\ f.observed = NaturalLast => f.kind = "map" /\ ~f.waiting

Refused(c, t, code) == IsCounter(t) /\ t.profile = c.profile /\ t.error = code

Advanced(c, t, stack) ==
  IsCounting(t) /\ t.profile = c.profile /\ t.root_written /\ t.stack = stack

\* A counter refuses.
LEMMA CounterRejects ==
  ASSUME NEW c, IsCounter(c), c.error = NoError, NEW code
  PROVE  Refused(c, Counting!Reject(c, code), code)
<1>. DEFINE t == Counting!Reject(c, code)
<1>1. /\ t = [i \in CounterParts |-> t[i]]
      /\ t.stack = c.stack /\ t.events = c.events /\ t.root_written = c.root_written
      /\ t.failed = TRUE /\ t.finalized = FALSE /\ t.profile = c.profile /\ t.error = code
  BY DEF IsCounter, CounterParts, Counting!Reject
<1>. HIDE DEF t
<1>. QED
  BY <1>1 DEF Refused, IsCounter, t

\* It is moved to other frames.
LEMMA CounterRestacked ==
  ASSUME NEW c, IsCounting(c), c.root_written, NEW stack, SafeStack(stack)
  PROVE  Advanced(c, [c EXCEPT !.stack = stack], stack)
<1>. DEFINE t == [c EXCEPT !.stack = stack]
<1>1. /\ t = [i \in CounterParts |-> t[i]]
      /\ t.stack = stack /\ t.events = c.events /\ t.root_written = c.root_written
      /\ t.failed = c.failed /\ t.finalized = c.finalized /\ t.profile = c.profile
      /\ t.error = c.error
  BY DEF IsCounting, IsCounter, CounterParts
<1>. HIDE DEF t
<1>. QED
  BY <1>1 DEF Advanced, IsCounting, IsCounter, t

\* An event is counted.
LEMMA CounterNotes ==
  ASSUME NEW c, IsCounting(c), c.root_written
  PROVE  \/ Refused(c, Counting!Note_Event(c), "Capacity_Exceeded")
         \/ Advanced(c, Counting!Note_Event(c), c.stack)
<1>1. IsCounter(c) /\ c.error = NoError /\ ~Latched(c)
  BY DEF IsCounting
<1>2. CASE c.events = NaturalLast \/ c.events >= Limits.events
  BY <1>1, <1>2, CounterRejects DEF Counting!Note_Event
<1>3. CASE ~(c.events = NaturalLast \/ c.events >= Limits.events)
  <2>. DEFINE t == [c EXCEPT !.events = @ + 1]
  <2>1. Counting!Note_Event(c) = t
    BY <1>1, <1>3 DEF Counting!Note_Event
  <2>2. /\ t = [i \in CounterParts |-> t[i]]
        /\ t.stack = c.stack /\ t.events = c.events + 1 /\ t.root_written = c.root_written
        /\ t.failed = c.failed /\ t.finalized = c.finalized /\ t.profile = c.profile
        /\ t.error = c.error
    BY <1>1 DEF IsCounter, CounterParts
  <2>3. c.events + 1 \in Nat /\ c.events + 1 <= Limits.events
    BY <1>1, <1>3, LimitsAssumption DEF IsCounter
  <2>. HIDE DEF t
  <2>. QED
    BY <2>1, <2>2, <2>3 DEF Advanced, IsCounting, IsCounter
<1>. QED
  BY <1>2, <1>3

\* Its frames stay within the limits.
LEMMA SafeTop ==
  ASSUME NEW stack, SafeStack(stack), stack # <<>>
  PROVE  LastOf(stack) \in Frames /\ Within(LastOf(stack)) /\ Len(stack) \in 1..Len(stack)
  BY TopIsFrame DEF SafeStack, LastOf

\* Replacing it by one within the limits keeps the stack within them.
LEMMA SafeTopSet ==
  ASSUME NEW stack, SafeStack(stack), stack # <<>>, NEW f \in Frames, Within(f)
  PROVE  SafeStack([stack EXCEPT ![Len(stack)] = f])
<1>. DEFINE new == [stack EXCEPT ![Len(stack)] = f]
<1>1. /\ new \in Seq(Frames) /\ Len(new) = Len(stack) /\ new[Len(stack)] = f
      /\ \A i \in 1..Len(stack) : i # Len(stack) => new[i] = stack[i]
  BY TopSet DEF SafeStack, LastOf
<1>. HIDE DEF new
<1>2. SafeStack(new)
  BY <1>1 DEF SafeStack
<1>. QED
  BY <1>2 DEF new

\* So does closing the innermost container.
LEMMA SafePopped ==
  ASSUME NEW stack, SafeStack(stack), stack # <<>>
  PROVE  SafeStack(Popped(stack))
<1>1. /\ Popped(stack) \in Seq(Frames) /\ Len(Popped(stack)) = Len(stack) - 1
      /\ \A i \in 1..(Len(stack) - 1) : Popped(stack)[i] = stack[i]
  BY PoppedIsStack DEF SafeStack
<1>2. Len(stack) \in Nat /\ Limits.nesting \in Nat
  BY LenProperties, LimitsAssumption DEF SafeStack
<1>. QED
  BY <1>1, <1>2 DEF SafeStack

\* So does opening another, where the nesting allows.
LEMMA SafeAppended ==
  ASSUME NEW stack, SafeStack(stack), Len(stack) < Limits.nesting, NEW f \in Frames, Within(f)
  PROVE  SafeStack(Append(stack, f))
<1>. DEFINE new == Append(stack, f)
<1>1. /\ new \in Seq(Frames) /\ Len(new) = Len(stack) + 1 /\ new[Len(stack) + 1] = f
      /\ \A i \in 1..Len(stack) : new[i] = stack[i]
  BY AppendProperties DEF SafeStack
<1>2. Len(stack) \in Nat /\ Limits.nesting \in Nat
  BY LenProperties, LimitsAssumption DEF SafeStack
<1>. HIDE DEF new
<1>3. SafeStack(new)
  BY <1>1, <1>2 DEF SafeStack
<1>. QED
  BY <1>3 DEF new

\* What counting an item, or admitting a key, does to the innermost frame.
LEMMA NotedIsSafe ==
  ASSUME NEW stack, SafeStack(stack),
         stack # <<>> => LET f == LastOf(stack) IN
           /\ f.kind \in {"optional", "sequence"} \/ (f.kind = "map" /\ ~f.waiting) =>
                f.observed < Limits.items
           /\ f.kind \in {"record", "variant"} => f.waiting
           /\ f.observed = NaturalLast => f.kind = "map" /\ ~f.waiting
  PROVE  SafeStack(Noted(stack)) /\ Len(Noted(stack)) = Len(stack)
<1>1. CASE stack = <<>>
  BY <1>1 DEF Noted
<1>2. CASE stack # <<>>
  <2>. DEFINE f == LastOf(stack)
  <2>1. f \in Frames /\ Within(f)
    BY <1>2, SafeTop
  <2>2. NotedFrame(f) \in Frames
    BY <2>1, FrameSet DEF NotedFrame
  <2>3. /\ f.observed \in Nat /\ f.expected \in Nat /\ f.waiting \in BOOLEAN
        /\ f.known \in BOOLEAN /\ f.kind \in Kinds /\ Limits.items \in Nat /\ NaturalLast \in Nat
    BY <2>1, FrameSet, LimitsAssumption, NaturalAssumption
  <2>4. ASSUME f.kind = "map" /\ ~f.waiting
        PROVE  Within(NotedFrame(f))
    <3>1. /\ NotedFrame(f).observed = f.observed /\ NotedFrame(f).known = f.known
          /\ NotedFrame(f).expected = f.expected /\ NotedFrame(f).kind = f.kind
      BY <2>1, <2>4 DEF NotedFrame, Frames
    <3>. QED
      BY <1>2, <2>1, <2>3, <2>4, <3>1 DEF Within
  <2>5. ASSUME ~(f.kind = "map" /\ ~f.waiting)
        PROVE  Within(NotedFrame(f))
    <3>1. /\ NotedFrame(f).observed = f.observed + 1 /\ NotedFrame(f).known = f.known
          /\ NotedFrame(f).expected = f.expected /\ NotedFrame(f).kind = f.kind
          /\ NotedFrame(f).waiting = FALSE
      BY <2>1, <2>5 DEF NotedFrame, Frames
    <3>2. f.observed < Limits.items /\ f.observed < NaturalLast
      BY <1>2, <2>1, <2>3, <2>5 DEF Within, Kinds
    <3>3. f.kind \in {"record", "variant"} => f.known /\ f.observed < f.expected
      BY <1>2, <2>1, <2>3, <2>5 DEF Within
    <3>. QED
      BY <2>1, <2>3, <3>1, <3>2, <3>3 DEF Within
  <2>6. Within(NotedFrame(f))
    BY <2>4, <2>5
  <2>7. Noted(stack) = [stack EXCEPT ![Len(stack)] = NotedFrame(f)]
    BY <1>2 DEF Noted
  <2>. QED
    BY <1>2, <2>2, <2>6, <2>7, SafeTopSet, TopSet DEF SafeStack
<1>. QED
  BY <1>1, <1>2

(* The outcomes of the Counter's events. *)

NoteOutcome(c, t) ==
  \/ Refused(c, t, "Capacity_Exceeded")
  \/ Refused(c, t, "Invalid_State") /\ Misplaced(c)
  \/ Advanced(c, t, Noted(c.stack)) /\ ~Misplaced(c) /\ Countable(c.stack)

AdmitOutcome(c, t, kind, length) ==
  \/ Refused(c, t, "Capacity_Exceeded") \/ Refused(c, t, "Depth_Exceeded")
  \/ Refused(c, t, "Invalid_State") /\ Misplaced(c)
  \/ /\ Advanced(c, t, Append(Noted(c.stack), Frame(kind, length)))
     /\ ~Misplaced(c) /\ Countable(c.stack) /\ Len(c.stack) # MaxSupportedNesting

LeaveOutcome(c, t, kind) ==
  LET misplaced == c.stack = <<>> \/ Unclosable(LastOf(c.stack), kind) IN
  \/ Refused(c, t, "Capacity_Exceeded")
  \/ Refused(c, t, "Invalid_State") /\ misplaced
  \/ Advanced(c, t, Popped(c.stack)) /\ ~misplaced

NameOutcome(c, t) ==
  LET misplaced == c.stack = <<>> \/ ~TakesField(LastOf(c.stack)) IN
  \/ Refused(c, t, "Capacity_Exceeded")
  \/ Refused(c, t, "Invalid_State") /\ misplaced
  \/ Advanced(c, t, Field(c.stack)) /\ ~misplaced

\* Note_Value: the place of a child is checked as Before_Value checks it.
LEMMA CounterNotesValue ==
  ASSUME NEW c, IsCounting(c), NEW isText
  PROVE  NoteOutcome(c, Counting!Note_Value(c, isText))
<1>. DEFINE t == Counting!Note_Value(c, isText)
            f == LastOf(c.stack)
            d == [c EXCEPT !.stack = Noted(c.stack)]
<1>1. /\ IsCounter(c) /\ c.error = NoError /\ ~Latched(c) /\ ~Closed(c) /\ SafeStack(c.stack)
      /\ c.profile.arbitrary_map_keys
  BY DEF IsCounting, IsCounter
<1>2. \A code : Refused(c, Counting!Reject(c, code), code)
  BY <1>1, CounterRejects
<1>3. CASE c.stack = <<>>
  <2>1. CASE c.root_written
    BY <1>1, <1>2, <1>3, <2>1 DEF Counting!Note_Value, NoteOutcome, Misplaced
  <2>2. CASE ~c.root_written
    <3>. DEFINE r == [c EXCEPT !.root_written = TRUE]
    <3>1. t = Counting!Note_Event(r)
      BY <1>1, <1>3, <2>2 DEF Counting!Note_Value
    <3>2. /\ r = [i \in CounterParts |-> r[i]]
          /\ r.stack = c.stack /\ r.events = c.events /\ r.root_written
          /\ r.failed = c.failed /\ r.finalized = c.finalized /\ r.profile = c.profile
          /\ r.error = c.error
      BY <1>1 DEF IsCounter, CounterParts
    <3>. HIDE DEF r
    <3>3. IsCounting(r)
      BY <3>2 DEF IsCounting, IsCounter
    <3>4. Refused(r, t, "Capacity_Exceeded") \/ Advanced(r, t, c.stack)
      BY <3>1, <3>2, <3>3, CounterNotes
    <3>. QED
      BY <1>3, <2>2, <3>2, <3>4 DEF Refused, Advanced, NoteOutcome, Noted, Misplaced, Countable
  <2>. QED
    BY <2>1, <2>2
<1>4. CASE c.stack # <<>>
  <2>1. /\ c.root_written /\ f \in Frames /\ Within(f) /\ f = Counting!Top(c)
        /\ f.kind \in Kinds /\ f.waiting \in BOOLEAN
    <3>1. c.root_written /\ f \in Frames /\ Within(f)
      BY <1>1, <1>4, SafeTop DEF IsCounter
    <3>2. f = Counting!Top(c)
      BY DEF Counting!Top, LastOf
    <3>3. f.kind \in Kinds /\ f.waiting \in BOOLEAN
      BY <3>1, FrameFields
    <3>. QED
      BY <3>1, <3>2, <3>3
  <2>2. ASSUME ~Misplaced(c), Countable(c.stack), t = Counting!Note_Event(d),
               f.kind \in {"optional", "sequence"} \/ (f.kind = "map" /\ ~f.waiting) =>
                 f.observed < Limits.items
        PROVE  NoteOutcome(c, t)
    <3>1. f.kind \in {"record", "variant"} => f.waiting
      BY <1>4, <2>2 DEF Misplaced
    <3>2. SafeStack(Noted(c.stack))
      BY <1>1, <1>4, <2>2, <3>1, NotedIsSafe DEF Countable
    <3>3. Advanced(c, d, Noted(c.stack))
      BY <2>1, <3>2, CounterRestacked
    <3>. HIDE DEF d, t
    <3>4. Refused(d, t, "Capacity_Exceeded") \/ Advanced(d, t, d.stack)
      BY <2>2, <3>3, CounterNotes DEF Advanced
    <3>. QED
      BY <2>2, <3>3, <3>4 DEF Advanced, Refused, NoteOutcome
  <2>3. CASE f.kind \in {"optional", "sequence"}
    <3>1. t = Counting!Note_Item(c)
      BY <1>1, <1>4, <2>1, <2>3 DEF Counting!Note_Value
    <3>2. CASE Full(f)
      BY <1>2, <1>4, <2>1, <2>3, <3>1, <3>2 DEF Counting!Note_Item, NoteOutcome, Misplaced
    <3>3. CASE ~Full(f) /\ (f.observed = NaturalLast \/ f.observed >= Limits.items)
      BY <1>2, <2>1, <3>1, <3>3 DEF Counting!Note_Item, NoteOutcome
    <3>4. CASE ~Full(f) /\ ~(f.observed = NaturalLast \/ f.observed >= Limits.items)
      <4>1. t = Counting!Note_Event(Counting!Observed(c))
        BY <2>1, <3>1, <3>4 DEF Counting!Note_Item
      <4>2. Counting!Observed(c) = d
        BY <1>4, <2>1, <2>3 DEF Counting!Observed, Counting!SetTop, Noted, NotedFrame, LastOf
      <4>3. ~Misplaced(c) /\ Countable(c.stack)
        BY <1>4, <2>3, <3>4 DEF Misplaced, Countable
      <4>4. f.observed < Limits.items
        <5>1. f.observed \in Nat /\ Limits.items \in Nat
          BY <2>1, FrameFields, LimitsAssumption
        <5>. QED
          BY <3>4, <5>1
      <4>. QED
        BY <2>2, <4>1, <4>2, <4>3, <4>4
    <3>. QED
      BY <3>2, <3>3, <3>4
  <2>4. CASE f.kind = "map" /\ ~f.waiting
    <3>1. t = Counting!Note_Key(c, isText)
      BY <1>1, <1>4, <2>1, <2>4 DEF Counting!Note_Value
    <3>2. CASE f.observed >= Limits.items
      BY <1>1, <1>2, <2>1, <3>1, <3>2 DEF Counting!Note_Key, NoteOutcome
    <3>3. CASE ~(f.observed >= Limits.items) /\ Full(f)
      BY <1>1, <1>2, <1>4, <2>1, <2>4, <3>1, <3>3 DEF Counting!Note_Key, NoteOutcome, Misplaced
    <3>4. CASE ~(f.observed >= Limits.items) /\ ~Full(f)
      <4>1. t = Counting!Note_Event(d)
        BY <1>1, <1>4, <2>1, <2>4, <3>1, <3>4 DEF Counting!Note_Key, Counting!SetTop, Noted,
          NotedFrame, LastOf
      <4>2. ~Misplaced(c) /\ Countable(c.stack)
        BY <1>4, <2>4, <3>4 DEF Misplaced, Countable
      <4>3. f.observed < Limits.items
        <5>1. f.observed \in Nat /\ Limits.items \in Nat
          BY <2>1, FrameFields, LimitsAssumption
        <5>. QED
          BY <3>4, <5>1
      <4>. QED
        BY <2>2, <4>1, <4>2, <4>3
    <3>. QED
      BY <3>2, <3>3, <3>4
  <2>5. CASE f.kind \in {"record", "variant"} \/ (f.kind = "map" /\ f.waiting)
    <3>1. t = Counting!Note_Awaited(c)
      BY <1>1, <1>4, <2>1, <2>5 DEF Counting!Note_Value
    <3>2. CASE ~f.waiting
      BY <1>2, <1>4, <2>1, <2>5, <3>1, <3>2 DEF Counting!Note_Awaited, NoteOutcome, Misplaced
    <3>3. CASE f.waiting /\ f.observed = NaturalLast
      BY <1>2, <2>1, <3>1, <3>3 DEF Counting!Note_Awaited, NoteOutcome
    <3>4. CASE f.waiting /\ f.observed # NaturalLast
      <4>1. t = Counting!Note_Event(Counting!Observed(c))
        BY <2>1, <3>1, <3>4 DEF Counting!Note_Awaited
      <4>2. Counting!Observed(c) = d
        BY <1>4, <2>1, <3>4 DEF Counting!Observed, Counting!SetTop, Noted, NotedFrame, LastOf
      <4>3. ~Misplaced(c) /\ Countable(c.stack)
        BY <1>4, <2>5, <3>4 DEF Misplaced, Countable
      <4>. QED
        BY <2>2, <2>5, <3>4, <4>1, <4>2, <4>3
    <3>. QED
      BY <3>2, <3>3, <3>4
  <2>. QED
    BY <2>1, <2>3, <2>4, <2>5 DEF Kinds
<1>. QED
  BY <1>3, <1>4

\* Counting changes no nesting.
LEMMA NotedLength ==
  ASSUME NEW stack, SafeStack(stack)
  PROVE  Len(Noted(stack)) = Len(stack)
<1>1. CASE stack # <<>>
  <2>1. LastOf(stack) \in Frames
    BY <1>1, SafeTop
  <2>2. NotedFrame(LastOf(stack)) \in Frames
    BY <2>1, FrameSet DEF NotedFrame
  <2>. QED
    BY <1>1, <2>2, TopSet DEF SafeStack, Noted
<1>. QED
  BY <1>1 DEF Noted

\* Open_Container counts the container in its parent and opens a frame.
LEMMA CounterOpens ==
  ASSUME NEW c, IsCounting(c), NEW kind \in Kinds, NEW length \in Lengths,
         kind \in {"record", "variant"} => length.known
  PROVE  AdmitOutcome(c, Counting!Open_Container(c, kind, length), kind, length)
<1>. DEFINE t == Counting!Open_Container(c, kind, length)
            u == Counting!Note_Value(c, FALSE)
<1>1. IsCounter(c) /\ c.error = NoError /\ ~Latched(c) /\ SafeStack(c.stack)
  BY DEF IsCounting, IsCounter
<1>2. \A code : Refused(c, Counting!Reject(c, code), code)
  BY <1>1, CounterRejects
<1>3. NoteOutcome(c, u)
  BY CounterNotesValue
<1>. HIDE DEF u
<1>4. CASE Len(c.stack) = MaxSupportedNesting \/ Len(c.stack) >= Limits.nesting
  BY <1>1, <1>2, <1>4 DEF Counting!Open_Container, AdmitOutcome
<1>5. CASE /\ ~(Len(c.stack) = MaxSupportedNesting \/ Len(c.stack) >= Limits.nesting)
           /\ length.known /\ length.length > Limits.items
  BY <1>1, <1>2, <1>5 DEF Counting!Open_Container, AdmitOutcome
<1>6. CASE /\ ~(Len(c.stack) = MaxSupportedNesting \/ Len(c.stack) >= Limits.nesting)
           /\ ~(length.known /\ length.length > Limits.items)
  <2>1. t = IF Latched(u) THEN u ELSE Counting!PushFrame(u, Counting!Frame(kind, length))
    BY <1>1, <1>6 DEF Counting!Open_Container, u
  <2>2. CASE Latched(u)
    BY <1>3, <2>1, <2>2 DEF NoteOutcome, AdmitOutcome, Advanced, IsCounting
  <2>3. CASE ~Latched(u)
    <3>1. Advanced(c, u, Noted(c.stack)) /\ ~Misplaced(c) /\ Countable(c.stack)
      BY <1>3, <2>3 DEF NoteOutcome, Refused
    <3>. DEFINE f == Frame(kind, length)
                new == Append(Noted(c.stack), f)
    <3>2. t = [u EXCEPT !.stack = new]
      BY <2>1, <2>3, <3>1 DEF Counting!PushFrame, Counting!Frame, Frame, Advanced
    <3>3. Len(c.stack) \in Nat /\ Len(c.stack) < Limits.nesting
      BY <1>1, <1>6, LenProperties, LimitsAssumption DEF SafeStack
    <3>4. SafeStack(Noted(c.stack)) /\ Len(Noted(c.stack)) = Len(c.stack)
      <4>1. SafeStack(Noted(c.stack))
        BY <3>1 DEF Advanced, IsCounting, IsCounter
      <4>2. Len(Noted(c.stack)) = Len(c.stack)
        BY <1>1, SafeTop, NotedLength
      <4>. QED
        BY <4>1, <4>2
    <3>5. f \in Frames /\ Within(f)
      <4>1. /\ f.observed = 0 /\ f.known = length.known /\ f.expected = length.length
            /\ f.kind = kind /\ f.waiting = FALSE
        BY DEF Frame
      <4>2. length.length \in Nat /\ Limits.items \in Nat /\ NaturalLast \in Nat
        BY LimitsAssumption, NaturalAssumption DEF Lengths
      <4>3. f \in Frames
        BY FrameIsFrame
      <4>. HIDE DEF f
      <4>. QED
        BY <1>6, <4>1, <4>2, <4>3 DEF Within
    <3>6. SafeStack(new)
      BY <3>3, <3>4, <3>5, SafeAppended
    <3>. HIDE DEF new
    <3>7. Advanced(u, t, new)
      BY <3>1, <3>2, <3>6, CounterRestacked DEF Advanced
    <3>. QED
      BY <1>6, <3>1, <3>7 DEF Advanced, AdmitOutcome, new
  <2>. QED
    BY <2>2, <2>3
<1>. QED
  BY <1>4, <1>5, <1>6

\* Close_Container refuses what Pop refuses.
LEMMA CounterCloses ==
  ASSUME NEW c, IsCounting(c), NEW kind
  PROVE  LeaveOutcome(c, Counting!Close_Container(c, kind), kind)
<1>. DEFINE t == Counting!Close_Container(c, kind)
            d == [c EXCEPT !.stack = Popped(c.stack)]
            misplaced == c.stack = <<>> \/ Unclosable(LastOf(c.stack), kind)
<1>1. IsCounter(c) /\ c.error = NoError /\ ~Latched(c) /\ ~Closed(c) /\ SafeStack(c.stack)
  BY DEF IsCounting, IsCounter
<1>2. CASE misplaced
  <2>1. t = Counting!Reject(c, "Invalid_State")
    BY <1>1, <1>2 DEF Counting!Close_Container, Counting!Unclosable, Unclosable, Counting!Top,
      LastOf
  <2>. QED
    BY <1>1, <1>2, <2>1, CounterRejects DEF LeaveOutcome
<1>3. CASE ~misplaced
  <2>1. t = Counting!Note_Event(d)
    BY <1>1, <1>3 DEF Counting!Close_Container, Counting!Unclosable, Unclosable, Counting!Top,
      LastOf, Counting!PopFrame, Popped
  <2>2. Advanced(c, d, Popped(c.stack))
    BY <1>1, <1>3, SafePopped, CounterRestacked DEF IsCounter
  <2>. HIDE DEF d
  <2>3. Refused(d, t, "Capacity_Exceeded") \/ Advanced(d, t, d.stack)
    BY <2>1, <2>2, CounterNotes DEF Advanced
  <2>. QED
    BY <1>3, <2>2, <2>3 DEF Advanced, Refused, LeaveOutcome
<1>. QED
  BY <1>2, <1>3

\* Put_Field refuses what the writers refuse.
LEMMA CounterNames ==
  ASSUME NEW c, IsCounting(c), NEW name, name \notin {"invalid", "long"}
  PROVE  NameOutcome(c, Counting!Put_Field(c, name))
<1>. DEFINE t == Counting!Put_Field(c, name)
            f == LastOf(c.stack)
            g == [f EXCEPT !.waiting = TRUE]
            d == [c EXCEPT !.stack = Field(c.stack)]
            misplaced == c.stack = <<>> \/ ~TakesField(f)
<1>1. IsCounter(c) /\ c.error = NoError /\ ~Latched(c) /\ ~Closed(c) /\ SafeStack(c.stack)
  BY DEF IsCounting, IsCounter
<1>2. CASE misplaced
  <2>1. t = Counting!Reject(c, "Invalid_State")
    BY <1>1, <1>2 DEF Counting!Put_Field, Counting!WithTexts, Counting!TakesField, TakesField,
      Counting!Top, LastOf
  <2>. QED
    BY <1>1, <1>2, <2>1, CounterRejects DEF NameOutcome
<1>3. CASE ~misplaced
  <2>1. t = Counting!Note_Event(d)
    BY <1>1, <1>3 DEF Counting!Put_Field, Counting!WithTexts, Counting!TakesField, TakesField,
      Counting!Top, Counting!SetTop, LastOf, Field
  <2>2. f \in Frames /\ Within(f)
    BY <1>1, <1>3, SafeTop
  <2>3. f.observed \in Nat /\ f.expected \in Nat /\ f.known \in BOOLEAN
    BY <2>2, FrameFields
  <2>4. g \in Frames
    BY <2>2, FrameSet
  <2>5. /\ g.observed = f.observed /\ g.known = f.known /\ g.expected = f.expected
        /\ g.kind = f.kind /\ g.waiting = TRUE
    BY <2>2 DEF Frames
  <2>6. f.kind \in {"record", "variant"} /\ ~Full(f)
    BY <1>3 DEF TakesField
  <2>. HIDE DEF g
  <2>7. Within(g)
    BY <2>2, <2>3, <2>5, <2>6 DEF Within
  <2>8. SafeStack(Field(c.stack))
    BY <1>1, <1>3, <2>4, <2>7, SafeTopSet DEF Field, g
  <2>9. Advanced(c, d, Field(c.stack))
    BY <1>1, <1>3, <2>8, CounterRestacked DEF IsCounter
  <2>. HIDE DEF d
  <2>10. Refused(d, t, "Capacity_Exceeded") \/ Advanced(d, t, d.stack)
    BY <2>1, <2>9, CounterNotes DEF Advanced
  <2>. QED
    BY <1>3, <2>9, <2>10 DEF Advanced, Refused, NameOutcome
<1>. QED
  BY <1>2, <1>3

CounterOutcome(b, c, t, e) ==
  IF c.finalized THEN Refused(c, t, "Invalid_State")
  ELSE IF Spoiled(e) THEN Refused(c, t, "Invalid_Text")
  ELSE IF Unwritable(b, e) THEN Refused(c, t, "Unsupported_Value")
  ELSE \/ Refused(c, t, "Invalid_Text") \/ Refused(c, t, "Capacity_Exceeded")
       \/ /\ e.op \in Values => NoteOutcome(c, t)
          /\ e.op \in Begins => AdmitOutcome(c, t, KindOf(e), LengthOf(e))
          /\ e.op \in Ends => LeaveOutcome(c, t, KindOf(e))
          /\ e.op = "Put_Field" => NameOutcome(c, t)

\* The dispatch of an event to the Counter.
LEMMA CounterDispatch ==
  ASSUME NEW s, NEW e
  PROVE  /\ e.op = "Put_Scalar" => Counting!Event(s, e) = Counting!Put_Scalar(s)
         /\ e.op = "Put_Float_64" => Counting!Event(s, e) = Counting!Put_Float_64(s, e.value)
         /\ e.op = "Put_Text" => Counting!Event(s, e) = Counting!Put_Text(s, e.text)
         /\ e.op = "Put_Bytes" => Counting!Event(s, e) = Counting!Put_Bytes(s, e.text)
         /\ e.op = "Put_Enumeration" => Counting!Event(s, e) = Counting!Put_Enumeration(s, e.name, e.text)
         /\ e.op = "Put_Field" => Counting!Event(s, e) = Counting!Put_Field(s, e.text)
         /\ e.op = "Begin_Optional" => Counting!Event(s, e) = Counting!Begin_Optional(s, e.present)
         /\ e.op = "Begin_Sequence" => Counting!Event(s, e) = Counting!Begin_Sequence(s, e.length)
         /\ e.op = "Begin_Map" => Counting!Event(s, e) = Counting!Begin_Map(s, e.length)
         /\ e.op = "Begin_Record" => Counting!Event(s, e) = Counting!Begin_Record(s, e.name, e.count)
         /\ e.op = "Begin_Variant" => Counting!Event(s, e) = Counting!Begin_Variant(s, e.name, e.text, e.count)
         /\ e.op = "End_Optional" => Counting!Event(s, e) = Counting!End_Optional(s)
         /\ e.op = "End_Sequence" => Counting!Event(s, e) = Counting!End_Sequence(s)
         /\ e.op = "End_Map" => Counting!Event(s, e) = Counting!End_Map(s)
         /\ e.op = "End_Record" => Counting!Event(s, e) = Counting!End_Record(s)
         /\ e.op = "End_Variant" => Counting!Event(s, e) = Counting!End_Variant(s)
  BY Zenon DEF Counting!Event

\* A Counter that has finished or refused takes no event.
LEMMA CounterDeclines ==
  ASSUME NEW c, IsCounter(c), Latched(c) \/ Closed(c), NEW e \in AnyEvents
  PROVE  Counting!Event(c, e) = LatchCode(c, "Invalid_State")
<1>. DEFINE t == Counting!Event(c, e)
            r == LatchCode(c, "Invalid_State")
<1>. SUFFICES t = r
  OBVIOUS
<1>1. Latched(c) => r = c
  BY DEF IsCounter, CounterParts
<1>2. /\ \A isText : Counting!Note_Value(c, isText) = r
      /\ \A texts, then : Counting!WithTexts(c, texts, then) = r
      /\ \A capable, then : Counting!WithCapability(c, capable, then) = r
      /\ \A kind : Counting!Close_Container(c, kind) = r
  BY <1>1 DEF Counting!Note_Value, Counting!WithTexts, Counting!WithCapability,
    Counting!Close_Container
<1>. HIDE DEF r
<1>3. /\ Counting!Put_Scalar(c) = r
      /\ Counting!Put_Float_64(c, e.value) = r
      /\ Counting!Put_Text(c, e.text) = r
      /\ Counting!Put_Bytes(c, e.text) = r
      /\ Counting!Put_Enumeration(c, e.name, e.text) = r
      /\ Counting!Put_Field(c, e.text) = r
  BY <1>2 DEF Counting!Put_Scalar, Counting!Put_Float_64, Counting!Put_Text,
    Counting!Put_Bytes, Counting!Put_Enumeration, Counting!Put_Field
<1>4. /\ Counting!Begin_Optional(c, e.present) = r
      /\ Counting!Begin_Sequence(c, e.length) = r
      /\ Counting!Begin_Map(c, e.length) = r
      /\ Counting!Begin_Record(c, e.name, e.count) = r
      /\ Counting!Begin_Variant(c, e.name, e.text, e.count) = r
  BY <1>2 DEF Counting!Begin_Optional, Counting!Begin_Sequence, Counting!Begin_Map,
    Counting!Begin_Record, Counting!Begin_Variant
<1>5. /\ Counting!End_Optional(c) = r /\ Counting!End_Sequence(c) = r
      /\ Counting!End_Map(c) = r /\ Counting!End_Record(c) = r /\ Counting!End_Variant(c) = r
  BY <1>2 DEF Counting!End_Optional, Counting!End_Sequence, Counting!End_Map,
    Counting!End_Record, Counting!End_Variant
<1>. QED
  BY <1>3, <1>4, <1>5, CounterDispatch, EventShape DEF Values, Begins, Ends

\* Which capability or limit each event is held against.
LEMMA CounterEvent ==
  ASSUME NEW b \in Backend, NEW c, IsCounter(c), c.error = NoError, ~c.failed,
         c.profile = Capabilities(b), NEW e \in AnyEvents
  PROVE  CounterOutcome(b, c, Counting!Event(c, e), e)
<1>. DEFINE t == Counting!Event(c, e)
<1>1. /\ c.profile.unknown_container_lengths /\ c.profile.byte_values
      /\ c.profile.signed_float_zero /\ c.profile.arbitrary_map_keys
      /\ c.profile.lossless_optionals
      /\ ~c.profile.nonfinite_float_64 <=> b = "json"
  BY DEF Backend, Capabilities, Json!Capabilities, Cbor!Capabilities
<1>2. ~Latched(c) /\ \A code : Refused(c, Counting!Reject(c, code), code)
  BY CounterRejects
<1>3. CASE c.finalized
  <2>. DEFINE r == LatchCode(c, "Invalid_State")
  <2>1. t = r
    <3>1. Latched(c) \/ Closed(c)
      BY <1>3
    <3>. QED
      BY <3>1, CounterDeclines
  <2>2. /\ r = [i \in CounterParts |-> r[i]]
        /\ r.stack = c.stack /\ r.events = c.events /\ r.root_written = c.root_written
        /\ r.failed = c.failed /\ r.finalized = c.finalized /\ r.profile = c.profile
        /\ r.error = "Invalid_State"
    BY DEF IsCounter, CounterParts
  <2>. HIDE DEF r, t
  <2>3. Refused(c, t, "Invalid_State")
    BY <2>1, <2>2 DEF Refused, IsCounter
  <2>. QED
    BY <1>3, <2>3 DEF CounterOutcome, t
<1>4. CASE ~c.finalized
  <2>1. IsCounting(c) /\ ~Closed(c)
    BY <1>1, <1>4 DEF IsCounting
  <2>2. \A isText : NoteOutcome(c, Counting!Note_Value(c, isText))
    BY <2>1, CounterNotesValue
  <2>3. \A kind \in Kinds, length \in Lengths :
          (kind \in {"record", "variant"} => length.known) =>
            AdmitOutcome(c, Counting!Open_Container(c, kind, length), kind, length)
    BY <2>1, CounterOpens
  <2>4. \A kind : LeaveOutcome(c, Counting!Close_Container(c, kind), kind)
    BY <2>1, CounterCloses
  <2>5. \A texts, then :
          /\ "invalid" \in texts => Refused(c, Counting!WithTexts(c, texts, then), "Invalid_Text")
          /\ "invalid" \notin texts =>
               \/ Refused(c, Counting!WithTexts(c, texts, then), "Capacity_Exceeded")
               \/ Counting!WithTexts(c, texts, then) = then /\ "long" \notin texts
    BY <1>2, <2>1 DEF Counting!WithTexts
  <2>6. \A then : Counting!WithCapability(c, TRUE, then) = then
    BY <1>2, <2>1 DEF Counting!WithCapability
  <2>7. CASE Spoiled(e)
    <3>1. /\ Refused(c, Counting!Put_Text(c, e.text), "Invalid_Text")
          /\ Refused(c, Counting!Put_Field(c, e.text), "Invalid_Text")
          /\ Refused(c, Counting!Put_Enumeration(c, e.name, e.text), "Invalid_Text")
          /\ Refused(c, Counting!Begin_Variant(c, e.name, e.text, e.count), "Invalid_Text")
      <4>1. "invalid" \in {e.text} /\ "invalid" \in {e.name, e.text}
        BY <2>7 DEF Spoiled
      <4>. QED
        BY <2>5, <4>1 DEF Counting!Put_Text, Counting!Put_Field, Counting!Put_Enumeration,
          Counting!Begin_Variant
    <3>. QED
      BY <1>4, <2>7, <3>1, CounterDispatch DEF Spoiled, Written, CounterOutcome
  <2>8. CASE ~Spoiled(e) /\ Unwritable(b, e)
    <3>1. Refused(c, Counting!Put_Float_64(c, e.value), "Unsupported_Value")
      BY <1>1, <1>2, <2>1, <2>8 DEF Unwritable, Counting!Put_Float_64, Counting!WithCapability
    <3>. QED
      BY <1>4, <2>8, <3>1, CounterDispatch DEF Unwritable, CounterOutcome
  <2>. DEFINE good == ~Spoiled(e) /\ ~Unwritable(b, e)
              early == Refused(c, t, "Invalid_Text") \/ Refused(c, t, "Capacity_Exceeded")
  <2>9. ASSUME good, e.op \in Values
        PROVE  early \/ NoteOutcome(c, t)
    <3>1. NoteOutcome(c, Counting!Put_Scalar(c))
      BY <2>2 DEF Counting!Put_Scalar
    <3>2. e.op = "Put_Float_64" => NoteOutcome(c, Counting!Put_Float_64(c, e.value))
      BY <1>1, <1>2, <2>1, <2>2, <2>9 DEF Counting!Put_Float_64, Counting!WithCapability, Unwritable,
        Backend
    <3>3. \/ Refused(c, Counting!Put_Text(c, e.text), "Invalid_Text")
          \/ Refused(c, Counting!Put_Text(c, e.text), "Capacity_Exceeded")
          \/ NoteOutcome(c, Counting!Put_Text(c, e.text))
      BY <2>2, <2>5 DEF Counting!Put_Text
    <3>4. \/ Refused(c, Counting!Put_Bytes(c, e.text), "Capacity_Exceeded")
          \/ NoteOutcome(c, Counting!Put_Bytes(c, e.text))
      BY <1>1, <1>2, <2>1, <2>2 DEF Counting!Put_Bytes, Counting!WithCapability
    <3>5. \/ Refused(c, Counting!Put_Enumeration(c, e.name, e.text), "Invalid_Text")
          \/ Refused(c, Counting!Put_Enumeration(c, e.name, e.text), "Capacity_Exceeded")
          \/ NoteOutcome(c, Counting!Put_Enumeration(c, e.name, e.text))
      BY <2>2, <2>5 DEF Counting!Put_Enumeration
    <3>. QED
      BY <2>9, <3>1, <3>2, <3>3, <3>4, <3>5, CounterDispatch DEF Values
  <2>10. ASSUME good, e.op \in Begins
         PROVE  early \/ AdmitOutcome(c, t, KindOf(e), LengthOf(e))
    <3>. DEFINE opened == Counting!Open_Container(c, KindOf(e), LengthOf(e))
    <3>1. AdmitOutcome(c, opened, KindOf(e), LengthOf(e))
      <4>1. KindOf(e) \in Kinds /\ LengthOf(e) \in Lengths
        BY <2>10, EventShape
      <4>2. KindOf(e) \in {"record", "variant"} => LengthOf(e).known
        BY <2>10 DEF Begins, KindOf, LengthOf, Known_Length
      <4>. QED
        BY <2>3, <4>1, <4>2
    <3>2. e.op = "Begin_Optional" => t = opened
      <4>1. Counting!Begin_Optional(c, e.present) =
              Counting!Open_Container(c, "optional", Known_Length(IF e.present THEN 1 ELSE 0))
        BY <1>1, <1>2, <2>1 DEF Counting!Begin_Optional, Counting!WithCapability, Counting!Known_Length,
          Known_Length
      <4>. QED
        BY <4>1, CounterDispatch DEF KindOf, LengthOf
    <3>3. e.op = "Begin_Sequence" => t = opened
      <4>1. Counting!Begin_Sequence(c, e.length) = Counting!Open_Container(c, "sequence", e.length)
        BY <1>1, <1>2, <2>1 DEF Counting!Begin_Sequence, Counting!WithCapability
      <4>. QED
        BY <4>1, CounterDispatch DEF KindOf, LengthOf
    <3>4. e.op = "Begin_Map" => t = opened
      <4>1. Counting!Begin_Map(c, e.length) = Counting!Open_Container(c, "map", e.length)
        BY <1>1, <1>2, <2>1 DEF Counting!Begin_Map, Counting!WithCapability
      <4>. QED
        BY <4>1, CounterDispatch DEF KindOf, LengthOf
    <3>5. e.op = "Begin_Record" => t = opened \/ early
      <4>1. \/ Refused(c, Counting!Begin_Record(c, e.name, e.count), "Invalid_Text")
            \/ Refused(c, Counting!Begin_Record(c, e.name, e.count), "Capacity_Exceeded")
            \/ Counting!Begin_Record(c, e.name, e.count) =
                 Counting!Open_Container(c, "record", Known_Length(e.count))
        BY <2>5 DEF Counting!Begin_Record, Counting!Known_Length, Known_Length
      <4>. QED
        BY <4>1, CounterDispatch DEF KindOf, LengthOf
    <3>6. e.op = "Begin_Variant" => t = opened \/ early
      <4>1. \/ Refused(c, Counting!Begin_Variant(c, e.name, e.text, e.count), "Invalid_Text")
            \/ Refused(c, Counting!Begin_Variant(c, e.name, e.text, e.count), "Capacity_Exceeded")
            \/ Counting!Begin_Variant(c, e.name, e.text, e.count) =
                 Counting!Open_Container(c, "variant", Known_Length(e.count))
        BY <2>5 DEF Counting!Begin_Variant, Counting!Known_Length, Known_Length
      <4>. QED
        BY <4>1, CounterDispatch DEF KindOf, LengthOf
    <3>. QED
      BY <2>10, <3>1, <3>2, <3>3, <3>4, <3>5, <3>6 DEF Begins
  <2>11. ASSUME good, e.op \in Ends
         PROVE  LeaveOutcome(c, t, KindOf(e))
    <3>1. /\ LeaveOutcome(c, Counting!End_Optional(c), "optional")
          /\ LeaveOutcome(c, Counting!End_Sequence(c), "sequence")
          /\ LeaveOutcome(c, Counting!End_Map(c), "map")
          /\ LeaveOutcome(c, Counting!End_Record(c), "record")
          /\ LeaveOutcome(c, Counting!End_Variant(c), "variant")
      BY <2>4 DEF Counting!End_Optional, Counting!End_Sequence, Counting!End_Map,
        Counting!End_Record, Counting!End_Variant
    <3>. QED
      BY <2>11, <3>1, CounterDispatch DEF Ends, KindOf
  <2>12. ASSUME good, e.op = "Put_Field"
         PROVE  early \/ NameOutcome(c, t)
    <3>1. CASE e.text \in {"invalid", "long"}
      <4>1. \/ Refused(c, Counting!Put_Field(c, e.text), "Invalid_Text")
            \/ Refused(c, Counting!Put_Field(c, e.text), "Capacity_Exceeded")
        BY <2>5, <3>1 DEF Counting!Put_Field
      <4>. QED
        BY <2>12, <4>1, CounterDispatch
    <3>2. CASE e.text \notin {"invalid", "long"}
      BY <2>1, <2>12, <3>2, CounterNames, CounterDispatch
    <3>. QED
      BY <3>1, <3>2
  <2>. HIDE DEF t
  <2>13. ASSUME good
         PROVE  CounterOutcome(b, c, t, e)
    BY <1>4, <2>9, <2>10, <2>11, <2>12, <2>13, EventShape DEF CounterOutcome, Values, Begins, Ends
  <2>. QED
    BY <2>7, <2>8, <2>13 DEF t
<1>. QED
  BY <1>3, <1>4

-----------------------------------------------------------------------------
(* The two stacks, frame by frame. *)

\* `c` is the Counter's frame where `w` is the writer's; `inner` if it has an open child.
Matches(c, w, inner) ==
  LET key == inner /\ w.kind = "map" /\ ~w.child_is_value IN
  /\ c.kind = w.kind /\ c.known = w.known /\ c.expected = w.expected
  /\ c.observed = IF inner /\ ~key THEN w.observed + 1 ELSE w.observed
  /\ c.waiting = IF inner THEN key ELSE w.waiting

Tracks(cs, ws) ==
  /\ Len(cs) = Len(ws)
  /\ \A i \in 1..Len(ws) : Matches(cs[i], ws[i], i < Len(ws))

EnteredFrame(f) == IF f.kind = "map" THEN [f EXCEPT !.child_is_value = f.waiting] ELSE f

CompletedFrame(f) ==
  IF CompletesKey(f) THEN [f EXCEPT !.waiting = TRUE]
  ELSE [f EXCEPT !.waiting = FALSE, !.observed = @ + 1]

\* What the events do to the two frames keeps them matched: a value is counted, a child is
\* opened, a child is closed, a field is named.
LEMMA FrameFacts ==
  ASSUME NEW f \in Frames
  PROVE  /\ EnteredFrame(f) \in Frames /\ CompletedFrame(f) \in Frames /\ NotedFrame(f) \in Frames
         /\ [f EXCEPT !.waiting = TRUE] \in Frames
  BY FrameSet, FrameFields DEF EnteredFrame, CompletedFrame, NotedFrame

\* Matched frames stay matched, whatever happens to both.
LEMMA FramesMatch ==
  ASSUME NEW c \in Frames, NEW w \in Frames
  PROVE  /\ Matches(c, w, FALSE) =>
              /\ Matches(NotedFrame(c), CompletedFrame(EnteredFrame(w)), FALSE)
              /\ Matches(NotedFrame(c), EnteredFrame(w), TRUE)
              /\ Matches([c EXCEPT !.waiting = TRUE], [w EXCEPT !.waiting = TRUE], FALSE)
         /\ Matches(c, w, TRUE) => Matches(c, CompletedFrame(w), FALSE)
<1>. USE DEF Matches
<1>1. Matches(c, w, FALSE) =>
        Matches([c EXCEPT !.waiting = TRUE], [w EXCEPT !.waiting = TRUE], FALSE)
  BY DEF Frames
<1>2. Matches(c, w, TRUE) => Matches(c, CompletedFrame(w), FALSE)
  BY DEF Frames, CompletedFrame, CompletesKey
<1>3. Matches(c, w, FALSE) => Matches(NotedFrame(c), EnteredFrame(w), TRUE)
  BY DEF Frames, NotedFrame, EnteredFrame
<1>4. Matches(NotedFrame(c), EnteredFrame(w), TRUE) =>
        Matches(NotedFrame(c), CompletedFrame(EnteredFrame(w)), FALSE)
  <2>1. EnteredFrame(w) \in Frames /\ NotedFrame(c) \in Frames
    BY FrameFacts
  <2>. QED
    BY <2>1 DEF Frames, CompletedFrame, CompletesKey
<1>. QED
  BY <1>1, <1>2, <1>3, <1>4

\* The operators on stacks change the innermost frame only.
LEMMA TopChanges ==
  ASSUME NEW stack \in Seq(Frames), stack # <<>>
  PROVE  /\ Entered(stack) \in Seq(Frames) /\ Len(Entered(stack)) = Len(stack)
         /\ LastOf(Entered(stack)) = EnteredFrame(LastOf(stack))
         /\ Completed(stack) \in Seq(Frames) /\ Len(Completed(stack)) = Len(stack)
         /\ LastOf(Completed(stack)) = CompletedFrame(LastOf(stack))
         /\ Noted(stack) \in Seq(Frames) /\ Len(Noted(stack)) = Len(stack)
         /\ LastOf(Noted(stack)) = NotedFrame(LastOf(stack))
         /\ Field(stack) \in Seq(Frames) /\ Len(Field(stack)) = Len(stack)
         /\ LastOf(Field(stack)) = [LastOf(stack) EXCEPT !.waiting = TRUE]
         /\ \A i \in 1..Len(stack) : i # Len(stack) =>
              /\ Entered(stack)[i] = stack[i] /\ Completed(stack)[i] = stack[i]
              /\ Noted(stack)[i] = stack[i] /\ Field(stack)[i] = stack[i]
<1>. DEFINE f == LastOf(stack)
<1>1. /\ f \in Frames /\ EnteredFrame(f) \in Frames /\ CompletedFrame(f) \in Frames
      /\ NotedFrame(f) \in Frames /\ [f EXCEPT !.waiting = TRUE] \in Frames
  BY TopIsFrame, FrameFacts
<1>2. /\ Entered(stack) \in Seq(Frames) /\ Len(Entered(stack)) = Len(stack)
      /\ LastOf(Entered(stack)) = EnteredFrame(f)
      /\ \A i \in 1..Len(stack) : i # Len(stack) => Entered(stack)[i] = stack[i]
  <2>1. CASE f.kind = "map"
    BY <1>1, <2>1, TopSet DEF Entered, EnteredFrame
  <2>2. CASE f.kind # "map"
    BY <2>2 DEF Entered, EnteredFrame
  <2>. QED
    BY <2>1, <2>2
<1>3. /\ Completed(stack) \in Seq(Frames) /\ Len(Completed(stack)) = Len(stack)
      /\ LastOf(Completed(stack)) = CompletedFrame(f)
      /\ \A i \in 1..Len(stack) : i # Len(stack) => Completed(stack)[i] = stack[i]
  <2>1. Completed(stack) = [stack EXCEPT ![Len(stack)] = CompletedFrame(f)]
    BY DEF Completed, CompletedFrame
  <2>. QED
    BY <1>1, <2>1, TopSet
<1>4. /\ Noted(stack) \in Seq(Frames) /\ Len(Noted(stack)) = Len(stack)
      /\ LastOf(Noted(stack)) = NotedFrame(f)
      /\ \A i \in 1..Len(stack) : i # Len(stack) => Noted(stack)[i] = stack[i]
  BY <1>1, TopSet DEF Noted
<1>5. /\ Field(stack) \in Seq(Frames) /\ Len(Field(stack)) = Len(stack)
      /\ LastOf(Field(stack)) = [f EXCEPT !.waiting = TRUE]
      /\ \A i \in 1..Len(stack) : i # Len(stack) => Field(stack)[i] = stack[i]
  BY <1>1, TopSet DEF Field
<1>. QED
  BY <1>2, <1>3, <1>4, <1>5

\* Two stacks that differ from tracked ones in matching innermost frames are tracked.
LEMMA TopsTracked ==
  ASSUME NEW cs \in Seq(Frames), NEW ws \in Seq(Frames), Tracks(cs, ws), ws # <<>>,
         NEW cs1 \in Seq(Frames), NEW ws1 \in Seq(Frames),
         Len(cs1) = Len(cs), Len(ws1) = Len(ws),
         \A i \in 1..Len(cs) : i # Len(cs) => cs1[i] = cs[i],
         \A i \in 1..Len(ws) : i # Len(ws) => ws1[i] = ws[i],
         Matches(LastOf(cs1), LastOf(ws1), FALSE)
  PROVE  Tracks(cs1, ws1)
<1>1. Len(ws) \in Nat \ {0} /\ Len(cs) = Len(ws)
  BY TopIsFrame DEF Tracks
<1>2. ASSUME NEW i \in 1..Len(ws1)
      PROVE  Matches(cs1[i], ws1[i], i < Len(ws1))
  <2>1. CASE i = Len(ws)
    <3>1. (i < Len(ws1)) = FALSE /\ Len(cs1) = i /\ Len(ws1) = i
      BY <1>1, <2>1
    <3>. QED
      BY <3>1 DEF LastOf
  <2>2. CASE i # Len(ws)
    BY <1>1, <2>2 DEF Tracks
  <2>. QED
    BY <2>1, <2>2
<1>. QED
  BY <1>1, <1>2 DEF Tracks

\* Tracked stacks are empty together, and their innermost frames match.
LEMMA TracksFacts ==
  ASSUME NEW cs \in Seq(Frames), NEW ws \in Seq(Frames), Tracks(cs, ws)
  PROVE  /\ cs = <<>> <=> ws = <<>>
         /\ ws # <<>> => /\ LastOf(cs) \in Frames /\ LastOf(ws) \in Frames
                         /\ Matches(LastOf(cs), LastOf(ws), FALSE)
<1>1. cs = <<>> <=> ws = <<>>
  BY EmptySeq, LenProperties DEF Tracks
<1>2. ASSUME ws # <<>>
      PROVE  /\ LastOf(cs) \in Frames /\ LastOf(ws) \in Frames
             /\ Matches(LastOf(cs), LastOf(ws), FALSE)
  <2>1. Len(ws) \in 1..Len(ws) /\ Len(ws) \in Nat \ {0} /\ Len(cs) = Len(ws)
    BY <1>2, TopIsFrame DEF Tracks
  <2>2. Matches(cs[Len(ws)], ws[Len(ws)], Len(ws) < Len(ws))
    BY <2>1 DEF Tracks
  <2>3. (Len(ws) < Len(ws)) = FALSE
    BY <2>1
  <2>. QED
    BY <1>1, <1>2, <2>1, <2>2, <2>3, TopIsFrame DEF LastOf
<1>. QED
  BY <1>1, <1>2

\* A value: counted by the Counter at once, by the writer when it is complete.
LEMMA TracksValue ==
  ASSUME NEW cs \in Seq(Frames), NEW ws \in Seq(Frames), Tracks(cs, ws)
  PROVE  Tracks(Noted(cs), Completed(Entered(ws)))
<1>1. CASE ws = <<>>
  BY <1>1, TracksFacts DEF Noted, Completed, Entered
<1>2. CASE ws # <<>>
  <2>. DEFINE es == Entered(ws)
  <2>1. cs # <<>> /\ LastOf(cs) \in Frames /\ LastOf(ws) \in Frames
        /\ Matches(LastOf(cs), LastOf(ws), FALSE)
    BY <1>2, TracksFacts
  <2>2. /\ es \in Seq(Frames) /\ Len(es) = Len(ws) /\ LastOf(es) = EnteredFrame(LastOf(ws))
        /\ \A i \in 1..Len(ws) : i # Len(ws) => es[i] = ws[i]
    BY <1>2, TopChanges
  <2>3. /\ Noted(cs) \in Seq(Frames) /\ Len(Noted(cs)) = Len(cs)
        /\ LastOf(Noted(cs)) = NotedFrame(LastOf(cs))
        /\ \A i \in 1..Len(cs) : i # Len(cs) => Noted(cs)[i] = cs[i]
    BY <2>1, TopChanges
  <2>. HIDE DEF es
  <2>4. es # <<>>
    BY <1>2, <2>2, EmptySeq, LenProperties
  <2>5. /\ Completed(es) \in Seq(Frames) /\ Len(Completed(es)) = Len(es)
        /\ LastOf(Completed(es)) = CompletedFrame(LastOf(es))
        /\ \A i \in 1..Len(es) : i # Len(es) => Completed(es)[i] = es[i]
    BY <2>2, <2>4, TopChanges
  <2>6. Matches(LastOf(Noted(cs)), LastOf(Completed(es)), FALSE)
    BY <2>1, <2>2, <2>3, <2>5, FramesMatch
  <2>7. \A i \in 1..Len(ws) : i # Len(ws) => Completed(es)[i] = ws[i]
    BY <2>2, <2>5
  <2>8. Tracks(Noted(cs), Completed(es))
    BY <1>2, <2>2, <2>3, <2>5, <2>6, <2>7, TopsTracked
  <2>. QED
    BY <2>8 DEF es
<1>. QED
  BY <1>1, <1>2

\* A field is named.
LEMMA TracksField ==
  ASSUME NEW cs \in Seq(Frames), NEW ws \in Seq(Frames), Tracks(cs, ws), ws # <<>>
  PROVE  Tracks(Field(cs), Field(ws))
<1>1. cs # <<>> /\ LastOf(cs) \in Frames /\ LastOf(ws) \in Frames
      /\ Matches(LastOf(cs), LastOf(ws), FALSE)
  BY TracksFacts
<1>2. Matches([LastOf(cs) EXCEPT !.waiting = TRUE], [LastOf(ws) EXCEPT !.waiting = TRUE], FALSE)
  BY <1>1, FramesMatch
<1>3. /\ Field(cs) \in Seq(Frames) /\ Len(Field(cs)) = Len(cs)
      /\ LastOf(Field(cs)) = [LastOf(cs) EXCEPT !.waiting = TRUE]
      /\ \A i \in 1..Len(cs) : i # Len(cs) => Field(cs)[i] = cs[i]
  BY <1>1, TopChanges
<1>4. /\ Field(ws) \in Seq(Frames) /\ Len(Field(ws)) = Len(ws)
      /\ LastOf(Field(ws)) = [LastOf(ws) EXCEPT !.waiting = TRUE]
      /\ \A i \in 1..Len(ws) : i # Len(ws) => Field(ws)[i] = ws[i]
  BY TopChanges
<1>. QED
  BY <1>2, <1>3, <1>4, TopsTracked

\* A container: counted in its parent by the Counter only.
LEMMA TracksOpen ==
  ASSUME NEW cs \in Seq(Frames), NEW ws \in Seq(Frames), Tracks(cs, ws), NEW f \in Frames,
         Matches(f, f, FALSE)
  PROVE  Tracks(Append(Noted(cs), f), Append(Entered(ws), f))
<1>. DEFINE ns == Noted(cs)
            es == Entered(ws)
<1>1. /\ Len(cs) = Len(ws) /\ Len(ws) \in Nat /\ (ws # <<>> => Len(ws) # 0)
      /\ ns \in Seq(Frames) /\ Len(ns) = Len(ws) /\ es \in Seq(Frames) /\ Len(es) = Len(ws)
  <2>1. CASE ws = <<>>
    BY <2>1, TracksFacts, EmptySeq DEF Tracks, Noted, Entered
  <2>2. CASE ws # <<>>
    BY <2>2, TracksFacts, TopChanges, EmptySeq, LenProperties DEF Tracks
  <2>. QED
    BY <2>1, <2>2
<1>2. ASSUME NEW i \in 1..Len(ws)
      PROVE  Matches(ns[i], es[i], TRUE)
  <2>1. ws # <<>> /\ cs # <<>>
    BY <1>1, TracksFacts, EmptySeq
  <2>2. CASE i = Len(ws)
    <3>1. /\ ns[i] = NotedFrame(LastOf(cs)) /\ es[i] = EnteredFrame(LastOf(ws))
      BY <1>1, <2>1, <2>2, TopChanges DEF LastOf
    <3>2. /\ LastOf(cs) \in Frames /\ LastOf(ws) \in Frames
          /\ Matches(LastOf(cs), LastOf(ws), FALSE)
      BY <2>1, TracksFacts
    <3>. QED
      BY <3>1, <3>2, FramesMatch
  <2>3. CASE i # Len(ws)
    <3>1. ns[i] = cs[i] /\ es[i] = ws[i]
      BY <1>1, <2>1, <2>3, TopChanges
    <3>2. i < Len(ws)
      BY <1>1, <2>3
    <3>. QED
      BY <3>1, <3>2 DEF Tracks
  <2>. QED
    BY <2>2, <2>3
<1>. HIDE DEF ns, es
<1>. DEFINE ns1 == Append(ns, f)
            es1 == Append(es, f)
<1>3. /\ Len(ns1) = Len(ws) + 1 /\ Len(es1) = Len(ws) + 1
      /\ ns1[Len(ws) + 1] = f /\ es1[Len(ws) + 1] = f
      /\ \A i \in 1..Len(ws) : ns1[i] = ns[i] /\ es1[i] = es[i]
  BY <1>1, AppendProperties
<1>. HIDE DEF ns1, es1
<1>4. ASSUME NEW i \in 1..Len(es1)
      PROVE  Matches(ns1[i], es1[i], i < Len(es1))
  <2>1. CASE i = Len(ws) + 1
    <3>1. (i < Len(es1)) = FALSE /\ ns1[i] = f /\ es1[i] = f
      BY <1>1, <1>3, <2>1
    <3>. QED
      BY <3>1
  <2>2. CASE i # Len(ws) + 1
    <3>1. i \in 1..Len(ws) /\ (i < Len(es1)) = TRUE
      BY <1>1, <1>3, <2>2
    <3>. QED
      BY <1>2, <1>3, <3>1
  <2>. QED
    BY <2>1, <2>2
<1>5. Tracks(ns1, es1)
  BY <1>3, <1>4 DEF Tracks
<1>. QED
  BY <1>5 DEF ns, es, ns1, es1

\* It is closed: the writer counts it now.
LEMMA TracksClose ==
  ASSUME NEW cs \in Seq(Frames), NEW ws \in Seq(Frames), Tracks(cs, ws), ws # <<>>
  PROVE  Tracks(Popped(cs), Completed(Popped(ws)))
<1>. DEFINE cp == Popped(cs)
            wp == Popped(ws)
<1>1. /\ cs # <<>> /\ Len(cs) = Len(ws) /\ Len(ws) \in Nat \ {0}
      /\ cp \in Seq(Frames) /\ Len(cp) = Len(ws) - 1
      /\ wp \in Seq(Frames) /\ Len(wp) = Len(ws) - 1
      /\ \A i \in 1..(Len(ws) - 1) : cp[i] = cs[i] /\ wp[i] = ws[i]
  BY TracksFacts, PoppedIsStack, TopIsFrame DEF Tracks
<1>. HIDE DEF cp, wp
<1>2. CASE wp = <<>>
  <2>1. cp = <<>> /\ Completed(wp) = <<>> /\ Len(wp) = 0
    BY <1>1, <1>2, EmptySeq DEF Completed
  <2>2. Tracks(cp, Completed(wp))
    BY <1>2, <2>1 DEF Tracks
  <2>. QED
    BY <2>2 DEF cp, wp
<1>3. CASE wp # <<>>
  <2>. DEFINE n == Len(wp)
              ts == Completed(wp)
  <2>1. /\ ts \in Seq(Frames) /\ Len(ts) = n /\ ts[n] = CompletedFrame(wp[n])
        /\ \A i \in 1..n : i # n => ts[i] = wp[i]
    BY <1>1, <1>3, TopChanges DEF LastOf
  <2>2. n \in Nat \ {0} /\ n < Len(ws) /\ n \in 1..Len(ws) /\ Len(cp) = n
    BY <1>1, <1>3, TopIsFrame
  <2>3. ASSUME NEW i \in 1..n
        PROVE  Matches(cs[i], ws[i], TRUE) /\ cs[i] \in Frames /\ ws[i] \in Frames
               /\ cp[i] = cs[i] /\ wp[i] = ws[i]
    <3>1. i \in 1..Len(ws) /\ (i < Len(ws)) = TRUE /\ i \in 1..(Len(ws) - 1)
      BY <1>1, <2>2
    <3>. QED
      BY <1>1, <3>1, ElementOfSeq DEF Tracks
  <2>. HIDE DEF ts, n
  <2>4. ASSUME NEW i \in 1..n
        PROVE  Matches(cp[i], ts[i], i < n)
    <3>1. CASE i = n
      <4>1. Matches(cp[n], ts[n], FALSE)
        <5>1. n \in 1..n
          BY <2>2
        <5>2. Matches(cs[n], ws[n], TRUE) /\ cs[n] \in Frames /\ ws[n] \in Frames
          BY <2>3, <5>1
        <5>3. cp[n] = cs[n] /\ ts[n] = CompletedFrame(ws[n])
          BY <2>1, <2>3, <5>1
        <5>. QED
          BY <5>2, <5>3, FramesMatch
      <4>2. (n < n) = FALSE
        BY <2>2
      <4>. QED
        BY <3>1, <4>1, <4>2
    <3>2. CASE i # n
      <4>1. (i < n) = TRUE
        BY <2>2, <3>2
      <4>. QED
        BY <2>1, <2>3, <3>2, <4>1
    <3>. QED
      BY <3>1, <3>2
  <2>5. Tracks(cp, ts)
    BY <2>1, <2>2, <2>4 DEF Tracks
  <2>. QED
    BY <2>5 DEF cp, wp, ts
<1>. QED
  BY <1>2, <1>3

\* What the two look at is the same.
LEMMA FramesAlike ==
  ASSUME NEW cs, SafeStack(cs), NEW ws \in Seq(Frames), Tracks(cs, ws), ws # <<>>
  PROVE  LET c == LastOf(cs)
             w == LastOf(ws)
         IN  /\ cs # <<>> /\ Full(c) = Full(w) /\ c.waiting = w.waiting /\ c.kind = w.kind
             /\ \A kind : Unclosable(c, kind) <=> Unclosable(w, kind)
             /\ TakesField(c) <=> TakesField(w)
             /\ Countable(cs) => ~Overflows(Entered(ws))
             /\ ~Overflows(Popped(ws))
<1>. DEFINE c == LastOf(cs)
            w == LastOf(ws)
<1>1. cs \in Seq(Frames)
  BY DEF SafeStack
<1>2. cs # <<>> /\ c \in Frames /\ w \in Frames /\ Matches(c, w, FALSE)
  BY <1>1, TracksFacts
<1>3. /\ c.kind = w.kind /\ c.known = w.known /\ c.expected = w.expected
      /\ c.observed = w.observed /\ c.waiting = w.waiting
  BY <1>2 DEF Matches
<1>4. Countable(cs) => ~Overflows(Entered(ws))
  <2>1. LastOf(Entered(ws)) = EnteredFrame(w)
    BY TopChanges
  <2>2. /\ EnteredFrame(w).kind = w.kind /\ EnteredFrame(w).observed = w.observed
        /\ w.kind = "map" => EnteredFrame(w).child_is_value = w.waiting
    BY <1>2 DEF EnteredFrame, Frames
  <2>. QED
    BY <1>2, <1>3, <2>1, <2>2 DEF Countable, Overflows, CompletesKey
<1>5. ~Overflows(Popped(ws))
  <2>. DEFINE n == Len(ws) - 1
  <2>1. SUFFICES ASSUME Popped(ws) # <<>> PROVE ~Overflows(Popped(ws))
    BY DEF Overflows
  <2>2. /\ Popped(ws) \in Seq(Frames) /\ Len(Popped(ws)) = n
        /\ \A i \in 1..n : Popped(ws)[i] = ws[i]
    BY PoppedIsStack
  <2>3. n \in Nat \ {0} /\ Len(ws) \in Nat /\ n \in 1..n /\ n \in 1..Len(ws) /\ Len(cs) = Len(ws)
        /\ (n < Len(ws)) = TRUE
    BY <2>1, <2>2, TopIsFrame DEF Tracks
  <2>. HIDE DEF n
  <2>4. Matches(cs[n], ws[n], TRUE)
    BY <2>3 DEF Tracks
  <2>5. cs[n].observed <= NaturalLast /\ ws[n].observed \in Nat /\ NaturalLast \in Nat
    BY <2>3, ElementOfSeq, FrameFields, NaturalAssumption DEF SafeStack, Within
  <2>6. LastOf(Popped(ws)) = ws[n]
    BY <2>2, <2>3 DEF LastOf
  <2>7. CompletesKey(ws[n]) \/ ws[n].observed # NaturalLast
    BY <2>4, <2>5 DEF Matches, CompletesKey
  <2>. QED
    BY <2>6, <2>7 DEF Overflows
<1>. QED
  BY <1>2, <1>3, <1>4, <1>5 DEF Unclosable, TakesField

-----------------------------------------------------------------------------
(* The Counter and the writer, event by event. *)

\* Before an event.
Alike(c, s) ==
  /\ IsWriter(s) /\ ~s.failed /\ ~c.failed
  /\ Tracks(c.stack, s.stack)
  /\ c.root_written = s.root_written /\ c.finalized = s.finalized

\* After it: `t` is the Counter, `u` the writer.
Parity(t, u) ==
  /\ t.error = NoError => Lost(u) \/ (u.error = NoError /\ Alike(t, u))
  /\ t.error \in {"Invalid_State", "Unsupported_Value"} => OutOfRoom(u) \/ u.error = t.error
  /\ u.error = "Invalid_Text" => t.error = "Invalid_Text"

\* Both went on.
LEMMA LeadsToParity ==
  ASSUME NEW c, NEW t, NEW cs, Advanced(c, t, cs), NEW u, NEW ws, Leads(u, ws), Tracks(cs, ws)
  PROVE  Parity(t, u)
  BY DEF Advanced, IsCounting, IsCounter, Leads, IsOpen, IsWriter, Alike, Parity

\* The writer ran out of room.
LEMMA LostIsParity ==
  ASSUME NEW t, NEW u, Lost(u)
  PROVE  Parity(t, u)
  BY DEF Lost, OutOfRoom, Parity

\* The Counter refused on grounds that are not the backend's.
LEMMA LimitIsParity ==
  ASSUME NEW c, NEW t, NEW code, Refused(c, t, code),
         code \in {"Invalid_Text", "Capacity_Exceeded", "Depth_Exceeded"},
         NEW u, u.error # "Invalid_Text"
  PROVE  Parity(t, u)
  BY DEF Refused, Parity

\* One event, given to both.
LEMMA EventParity ==
  ASSUME NEW b \in Backend, NEW c, IsCounter(c), c.error = NoError, c.profile = Capabilities(b),
         NEW s, s.error = NoError, Alike(c, s),
         NEW e \in AnyEvents
  PROVE  LET t == Counting!Event(c, e) IN
         /\ IsCounter(t) /\ t.profile = c.profile
         /\ Parity(t, WriterEvent(b, s, e))
<1>. DEFINE t == Counting!Event(c, e)
            u == WriterEvent(b, s, e)
            cs == c.stack
            ws == s.stack
<1>1. CounterOutcome(b, c, t, e)
  BY CounterEvent DEF Alike
<1>2. EventOutcome(b, s, u, e)
  <2>1. CASE b = "json"
    BY <2>1, JsonEvent DEF WriterEvent, Alike
  <2>2. CASE b # "json"
    <3>1. b = "cbor"
      BY <2>2 DEF Backend
    <3>. QED
      BY <3>1, CborEvent DEF WriterEvent, Alike
  <2>. QED
    BY <2>1, <2>2
<1>3. /\ SafeStack(cs) /\ cs \in Seq(Frames) /\ ws \in Seq(Frames) /\ Tracks(cs, ws)
      /\ Len(cs) = Len(ws) /\ c.root_written = s.root_written /\ c.finalized = s.finalized
  BY DEF IsCounter, SafeStack, Alike, IsWriter, Tracks
<1>. SUFFICES IsCounter(t) /\ t.profile = c.profile /\ Parity(t, u)
  OBVIOUS
<1>. HIDE DEF t, u
<1>4. CASE c.finalized
  BY <1>1, <1>2, <1>3, <1>4 DEF CounterOutcome, EventOutcome, Refused, Parity
<1>5. CASE ~c.finalized /\ Spoiled(e)
  BY <1>1, <1>2, <1>3, <1>5 DEF CounterOutcome, EventOutcome, Refused, Parity
<1>6. CASE ~c.finalized /\ ~Spoiled(e) /\ Unwritable(b, e)
  BY <1>1, <1>2, <1>3, <1>6 DEF CounterOutcome, EventOutcome, Refused, Parity
<1>. DEFINE good == ~c.finalized /\ ~Spoiled(e) /\ ~Unwritable(b, e)
            limit == \E code \in {"Invalid_Text", "Capacity_Exceeded", "Depth_Exceeded"} :
                       Refused(c, t, code)
<1>7. Misplaced(c) <=> Misplaced(s)
  <2>1. CASE ws = <<>>
    BY <1>3, <2>1, TracksFacts DEF Misplaced
  <2>2. CASE ws # <<>>
    <3>1. /\ cs # <<>> /\ Full(LastOf(cs)) = Full(LastOf(ws))
          /\ LastOf(cs).waiting = LastOf(ws).waiting /\ LastOf(cs).kind = LastOf(ws).kind
      BY <1>3, <2>2, FramesAlike
    <3>. QED
      BY <2>2, <3>1 DEF Misplaced
  <2>. QED
    BY <2>1, <2>2
<1>8. Countable(cs) => ~Overflows(Entered(ws))
  <2>1. ws = <<>> => Entered(ws) = <<>>
    BY DEF Entered
  <2>. QED
    BY <1>3, <2>1, FramesAlike DEF Overflows
<1>9. ASSUME good, limit, u.error # "Invalid_Text"
      PROVE  IsCounter(t) /\ t.profile = c.profile /\ Parity(t, u)
  BY <1>9, LimitIsParity DEF Refused
<1>10. CASE good /\ e.op \in Values
  <2>1. ValueOutcome(s, u)
    BY <1>2, <1>3, <1>10 DEF EventOutcome
  <2>2. u.error # "Invalid_Text"
    BY <2>1 DEF ValueOutcome, Lost, OutOfRoom, Leads, IsOpen
  <2>3. limit \/ NoteOutcome(c, t)
    BY <1>1, <1>10 DEF CounterOutcome
  <2>4. CASE limit \/ Refused(c, t, "Capacity_Exceeded")
    BY <1>9, <1>10, <2>2, <2>4
  <2>5. CASE Refused(c, t, "Invalid_State") /\ Misplaced(c)
    BY <1>7, <2>1, <2>5 DEF ValueOutcome, Refused, Parity
  <2>6. CASE Advanced(c, t, Noted(cs)) /\ ~Misplaced(c) /\ Countable(cs)
    <3>1. Lost(u) \/ Leads(u, Completed(Entered(ws)))
      BY <1>7, <1>8, <2>1, <2>6 DEF ValueOutcome
    <3>2. Tracks(Noted(cs), Completed(Entered(ws)))
      BY <1>3, TracksValue
    <3>3. Parity(t, u)
      BY <2>6, <3>1, <3>2, LeadsToParity, LostIsParity
    <3>. QED
      BY <2>6, <3>3 DEF Advanced, IsCounting
  <2>. QED
    BY <2>3, <2>4, <2>5, <2>6 DEF NoteOutcome
<1>11. CASE good /\ e.op \in Begins
  <2>. DEFINE k == KindOf(e)
              l == LengthOf(e)
  <2>1. OpenOutcome(s, u, k, l)
    BY <1>2, <1>3, <1>11 DEF EventOutcome
  <2>2. u.error # "Invalid_Text"
    BY <2>1 DEF OpenOutcome, Lost, OutOfRoom, Leads, IsOpen
  <2>3. limit \/ AdmitOutcome(c, t, k, l)
    BY <1>1, <1>11 DEF CounterOutcome
  <2>4. k \in Kinds /\ l \in Lengths
    BY <1>11, EventShape
  <2>. HIDE DEF k, l
  <2>5. CASE limit \/ Refused(c, t, "Capacity_Exceeded") \/ Refused(c, t, "Depth_Exceeded")
    BY <1>9, <1>11, <2>2, <2>5
  <2>6. CASE Refused(c, t, "Invalid_State") /\ Misplaced(c)
    BY <1>7, <2>1, <2>6 DEF OpenOutcome, Refused, Parity
  <2>7. CASE /\ Advanced(c, t, Append(Noted(cs), Frame(k, l)))
             /\ ~Misplaced(c) /\ Countable(cs) /\ Len(cs) # MaxSupportedNesting
    <3>1. Lost(u) \/ Leads(u, Append(Entered(ws), Frame(k, l)))
      BY <1>3, <1>7, <2>1, <2>7 DEF OpenOutcome
    <3>2. Frame(k, l) \in Frames /\ Matches(Frame(k, l), Frame(k, l), FALSE)
      BY <2>4, FrameIsFrame DEF Matches
    <3>3. Tracks(Append(Noted(cs), Frame(k, l)), Append(Entered(ws), Frame(k, l)))
      BY <1>3, <3>2, TracksOpen
    <3>4. Parity(t, u)
      BY <2>7, <3>1, <3>3, LeadsToParity, LostIsParity
    <3>. QED
      BY <2>7, <3>4 DEF Advanced, IsCounting
  <2>. QED
    BY <2>3, <2>5, <2>6, <2>7 DEF AdmitOutcome
<1>12. CASE good /\ e.op \in Ends
  <2>. DEFINE k == KindOf(e)
  <2>1. CloseOutcome(s, u, k)
    BY <1>2, <1>3, <1>12 DEF EventOutcome
  <2>2. u.error # "Invalid_Text"
    BY <2>1 DEF CloseOutcome, Lost, OutOfRoom, Leads, IsOpen
  <2>3. limit \/ LeaveOutcome(c, t, k)
    BY <1>1, <1>12 DEF CounterOutcome
  <2>. HIDE DEF k
  <2>4. (cs = <<>> \/ Unclosable(LastOf(cs), k)) <=> (ws = <<>> \/ Unclosable(LastOf(ws), k))
    BY <1>3, TracksFacts, FramesAlike
  <2>5. CASE limit \/ Refused(c, t, "Capacity_Exceeded")
    BY <1>9, <1>12, <2>2, <2>5
  <2>6. CASE Refused(c, t, "Invalid_State") /\ (cs = <<>> \/ Unclosable(LastOf(cs), k))
    BY <2>1, <2>4, <2>6 DEF CloseOutcome, Refused, Parity
  <2>7. CASE Advanced(c, t, Popped(cs)) /\ ~(cs = <<>> \/ Unclosable(LastOf(cs), k))
    <3>1. ws # <<>> /\ ~Overflows(Popped(ws))
      BY <1>3, <2>4, <2>7, FramesAlike
    <3>2. Lost(u) \/ Leads(u, Completed(Popped(ws)))
      BY <2>1, <2>4, <2>7, <3>1 DEF CloseOutcome
    <3>3. Tracks(Popped(cs), Completed(Popped(ws)))
      BY <1>3, <3>1, TracksClose
    <3>4. Parity(t, u)
      BY <2>7, <3>2, <3>3, LeadsToParity, LostIsParity
    <3>. QED
      BY <2>7, <3>4 DEF Advanced, IsCounting
  <2>. QED
    BY <2>3, <2>5, <2>6, <2>7 DEF LeaveOutcome
<1>13. CASE good /\ e.op = "Put_Field"
  <2>1. FieldOutcome(s, u)
    BY <1>2, <1>3, <1>13 DEF EventOutcome
  <2>2. u.error # "Invalid_Text"
    BY <2>1 DEF FieldOutcome, Held, Lost, OutOfRoom, Leads, IsOpen
  <2>3. limit \/ NameOutcome(c, t)
    BY <1>1, <1>13 DEF CounterOutcome
  <2>4. (cs = <<>> \/ ~TakesField(LastOf(cs))) <=> (ws = <<>> \/ ~TakesField(LastOf(ws)))
    BY <1>3, TracksFacts, FramesAlike
  <2>5. CASE limit \/ Refused(c, t, "Capacity_Exceeded")
    BY <1>9, <1>13, <2>2, <2>5
  <2>6. CASE Refused(c, t, "Invalid_State") /\ (cs = <<>> \/ ~TakesField(LastOf(cs)))
    BY <2>1, <2>4, <2>6 DEF FieldOutcome, Refused, Parity
  <2>7. CASE Advanced(c, t, Field(cs)) /\ ~(cs = <<>> \/ ~TakesField(LastOf(cs)))
    <3>1. ws # <<>> /\ (Lost(u) \/ Leads(u, Field(ws)))
      BY <2>1, <2>4, <2>7 DEF FieldOutcome, Held
    <3>2. Tracks(Field(cs), Field(ws))
      BY <1>3, <3>1, TracksField
    <3>3. Parity(t, u)
      BY <2>7, <3>1, <3>2, LeadsToParity, LostIsParity
    <3>. QED
      BY <2>7, <3>3 DEF Advanced, IsCounting
  <2>. QED
    BY <2>3, <2>5, <2>6, <2>7 DEF NameOutcome
<1>. QED
  BY <1>4, <1>5, <1>6, <1>10, <1>11, <1>12, <1>13, EventShape

\* Finish_Document, of both.
LEMMA FinishParity ==
  ASSUME NEW b \in Backend, NEW c, IsCounter(c), c.error = NoError,
         NEW s, s.error = NoError, Alike(c, s)
  PROVE  LET t == Counting!Finish_Document(c) IN
         /\ IsCounter(t) /\ t.profile = c.profile
         /\ Parity(t, WriterFinish(b, s))
         /\ t.error = NoError => State(WriterFinish(b, s)) = "Finished"
<1>. DEFINE t == Counting!Finish_Document(c)
            u == WriterFinish(b, s)
            unfinished == ~s.root_written \/ s.stack # <<>>
<1>1. /\ Tracks(c.stack, s.stack) /\ c.root_written = s.root_written
      /\ c.finalized = s.finalized /\ ~c.failed /\ ~s.failed /\ IsWriter(s)
      /\ c.stack \in Seq(Frames) /\ s.stack \in Seq(Frames)
  BY DEF Alike, IsWriter, IsCounter, SafeStack
<1>2. c.stack = <<>> <=> s.stack = <<>>
  BY <1>1, TracksFacts
<1>3. u = IF s.finalized THEN LatchCode(s, "Invalid_State")
          ELSE IF unfinished THEN Json!Fail(s, "Invalid_State")
          ELSE [s EXCEPT !.finalized = TRUE]
  BY <1>1 DEF WriterFinish, Json!Finish_Document, Json!FinishWith, Json!Fail,
    Cbor!Finish_Document, Cbor!FinishWith, Cbor!Fail
<1>4. t = IF c.finalized THEN LatchCode(c, "Invalid_State")
          ELSE IF unfinished THEN Counting!Reject(c, "Invalid_State")
          ELSE [c EXCEPT !.finalized = TRUE]
  BY <1>1, <1>2 DEF Counting!Finish_Document, Counting!FinishWith
<1>. SUFFICES /\ IsCounter(t) /\ t.profile = c.profile /\ Parity(t, u)
              /\ t.error = NoError => State(u) = "Finished"
  OBVIOUS
<1>. HIDE DEF t, u
<1>5. CASE s.finalized \/ unfinished
  <2>1. u.error = "Invalid_State"
    BY <1>1, <1>3, <1>5 DEF IsWriter, Components, Json!Fail
  <2>2. Refused(c, t, "Invalid_State")
    <3>1. CASE c.finalized
      <4>1. t = LatchCode(c, "Invalid_State")
        BY <1>4, <3>1
      <4>2. /\ t = [i \in CounterParts |-> t[i]]
            /\ t.stack = c.stack /\ t.events = c.events /\ t.root_written = c.root_written
            /\ t.failed = c.failed /\ t.finalized = c.finalized /\ t.profile = c.profile
            /\ t.error = "Invalid_State"
        BY <4>1 DEF IsCounter, CounterParts
      <4>. QED
        BY <4>2 DEF Refused, IsCounter
    <3>2. CASE ~c.finalized
      BY <1>1, <1>4, <1>5, <3>2, CounterRejects
    <3>. QED
      BY <3>1, <3>2
  <2>. QED
    BY <2>1, <2>2 DEF Refused, Parity
<1>6. CASE ~(s.finalized \/ unfinished)
  <2>1. u = [s EXCEPT !.finalized = TRUE] /\ t = [c EXCEPT !.finalized = TRUE]
    BY <1>1, <1>3, <1>4, <1>6
  <2>2. /\ t = [i \in CounterParts |-> t[i]]
        /\ t.stack = c.stack /\ t.events = c.events /\ t.root_written = c.root_written
        /\ t.failed = c.failed /\ t.finalized /\ t.profile = c.profile /\ t.error = c.error
        /\ t.finalized = TRUE
    BY <2>1 DEF IsCounter, CounterParts
  <2>3. /\ u = [i \in Components |-> u[i]]
        /\ u.stack = s.stack /\ u.length = s.length /\ u.root_written = s.root_written
        /\ u.failed = s.failed /\ u.finalized /\ u.room = s.room
        /\ u.exhaustion = s.exhaustion /\ u.error = s.error /\ u.finalized = TRUE
    BY <1>1, <2>1 DEF IsWriter, Components
  <2>4. IsCounter(t)
    BY <2>2 DEF IsCounter
  <2>5. IsWriter(u)
    BY <1>1, <2>3 DEF IsWriter
  <2>. QED
    BY <1>1, <2>2, <2>3, <2>4, <2>5 DEF Alike, Parity, State
<1>. QED
  BY <1>5, <1>6

-----------------------------------------------------------------------------
(* A writer in any state. *)

\* The codes a writer reports, and the exception that takes their place.
Refusals ==
  {"Invalid_Text", "Capacity_Exceeded", "Depth_Exceeded", "Unsupported_Value", "Invalid_State",
   Raised}

\* An event has been let in: it goes on, or it has poisoned the writer and said why.
Placed(t) ==
  /\ IsWriter(t) /\ ~t.finalized
  /\ IF t.error = NoError THEN ~t.failed /\ t.root_written ELSE t.failed /\ t.error \in Refusals

\* A failure of either writer poisons it.
LEMMA FailsPlaced ==
  ASSUME NEW s, IsWriter(s), s.error = NoError, NEW c \in Refusals
  PROVE  /\ Placed(Json!Fail(s, c)) /\ Json!Fail(s, c).stack = s.stack
         /\ Cbor!Fail(s, c) = Json!Fail(s, c)
<1>. DEFINE t == Json!Fail(s, c)
<1>1. /\ t = [i \in Components |-> t[i]]
      /\ t.length = s.length /\ t.stack = s.stack /\ t.root_written = s.root_written
      /\ t.failed = TRUE /\ t.finalized = FALSE /\ t.room = s.room
      /\ t.exhaustion = s.exhaustion /\ t.error = c
  BY DEF IsWriter, Components, Json!Fail
<1>2. Cbor!Fail(s, c) = t
  BY DEF Json!Fail, Cbor!Fail
<1>. HIDE DEF t
<1>3. c # NoError
  BY DEF Refusals
<1>4. IsWriter(t)
  BY <1>1 DEF IsWriter
<1>. QED
  BY <1>1, <1>2, <1>3, <1>4 DEF Placed, t

\* Something is appended, or Storage_Error escapes.
LEMMA EmissionPlaced ==
  ASSUME NEW s, Placed(s), s.error = NoError
  PROVE  /\ s.length < s.room => \A text :
              LET t == [s EXCEPT !.length = @ + 1, !.text = text]
              IN  Placed(t) /\ t.stack = s.stack
         /\ LET t == [s EXCEPT !.failed = TRUE, !.error = Raised]
            IN  Placed(t) /\ t.stack = s.stack
<1>1. IsWriter(s) /\ ~s.failed /\ ~s.finalized /\ s.root_written
  BY DEF Placed
<1>2. ASSUME s.length < s.room, NEW text
      PROVE  LET t == [s EXCEPT !.length = @ + 1, !.text = text]
             IN  Placed(t) /\ t.stack = s.stack
  <2>. DEFINE t == [s EXCEPT !.length = @ + 1, !.text = text]
  <2>1. /\ t = [i \in Components |-> t[i]]
        /\ t.length = s.length + 1 /\ t.stack = s.stack /\ t.root_written = s.root_written
        /\ t.failed = s.failed /\ t.finalized = s.finalized /\ t.room = s.room
        /\ t.exhaustion = s.exhaustion /\ t.error = s.error
    BY <1>1 DEF IsWriter, Components
  <2>. HIDE DEF t
  <2>2. t.length \in Nat /\ t.length <= t.room
    BY <1>1, <1>2, <2>1 DEF IsWriter
  <2>3. IsWriter(t)
    BY <1>1, <2>1, <2>2 DEF IsWriter
  <2>. QED
    BY <1>1, <2>1, <2>3 DEF Placed, t
<1>3. LET t == [s EXCEPT !.failed = TRUE, !.error = Raised]
      IN  Placed(t) /\ t.stack = s.stack
  <2>. DEFINE t == [s EXCEPT !.failed = TRUE, !.error = Raised]
  <2>1. /\ t = [i \in Components |-> t[i]]
        /\ t.length = s.length /\ t.stack = s.stack /\ t.root_written = s.root_written
        /\ t.failed = TRUE /\ t.finalized = s.finalized /\ t.room = s.room
        /\ t.exhaustion = s.exhaustion /\ t.error = Raised
    BY <1>1 DEF IsWriter, Components
  <2>. HIDE DEF t
  <2>2. IsWriter(t)
    BY <1>1, <2>1 DEF IsWriter
  <2>. QED
    BY <1>1, <2>1, <2>2 DEF Placed, Refusals, t
<1>. QED
  BY <1>2, <1>3

\* Emit appends, or poisons, whichever writer's it is.
LEMMA EmitsPlaced ==
  ASSUME NEW s, Placed(s), NEW tokens
  PROVE  /\ Placed(Json!Emit(s, tokens)) /\ Json!Emit(s, tokens).stack = s.stack
         /\ Placed(Cbor!Emit(s, tokens)) /\ Cbor!Emit(s, tokens).stack = s.stack
<1>1. CASE s.error # NoError
  BY <1>1 DEF Json!Emit, Cbor!Emit
<1>2. CASE s.error = NoError
  <2>1. IsWriter(s) /\ ~s.failed
    BY <1>2 DEF Placed
  <2>2. CASE s.length < s.room
    BY <1>2, <2>1, <2>2, EmissionPlaced DEF Json!Emit, Cbor!Emit
  <2>3. CASE ~(s.length < s.room) /\ s.exhaustion = "Capacity_Exceeded"
    BY <1>2, <2>1, <2>3, FailsPlaced
    DEF Json!Emit, Json!EmitBounded, Cbor!Emit, Cbor!EmitBounded, Refusals
  <2>4. CASE ~(s.length < s.room) /\ s.exhaustion # "Capacity_Exceeded"
    BY <1>2, <2>1, <2>4, EmissionPlaced
    DEF Json!Emit, Json!EmitAllocating, Cbor!Emit, Cbor!EmitAllocating
  <2>. QED
    BY <2>2, <2>3, <2>4
<1>. QED
  BY <1>1, <1>2

\* The frames change, or what is open does.
LEMMA StackPlaced ==
  ASSUME NEW s, Placed(s), s.root_written, NEW stack \in Seq(Frames)
  PROVE  Placed([s EXCEPT !.stack = stack])
<1>. DEFINE t == [s EXCEPT !.stack = stack]
<1>1. /\ t = [i \in Components |-> t[i]]
      /\ t.length = s.length /\ t.stack = stack /\ t.root_written = s.root_written
      /\ t.failed = s.failed /\ t.finalized = s.finalized /\ t.room = s.room
      /\ t.exhaustion = s.exhaustion /\ t.error = s.error
  BY DEF Placed, IsWriter, Components
<1>. HIDE DEF t
<1>2. IsWriter(t)
  BY <1>1 DEF Placed, IsWriter
<1>. QED
  BY <1>1, <1>2 DEF Placed, t

\* A frame does.
LEMMA TopPlaced ==
  ASSUME NEW s, Placed(s), s.stack # <<>>, NEW f \in Frames
  PROVE  Placed(SetTop(s, f)) /\ SetTop(s, f).stack # <<>> /\ SetTop(s, f).error = s.error
<1>1. s.stack \in Seq(Frames) /\ s.root_written
  BY DEF Placed, IsWriter
<1>. DEFINE stack == [s.stack EXCEPT ![Len(s.stack)] = f]
<1>2. stack \in Seq(Frames) /\ stack # <<>>
  BY <1>1, TopSet
<1>3. SetTop(s, f) = [s EXCEPT !.stack = stack]
  OBVIOUS
<1>. HIDE DEF stack
<1>4. SetTop(s, f).stack = stack /\ SetTop(s, f).error = s.error
  BY <1>3 DEF Placed, IsWriter, Components
<1>. QED
  BY <1>1, <1>2, <1>3, <1>4, StackPlaced

\* The innermost frame counts an item.
LEMMA CountsPlaced ==
  ASSUME NEW s, Placed(s), s.error = NoError, s.stack # <<>>
  PROVE  Placed(Json!Counted(s)) /\ Cbor!Counted(s) = Json!Counted(s)
<1>. DEFINE top == LastOf(s.stack)
            f == [top EXCEPT !.waiting = FALSE]
            g == [f EXCEPT !.observed = @ + 1]
<1>1. top \in Frames
  BY TopIsFrame DEF Placed, IsWriter
<1>2. f \in Frames /\ f.observed \in Nat
  BY <1>1, FrameSet, FrameFields
<1>3. g \in Frames
  <2>1. f.observed + 1 \in Nat
    BY <1>2
  <2>. HIDE DEF f
  <2>. QED
    BY <1>2, <2>1 DEF Frames
<1>4. Json!Counted(s) = IF f.observed = NaturalLast
                        THEN Json!Fail(SetTop(s, f), "Capacity_Exceeded") ELSE SetTop(s, g)
  BY DEF Json!Counted, LastOf
<1>. HIDE DEF f, g
<1>5. Placed(SetTop(s, f)) /\ SetTop(s, f).error = NoError /\ Placed(SetTop(s, g))
  BY <1>2, <1>3, TopPlaced
<1>6. Placed(Json!Fail(SetTop(s, f), "Capacity_Exceeded"))
  BY <1>5, FailsPlaced DEF Placed, Refusals
<1>7. Cbor!Counted(s) = Json!Counted(s)
  BY DEF Cbor!Counted, Json!Counted, Cbor!Fail, Json!Fail
<1>. QED
  BY <1>4, <1>5, <1>6, <1>7

\* A child begins, or has no place.
LEMMA BeginsPlaced ==
  ASSUME NEW s, IsOpen(s)
  PROVE  Placed(Json!Before_Value(s)) /\ Placed(Cbor!Before_Value(s))
<1>. DEFINE f == LastOf(s.stack)
            root == [s EXCEPT !.root_written = TRUE]
<1>1. ~Latched(s) /\ ~Closed(s) /\ IsWriter(s) /\ s.stack \in Seq(Frames)
  BY DEF IsOpen, IsWriter
<1>2. /\ Placed(Json!Fail(s, "Invalid_State"))
      /\ Cbor!Fail(s, "Invalid_State") = Json!Fail(s, "Invalid_State")
  BY <1>1, FailsPlaced DEF Refusals
<1>3. CASE s.stack = <<>>
  <2>1. Placed(root)
    BY DEF IsOpen, IsWriter, Components, Placed
  <2>. QED
    BY <1>1, <1>2, <1>3, <2>1 DEF Json!Before_Value, Cbor!Before_Value
<1>4. CASE s.stack # <<>>
  <2>1. Placed(s) /\ f \in Frames
    BY <1>1, <1>4, TopIsFrame DEF IsOpen, IsWriter, Placed
  <2>2. \A tokens : /\ Placed(Json!Emit(s, tokens)) /\ Json!Emit(s, tokens).stack = s.stack
    BY <2>1, EmitsPlaced
  <2>3. ASSUME NEW t, Placed(t), t.stack = s.stack, NEW b \in BOOLEAN
        PROVE  Placed(IF t.error = Raised THEN t
                      ELSE SetTop(t, [Top(t) EXCEPT !.child_is_value = b]))
    <3>1. Top(t) \in Frames
      BY <2>1, <2>3 DEF LastOf
    <3>2. [Top(t) EXCEPT !.child_is_value = b] \in Frames
      BY <3>1, FrameSet
    <3>. QED
      BY <1>4, <2>3, <3>2, TopPlaced
  <2>4. Placed(Json!SeparateItem(s)) /\ Json!SeparateItem(s).stack = s.stack
    BY <2>1, <2>2 DEF Json!SeparateItem
  <2>5. \A tokens : /\ Placed(Json!Emit(Json!SeparateItem(s), tokens))
                    /\ Json!Emit(Json!SeparateItem(s), tokens).stack = s.stack
    BY <2>4, EmitsPlaced
  <2>6. Placed(Json!OpenEntry(s)) /\ Placed(Json!ContinueEntry(s)) /\ Placed(Json!SeparateOptional(s))
    BY <2>2, <2>3, <2>5 DEF Json!OpenEntry, Json!ContinueEntry, Json!SeparateOptional
  <2>7. Placed(Json!Before_Value(s))
    BY <1>1, <1>2, <1>4, <2>1, <2>4, <2>6 DEF Json!Before_Value
  <2>8. Placed(SetTop(s, [f EXCEPT !.child_is_value = f.waiting]))
    BY <1>4, <2>1, FrameSet, TopPlaced
  <2>9. Placed(Cbor!Before_Value(s))
    BY <1>1, <1>2, <1>4, <2>1, <2>8 DEF Cbor!Before_Value, LastOf
  <2>. QED
    BY <2>7, <2>9
<1>. QED
  BY <1>3, <1>4

\* A child is complete.
LEMMA CompletesPlaced ==
  ASSUME NEW s, Placed(s)
  PROVE  Placed(Json!After_Value(s)) /\ Placed(Cbor!After_Value(s))
<1>. DEFINE f == LastOf(s.stack)
<1>1. CASE Latched(s) \/ s.failed \/ s.stack = <<>>
  BY <1>1 DEF Json!After_Value, Cbor!After_Value
<1>2. CASE ~(Latched(s) \/ s.failed \/ s.stack = <<>>)
  <2>1. f \in Frames
    BY <1>2, TopIsFrame DEF Placed, IsWriter
  <2>2. Placed(SetTop(s, [f EXCEPT !.waiting = TRUE]))
    BY <1>2, <2>1, FrameSet, TopPlaced
  <2>3. Placed(Json!Counted(s)) /\ Placed(Cbor!Counted(s))
    BY <1>2, CountsPlaced
  <2>4. Placed(Json!CloseEntry(s))
    <3>. DEFINE t == Json!Emit(s, <<"]">>)
    <3>1. Placed(t) /\ t.stack = s.stack
      BY EmitsPlaced
    <3>. HIDE DEF t
    <3>2. ~Latched(t) => Placed(Json!Counted(t))
      BY <1>2, <3>1, CountsPlaced
    <3>. QED
      BY <3>1, <3>2 DEF Json!CloseEntry, t
  <2>. QED
    BY <1>2, <2>2, <2>3, <2>4 DEF Json!After_Value, Cbor!After_Value, LastOf
<1>. QED
  BY <1>1, <1>2

\* A container is opened.
LEMMA PushesPlaced ==
  ASSUME NEW s, Placed(s), NEW kind \in Kinds, NEW length \in Lengths
  PROVE  Placed(Json!Push(s, kind, length)) /\ Placed(Cbor!Push(s, kind, length))
<1>1. CASE Latched(s)
  BY <1>1 DEF Json!Push, Cbor!Push
<1>2. CASE ~Latched(s)
  <2>1. IsWriter(s) /\ s.root_written /\ s.stack \in Seq(Frames)
    BY <1>2 DEF Placed, IsWriter
  <2>2. /\ Placed(Json!Fail(s, "Depth_Exceeded"))
        /\ Cbor!Fail(s, "Depth_Exceeded") = Json!Fail(s, "Depth_Exceeded")
    BY <1>2, <2>1, FailsPlaced DEF Refusals
  <2>. DEFINE stack == Append(s.stack, Frame(kind, length))
  <2>3. stack \in Seq(Frames)
    BY <2>1, FrameIsFrame, AppendProperties
  <2>4. /\ Json!PushFrame(s, Json!Frame(kind, length)) = [s EXCEPT !.stack = stack]
        /\ Cbor!PushFrame(s, Cbor!Frame(kind, length)) = [s EXCEPT !.stack = stack]
    BY DEF Frame, Json!Frame, Cbor!Frame
  <2>5. Placed([s EXCEPT !.stack = stack])
    <3>. HIDE DEF stack
    <3>. QED
      BY <2>1, <2>3, StackPlaced
  <2>. QED
    BY <1>2, <2>2, <2>4, <2>5 DEF Json!Push, Cbor!Push
<1>. QED
  BY <1>1, <1>2

\* A container is closed, or cannot be.
LEMMA PopsPlaced ==
  ASSUME NEW s, IsOpen(s), NEW kind
  PROVE  (\A close : Placed(Json!Pop(s, kind, close))) /\ Placed(Cbor!Pop(s, kind))
<1>1. ~Latched(s) /\ ~Closed(s) /\ IsWriter(s) /\ s.stack \in Seq(Frames)
  BY DEF IsOpen, IsWriter
<1>2. /\ Placed(Json!Fail(s, "Invalid_State"))
      /\ Cbor!Fail(s, "Invalid_State") = Json!Fail(s, "Invalid_State")
  BY <1>1, FailsPlaced DEF Refusals
<1>3. CASE s.stack = <<>>
  BY <1>1, <1>2, <1>3 DEF Json!Pop, Cbor!Pop
<1>4. CASE s.stack # <<>>
  <2>1. Placed(s)
    BY <1>1, <1>4 DEF IsOpen, IsWriter, Placed
  <2>2. ASSUME NEW t, Placed(t), t.stack = s.stack
        PROVE  /\ Placed(Json!After_Value(PopFrame(t)))
               /\ Placed(Cbor!After_Value(PopFrame(t)))
    <3>. DEFINE stack == SubSeq(t.stack, 1, Len(t.stack) - 1)
    <3>1. stack \in Seq(Frames) /\ t.root_written
      BY <1>1, <1>4, <2>2, PoppedIsStack DEF Popped, Placed, IsWriter
    <3>2. PopFrame(t) = [t EXCEPT !.stack = stack]
      OBVIOUS
    <3>. HIDE DEF stack
    <3>3. Placed(PopFrame(t))
      BY <2>2, <3>1, <3>2, StackPlaced
    <3>. QED
      BY <3>3, CompletesPlaced
  <2>3. \A tokens : /\ Placed(Json!Emit(s, tokens)) /\ Json!Emit(s, tokens).stack = s.stack
                    /\ Placed(Cbor!Emit(s, tokens)) /\ Cbor!Emit(s, tokens).stack = s.stack
    BY <2>1, EmitsPlaced
  <2>4. \A close : Placed(Json!Pop(s, kind, close))
    BY <1>1, <1>2, <2>2, <2>3 DEF Json!Pop
  <2>5. Placed(Cbor!Pop(s, kind))
    BY <1>1, <1>2, <2>1, <2>2, <2>3 DEF Cbor!Pop, Cbor!Emit_Head
  <2>. QED
    BY <2>4, <2>5
<1>. QED
  BY <1>3, <1>4

\* The texts of an event are written whole or refused.
LEMMA TextsPlaced ==
  ASSUME NEW s, Placed(s), NEW text
  PROVE  /\ ValidText(text) =>
              /\ Placed(Json!Emit_Quoted(s, text)) /\ Json!Emit_Quoted(s, text).stack = s.stack
              /\ Placed(Cbor!Emit_Text(s, text)) /\ Cbor!Emit_Text(s, text).stack = s.stack
         /\ \A pieces : /\ Placed(Cbor!Content(s, pieces)) /\ Cbor!Content(s, pieces).stack = s.stack
         /\ \A head, count : /\ Placed(Cbor!Emit_Head(s, head, count))
                             /\ Cbor!Emit_Head(s, head, count).stack = s.stack
<1>1. ASSUME NEW t, Placed(t)
      PROVE  \A head, count : /\ Placed(Cbor!Emit_Head(t, head, count))
                              /\ Cbor!Emit_Head(t, head, count).stack = t.stack
  BY <1>1, EmitsPlaced DEF Cbor!Emit_Head
<1>2. ASSUME NEW t, Placed(t)
      PROVE  \A pieces : Placed(Cbor!Content(t, pieces)) /\ Cbor!Content(t, pieces).stack = t.stack
  BY <1>1, <1>2 DEF Cbor!Content
<1>3. ValidText(text) =>
        Placed(Json!Emit_Quoted(s, text)) /\ Json!Emit_Quoted(s, text).stack = s.stack
  BY EmitsPlaced DEF Json!Emit_Quoted, ValidText, Json!ValidText
<1>4. ValidText(text) =>
        Placed(Cbor!Emit_Text(s, text)) /\ Cbor!Emit_Text(s, text).stack = s.stack
  BY <1>1, <1>2 DEF Cbor!Emit_Text, ValidText, Cbor!ValidText
<1>. QED
  BY <1>1, <1>2, <1>3, <1>4

\* A field is named, or cannot be.
LEMMA NamesPlaced ==
  ASSUME NEW s, IsOpen(s), NEW name
  PROVE  Placed(Json!Put_Field(s, name)) /\ Placed(Cbor!Put_Field(s, name))
<1>1. ~Latched(s) /\ ~Closed(s) /\ IsWriter(s) /\ s.stack \in Seq(Frames)
  BY DEF IsOpen, IsWriter
<1>2. \A c \in Refusals : Placed(Json!Fail(s, c)) /\ Cbor!Fail(s, c) = Json!Fail(s, c)
  BY <1>1, FailsPlaced
<1>3. CASE ~ValidText(name) \/ s.stack = <<>>
  BY <1>1, <1>2, <1>3 DEF Json!Put_Field, Cbor!Put_Field, ValidText, Json!ValidText,
    Cbor!ValidText, Refusals
<1>4. CASE ValidText(name) /\ s.stack # <<>>
  <2>1. Placed(s)
    BY <1>1, <1>4 DEF IsOpen, IsWriter, Placed
  <2>2. ASSUME NEW t, Placed(t), t.stack = s.stack
        PROVE  Placed(SetTop(t, [Top(t) EXCEPT !.waiting = TRUE]))
    <3>1. Top(t) \in Frames
      BY <1>1, <1>4, <2>2, TopIsFrame DEF LastOf
    <3>2. [Top(t) EXCEPT !.waiting = TRUE] \in Frames
      BY <3>1, FrameSet
    <3>. QED
      BY <1>4, <2>2, <3>2, TopPlaced
  <2>. DEFINE j == Json!Emit(Json!Emit_Quoted(Json!SeparateItem(s), name), <<":">>)
              c == Cbor!Emit_Text(s, name)
  <2>3. Placed(Json!SeparateItem(s)) /\ Json!SeparateItem(s).stack = s.stack
    BY <2>1, EmitsPlaced DEF Json!SeparateItem
  <2>4. /\ Placed(Json!Emit_Quoted(Json!SeparateItem(s), name))
        /\ Json!Emit_Quoted(Json!SeparateItem(s), name).stack = s.stack
    BY <1>4, <2>3, TextsPlaced
  <2>5. Placed(j) /\ j.stack = s.stack
    BY <2>4, EmitsPlaced
  <2>6. Placed(c) /\ c.stack = s.stack
    BY <1>4, <2>1, TextsPlaced
  <2>. HIDE DEF j, c
  <2>7. Placed(Json!Put_Field(s, name))
    BY <1>1, <1>2, <2>2, <2>5 DEF Json!Put_Field, j, Refusals
  <2>8. Placed(Cbor!Put_Field(s, name))
    BY <1>1, <1>2, <2>2, <2>6 DEF Cbor!Put_Field, c, Refusals
  <2>. QED
    BY <2>7, <2>8
<1>. QED
  BY <1>3, <1>4

\* An event given to an open JSON writer.
LEMMA JsonPlaces ==
  ASSUME NEW s, IsOpen(s), NEW e \in AnyEvents
  PROVE  Placed(Json!Event(s, e))
<1>. DEFINE t == Json!Event(s, e)
            u == Json!Before_Value(s)
<1>1. ~Latched(s) /\ ~Closed(s) /\ IsWriter(s)
  BY DEF IsOpen
<1>2. \A c \in Refusals : Placed(Json!Fail(s, c))
  BY <1>1, FailsPlaced
<1>3. /\ Placed(u) /\ \A tokens : Placed(Json!Emit(u, tokens))
      /\ \A text : ValidText(text) => Placed(Json!Emit_Quoted(u, text))
  BY BeginsPlaced, EmitsPlaced, TextsPlaced
<1>. HIDE DEF u
<1>4. \A kind, close : Placed(Json!Pop(s, kind, close))
  BY PopsPlaced
<1>5. CASE e.op \in {"Put_Scalar", "Put_Float_64"}
  <2>1. Placed(Json!After_Value(Json!Emit(u, <<"scalar">>)))
    BY <1>3, CompletesPlaced
  <2>2. Placed(Json!Put_Scalar(s))
    BY <2>1 DEF Json!Put_Scalar, u
  <2>3. Placed(Json!Put_Float_64(s, e.value))
    BY <1>1, <1>2, <2>1 DEF Json!Put_Float_64, Refusals, u
  <2>. QED
    BY <1>5, <2>2, <2>3, JsonDispatch
<1>6. CASE e.op \in {"Put_Text", "Put_Enumeration"}
  <2>1. ValidText(e.text) => Placed(Json!After_Value(Json!Emit_Quoted(u, e.text)))
    BY <1>3, CompletesPlaced
  <2>2. Placed(Json!Put_Text(s, e.text))
    BY <1>1, <1>2, <2>1 DEF Json!Put_Text, Refusals, u, ValidText, Json!ValidText
  <2>3. Json!Put_Enumeration(s, e.text) = Json!Put_Text(s, e.text)
    BY DEF Json!Put_Enumeration
  <2>. QED
    BY <1>6, <2>2, <2>3, JsonDispatch
<1>7. CASE e.op = "Put_Bytes"
  <2>. DEFINE v == Json!Emit(u, <<"{", "string", ":">>)
  <2>1. Placed(v)
    BY <1>3
  <2>2. Json!Put_Bytes(s) = Json!After_Value(Json!Emit(v, <<"string", "}">>))
    BY DEF Json!Put_Bytes, u
  <2>. HIDE DEF v
  <2>. QED
    BY <1>7, <2>1, <2>2, EmitsPlaced, CompletesPlaced, JsonDispatch
<1>8. CASE e.op = "Put_Field"
  BY <1>8, NamesPlaced, JsonDispatch
<1>9. CASE e.op \in Ends
  BY <1>4, <1>9, JsonDispatch DEF Ends, Json!End_Optional, Json!End_Sequence,
    Json!End_Map, Json!End_Record, Json!End_Variant
<1>10. CASE e.op \in Begins
  <2>. DEFINE k == KindOf(e)
              l == LengthOf(e)
  <2>1. k \in Kinds /\ l \in Lengths
    BY <1>10, EventShape
  <2>2. \A tokens : Placed(Json!Push(Json!Emit(u, tokens), k, l))
    <3>. HIDE DEF k, l
    <3>. QED
      BY <1>3, <2>1, PushesPlaced
  <2>3. e.op = "Begin_Optional" => Placed(t)
    BY <2>2, JsonDispatch
    DEF Json!Begin_Optional, KindOf, LengthOf, u, Json!Known_Length, Known_Length
  <2>4. e.op = "Begin_Sequence" => Placed(t)
    BY <2>2, JsonDispatch DEF Json!Begin_Sequence, KindOf, LengthOf, u
  <2>5. e.op = "Begin_Map" => Placed(t)
    BY <2>2, JsonDispatch DEF Json!Begin_Map, KindOf, LengthOf, u
  <2>6. e.op = "Begin_Record" => Placed(t)
    BY <2>2, JsonDispatch DEF Json!Begin_Record, KindOf, LengthOf, u, Json!Known_Length,
      Known_Length
  <2>7. ASSUME e.op = "Begin_Variant" PROVE Placed(t)
    <3>. DEFINE v == Json!Emit(Json!Emit_Quoted(Json!Emit(u, <<"[">>), e.text), <<",", "{">>)
    <3>1. ValidText(e.text) => Placed(v)
      BY <1>3, EmitsPlaced, TextsPlaced
    <3>2. k = "variant" /\ l = Json!Known_Length(e.count)
      BY <2>7 DEF KindOf, LengthOf, Json!Known_Length, Known_Length
    <3>3. ValidText(e.text) => Placed(Json!Push(v, "variant", Json!Known_Length(e.count)))
      <4>. HIDE DEF v, k, l
      <4>. QED
        BY <2>1, <3>1, <3>2, PushesPlaced
    <3>4. Placed(Json!Begin_Variant(s, e.text, e.count))
      BY <1>1, <1>2, <3>3 DEF Json!Begin_Variant, Refusals, u, ValidText, Json!ValidText
    <3>. QED
      BY <2>7, <3>4, JsonDispatch
  <2>. QED
    BY <1>10, <2>3, <2>4, <2>5, <2>6, <2>7 DEF Begins
<1>. QED
  BY <1>5, <1>6, <1>7, <1>8, <1>9, <1>10, EventShape DEF Values

\* An event given to an open CBOR writer.
LEMMA CborPlaces ==
  ASSUME NEW s, IsOpen(s), NEW e \in AnyEvents
  PROVE  Placed(Cbor!Event(s, e)) /\ \A pieces : Placed(Cbor!Put_Bytes(s, pieces))
<1>. DEFINE t == Cbor!Event(s, e)
            u == Cbor!Before_Value(s)
<1>1. ~Latched(s) /\ ~Closed(s) /\ IsWriter(s)
  BY DEF IsOpen
<1>2. \A c \in Refusals : Placed(Cbor!Fail(s, c))
  BY <1>1, FailsPlaced
<1>3. /\ Placed(u) /\ \A head, count : Placed(Cbor!Emit_Head(u, head, count))
      /\ \A text : ValidText(text) => Placed(Cbor!Emit_Text(u, text))
  BY BeginsPlaced, TextsPlaced
<1>. HIDE DEF u
<1>4. \A kind : Placed(Cbor!Pop(s, kind))
  BY PopsPlaced
<1>5. \A pieces : Placed(Cbor!Put_Bytes(s, pieces))
  <2>1. \A pieces : Placed(Cbor!Content(Cbor!Emit_Head(u, "string", pieces), pieces))
    BY <1>3, TextsPlaced
  <2>. QED
    BY <2>1, CompletesPlaced DEF Cbor!Put_Bytes, u
<1>6. CASE e.op \in {"Put_Scalar", "Put_Float_64"}
  <2>1. Placed(Cbor!After_Value(Cbor!Emit_Head(u, "scalar", 0)))
    BY <1>3, CompletesPlaced
  <2>2. Placed(Cbor!Put_Scalar(s))
    BY <2>1 DEF Cbor!Put_Scalar, u
  <2>3. Cbor!Put_Float_64(s, e.value) = Cbor!Put_Scalar(s)
    BY DEF Cbor!Put_Float_64
  <2>. QED
    BY <1>5, <1>6, <2>2, <2>3, CborDispatch
<1>7. CASE e.op \in {"Put_Text", "Put_Enumeration"}
  <2>1. ValidText(e.text) => Placed(Cbor!After_Value(Cbor!Emit_Text(u, e.text)))
    BY <1>3, CompletesPlaced
  <2>2. Placed(Cbor!Put_Text(s, e.text))
    BY <1>1, <1>2, <2>1 DEF Cbor!Put_Text, Refusals, u, ValidText, Cbor!ValidText
  <2>3. Cbor!Put_Enumeration(s, e.text) = Cbor!Put_Text(s, e.text)
    BY DEF Cbor!Put_Enumeration
  <2>. QED
    BY <1>5, <1>7, <2>2, <2>3, CborDispatch
<1>8. CASE e.op \in {"Put_Bytes", "Put_Field"}
  BY <1>5, <1>8, NamesPlaced, CborDispatch
<1>9. CASE e.op \in Ends
  BY <1>4, <1>5, <1>9, CborDispatch DEF Ends, Cbor!End_Optional, Cbor!End_Sequence,
    Cbor!End_Map, Cbor!End_Record, Cbor!End_Variant
<1>10. CASE e.op \in Begins
  <2>. DEFINE k == KindOf(e)
              l == LengthOf(e)
  <2>1. k \in Kinds /\ l \in Lengths
    BY <1>10, EventShape
  <2>2. \A v : Placed(v) => Placed(Cbor!Push(v, k, l))
    <3>. HIDE DEF k, l
    <3>. QED
      BY <2>1, PushesPlaced
  <2>3. ASSUME e.op = "Begin_Optional" PROVE Placed(t)
    <3>. DEFINE p == IF e.present THEN 1 ELSE 0
                v == Cbor!Emit_Head(u, "array", 1 + p)
    <3>1. Placed(Cbor!Emit_Head(v, "scalar", 0))
      BY <1>3, TextsPlaced
    <3>2. k = "optional" /\ l = Cbor!Known_Length(p)
      BY <2>3 DEF KindOf, LengthOf, Cbor!Known_Length, Known_Length
    <3>3. Placed(Cbor!Push(Cbor!Emit_Head(v, "scalar", 0), k, l))
      BY <2>2, <3>1
    <3>4. Placed(Cbor!Begin_Optional(s, e.present))
      BY <3>2, <3>3 DEF Cbor!Begin_Optional, u
    <3>. QED
      BY <2>3, <3>4, CborDispatch
  <2>4. ASSUME e.op \in {"Begin_Sequence", "Begin_Map"} PROVE Placed(t)
    <3>1. \A head, start, length : Placed(Cbor!Opened(u, head, start, length))
      BY <1>3 DEF Cbor!Opened
    <3>2. e.op = "Begin_Sequence" => Placed(t)
      BY <2>2, <3>1, CborDispatch DEF Cbor!Begin_Sequence, KindOf, LengthOf, u
    <3>3. e.op = "Begin_Map" => Placed(t)
      BY <2>2, <3>1, CborDispatch DEF Cbor!Begin_Map, KindOf, LengthOf, u
    <3>. QED
      BY <2>4, <3>2, <3>3
  <2>5. e.op = "Begin_Record" => Placed(t)
    BY <1>3, <2>2, CborDispatch DEF Cbor!Begin_Record, KindOf, LengthOf, u, Cbor!Known_Length,
      Known_Length
  <2>6. ASSUME e.op = "Begin_Variant" PROVE Placed(t)
    <3>. DEFINE v == Cbor!Emit_Head(Cbor!Emit_Text(Cbor!Emit_Head(u, "array", 2), e.text),
                                    "map", e.count)
    <3>1. ValidText(e.text) => Placed(v)
      BY <1>3, TextsPlaced
    <3>2. k = "variant" /\ l = Cbor!Known_Length(e.count)
      BY <2>6 DEF KindOf, LengthOf, Cbor!Known_Length, Known_Length
    <3>3. ValidText(e.text) => Placed(Cbor!Push(v, "variant", Cbor!Known_Length(e.count)))
      <4>. HIDE DEF v, k, l
      <4>. QED
        BY <2>2, <3>1, <3>2
    <3>4. Placed(Cbor!Begin_Variant(s, e.text, e.count))
      BY <1>1, <1>2, <3>3 DEF Cbor!Begin_Variant, Refusals, u, ValidText, Cbor!ValidText
    <3>. QED
      BY <2>6, <3>4, CborDispatch
  <2>. QED
    BY <1>5, <1>10, <2>3, <2>4, <2>5, <2>6 DEF Begins
<1>. QED
  BY <1>5, <1>6, <1>7, <1>8, <1>9, <1>10, EventShape DEF Values

\* What a call may do to a writer, whatever state it finds it in.
Served(s, t) ==
  /\ IsWriter(t)
  /\ s.error # NoError => t = s
  /\ s.error = NoError /\ Closed(s) => t = [s EXCEPT !.error = "Invalid_State"]
  /\ IsOpen(s) => Placed(t)

\* An event does no more.
LEMMA EventServes ==
  ASSUME NEW b \in Backend, NEW s, IsWriter(s), NEW e \in AnyEvents
  PROVE  Served(s, WriterEvent(b, s, e))
<1>. DEFINE t == WriterEvent(b, s, e)
            r == LatchCode(s, "Invalid_State")
<1>1. CASE Latched(s) \/ Closed(s)
  <2>1. t = r
    BY <1>1, JsonDeclines, CborDeclines DEF WriterEvent
  <2>2. /\ r = [i \in Components |-> r[i]]
        /\ r.length = s.length /\ r.stack = s.stack /\ r.root_written = s.root_written
        /\ r.failed = s.failed /\ r.finalized = s.finalized /\ r.room = s.room
        /\ r.exhaustion = s.exhaustion
        /\ s.error # NoError => r = s
        /\ s.error = NoError => r = [s EXCEPT !.error = "Invalid_State"]
    BY DEF IsWriter, Components
  <2>. HIDE DEF t, r
  <2>3. IsWriter(t)
    BY <2>1, <2>2 DEF IsWriter
  <2>. QED
    BY <1>1, <2>1, <2>2, <2>3 DEF Served, IsOpen, t
<1>2. CASE ~(Latched(s) \/ Closed(s))
  <2>1. IsOpen(s)
    BY <1>2 DEF IsOpen
  <2>2. Placed(t)
    BY <2>1, JsonPlaces, CborPlaces DEF WriterEvent
  <2>. HIDE DEF t
  <2>. QED
    BY <1>2, <2>2 DEF Served, Placed, t
<1>. QED
  BY <1>1, <1>2

\* Finish_Document publishes a value that is complete, or refuses.
LEMMA FinishServes ==
  ASSUME NEW b \in Backend, NEW s, IsWriter(s)
  PROVE  LET t == WriterFinish(b, s) IN
         /\ IsWriter(t)
         /\ s.error # NoError => t = s
         /\ s.error = NoError /\ Closed(s) => t = [s EXCEPT !.error = "Invalid_State"]
         /\ IsOpen(s) =>
              \/ t.failed /\ ~t.finalized /\ t.error = "Invalid_State"
              \/ t.finalized /\ ~t.failed /\ t.error = NoError /\ s.root_written
<1>. DEFINE t == WriterFinish(b, s)
            r == LatchCode(s, "Invalid_State")
            p == [s EXCEPT !.finalized = TRUE]
            q == Json!Fail(s, "Invalid_State")
<1>1. t = IF Latched(s) THEN s ELSE IF Closed(s) THEN r
          ELSE IF ~s.root_written \/ s.stack # <<>> THEN q ELSE p
  BY DEF WriterFinish, Json!Finish_Document, Json!FinishWith, Json!Fail,
    Cbor!Finish_Document, Cbor!FinishWith, Cbor!Fail
<1>2. /\ p = [i \in Components |-> p[i]]
      /\ p.length = s.length /\ p.stack = s.stack /\ p.root_written = s.root_written
      /\ p.failed = s.failed /\ p.finalized = TRUE /\ p.room = s.room
      /\ p.exhaustion = s.exhaustion /\ p.error = s.error
  BY DEF IsWriter, Components
<1>3. /\ r = [i \in Components |-> r[i]]
      /\ r.length = s.length /\ r.stack = s.stack /\ r.root_written = s.root_written
      /\ r.failed = s.failed /\ r.finalized = s.finalized /\ r.room = s.room
      /\ r.exhaustion = s.exhaustion
      /\ s.error = NoError => r = [s EXCEPT !.error = "Invalid_State"]
  BY DEF IsWriter, Components
<1>4. s.error = NoError => Placed(q) /\ q.error = "Invalid_State"
  BY FailsPlaced DEF Refusals, IsWriter, Components, Json!Fail
<1>. SUFFICES /\ IsWriter(t)
              /\ s.error # NoError => t = s
              /\ s.error = NoError /\ Closed(s) => t = [s EXCEPT !.error = "Invalid_State"]
              /\ IsOpen(s) =>
                   \/ t.failed /\ ~t.finalized /\ t.error = "Invalid_State"
                   \/ t.finalized /\ ~t.failed /\ t.error = NoError /\ s.root_written
  OBVIOUS
<1>. HIDE DEF t, r, p, q
<1>5. IsWriter(p) /\ IsWriter(r)
  BY <1>2, <1>3 DEF IsWriter
<1>. QED
  BY <1>1, <1>2, <1>3, <1>4, <1>5 DEF IsOpen, Placed

\* A writer nobody has used is open and empty.
LEMMA FreshIsWriter ==
  ASSUME NEW b \in Backend, NEW room \in Nat, NEW x \in Json!Exhaustions
  PROVE  LET s == Fresh(b, room, x) IN
         /\ IsOpen(s) /\ s.stack = <<>> /\ s.root_written = FALSE /\ s.room = room
<1>. DEFINE s == Fresh(b, room, x)
<1>1. /\ s = [i \in Components |-> s[i]]
      /\ s.stack = <<>> /\ s.root_written = FALSE /\ s.failed = FALSE /\ s.finalized = FALSE
      /\ s.length = 0 /\ s.room = room /\ s.exhaustion = x /\ s.error = NoError
  BY DEF Fresh, Backend, Json!Fresh, Cbor!Fresh, Components
<1>. SUFFICES IsOpen(s) /\ s.stack = <<>> /\ s.root_written = FALSE /\ s.room = room
  OBVIOUS
<1>. HIDE DEF s
<1>2. s.exhaustion \in {"Capacity_Exceeded", "Storage_Error"}
  BY <1>1 DEF Json!Exhaustions
<1>3. s.stack \in Seq(Frames)
  BY <1>1, EmptySeq
<1>4. s.length \in Nat /\ s.room \in Nat /\ s.length <= s.room
  BY <1>1
<1>5. IsWriter(s)
  BY <1>1, <1>2, <1>3, <1>4 DEF IsWriter
<1>. QED
  BY <1>1, <1>5 DEF IsOpen

\* Nor has a Counter after Reset counted anything.
LEMMA FreshCounter ==
  ASSUME NEW b \in Backend
  PROVE  LET c == Counting!Reset(Capabilities(b), NoError) IN
         /\ IsCounter(c) /\ c.error = NoError /\ c.profile = Capabilities(b)
         /\ c.stack = <<>> /\ ~c.root_written /\ ~c.failed /\ ~c.finalized
<1>. DEFINE c == Counting!Reset(Capabilities(b), NoError)
<1>1. /\ c = [i \in CounterParts |-> c[i]]
      /\ c.stack = <<>> /\ c.events = 0 /\ c.root_written = FALSE
      /\ c.failed = FALSE /\ c.finalized = FALSE
      /\ c.profile = Capabilities(b) /\ c.error = NoError
  BY DEF Counting!Reset, CounterParts
<1>. SUFFICES /\ IsCounter(c) /\ c.error = NoError /\ c.profile = Capabilities(b)
              /\ c.stack = <<>> /\ ~c.root_written /\ ~c.failed /\ ~c.finalized
  OBVIOUS
<1>. HIDE DEF c
<1>2. SafeStack(<<>>) /\ 0 <= Limits.events
  BY LimitsAssumption, EmptySeq DEF SafeStack
<1>3. SafeStack(c.stack) /\ (c.stack # <<>> => c.root_written)
  BY <1>1, <1>2
<1>4. c.events \in Nat /\ c.events <= Limits.events
  BY <1>1, <1>2
<1>. QED
  BY <1>1, <1>3, <1>4 DEF IsCounter

\* The two begin alike.
LEMMA FreshAlike ==
  ASSUME NEW b \in Backend, NEW s, IsOpen(s), s.stack = <<>>, ~s.root_written
  PROVE  Alike(Counting!Reset(Capabilities(b), NoError), s)
<1>. DEFINE c == Counting!Reset(Capabilities(b), NoError)
<1>1. c.stack = <<>> /\ c.root_written = FALSE /\ c.failed = FALSE /\ c.finalized = FALSE
  BY DEF Counting!Reset
<1>. HIDE DEF c
<1>2. Tracks(c.stack, s.stack)
  BY <1>1, EmptySeq DEF Tracks
<1>3. Alike(c, s)
  BY <1>1, <1>2 DEF Alike, IsOpen, IsWriter
<1>. QED
  BY <1>3 DEF c

\* Finish_Document of the Counter.
LEMMA CounterFinishes ==
  ASSUME NEW c, IsCounter(c)
  PROVE  Counting!Finish_Document(c).error \in {c.error, "Invalid_State"}
  BY DEF Counting!Finish_Document, Counting!FinishWith, Counting!Reject, IsCounter, CounterParts

\* An event leaves the Counter of a backend going on or refusing with a code.
LEMMA CounterServes ==
  ASSUME NEW b \in Backend, NEW c, IsCounter(c), c.profile = Capabilities(b),
         Latched(c) \/ ~Closed(c), NEW e \in AnyEvents
  PROVE  LET t == Counting!Event(c, e) IN
         /\ IsCounter(t) /\ t.profile = c.profile
         /\ Latched(c) => t = c
         /\ t.error \in {c.error} \cup Codes
         /\ Latched(t) \/ ~Closed(t)
<1>. DEFINE t == Counting!Event(c, e)
<1>1. CASE Latched(c)
  <2>1. t = c
    BY <1>1, CounterDeclines DEF IsCounter, CounterParts
  <2>. QED
    BY <1>1, <2>1
<1>2. CASE ~Latched(c)
  <2>1. CounterOutcome(b, c, t, e) /\ ~c.finalized
    BY <1>2, CounterEvent
  <2>. HIDE DEF t
  <2>2. e.op \in Values \cup Begins \cup Ends \cup {"Put_Field"}
    BY EventShape
  <2>3. (\E code \in Codes : Refused(c, t, code)) \/ \E stack : Advanced(c, t, stack)
    BY <2>1, <2>2 DEF CounterOutcome, NoteOutcome, AdmitOutcome, LeaveOutcome, NameOutcome, Codes
  <2>. QED
    BY <1>2, <2>3 DEF Refused, Advanced, IsCounting, Codes, t
<1>. QED
  BY <1>1, <1>2

-----------------------------------------------------------------------------
(* A writer and its client's Error between two calls. *)

\* The client's Error changes, or the operation is aborted; nothing else does.
LEMMA ErrorIsAside ==
  ASSUME NEW s, IsWriter(s), NEW code
  PROVE  LET t == [s EXCEPT !.error = code] IN
         /\ IsWriter(t) /\ t.error = code /\ State(t) = State(s)
         /\ t.stack = s.stack /\ t.root_written = s.root_written /\ t.length = s.length
         /\ t.failed = s.failed /\ t.finalized = s.finalized /\ t.room = s.room
         /\ \A b : Document(b, t) = Document(b, s)
         /\ s.error = code => t = s
<1>. DEFINE t == [s EXCEPT !.error = code]
<1>1. /\ t = [i \in Components |-> t[i]]
      /\ t.length = s.length /\ t.stack = s.stack /\ t.root_written = s.root_written
      /\ t.failed = s.failed /\ t.finalized = s.finalized /\ t.room = s.room
      /\ t.exhaustion = s.exhaustion /\ t.error = code /\ t.text = s.text
      /\ s.error = code => t = s
  BY DEF IsWriter, Components
<1>. HIDE DEF t
<1>2. IsWriter(t)
  BY <1>1 DEF IsWriter
<1>3. State(t) = State(s) /\ \A b : Document(b, t) = Document(b, s)
  BY <1>1 DEF State, Document, Json!Document, Cbor!Document, Json!Complete, Cbor!Complete
<1>. QED
  BY <1>1, <1>2, <1>3 DEF t

\* Abort_Document.
LEMMA AbortPoisons ==
  ASSUME NEW s, IsWriter(s)
  PROVE  LET t == Abort_Document(s) IN
         /\ IsWriter(t) /\ t.error = s.error /\ State(t) = "Poisoned"
         /\ \A b : Document(b, t) = {}
<1>. DEFINE t == Abort_Document(s)
<1>1. /\ t = [i \in Components |-> t[i]]
      /\ t.length = s.length /\ t.stack = <<>> /\ t.root_written = s.root_written
      /\ t.failed = TRUE /\ t.finalized = FALSE /\ t.room = s.room
      /\ t.exhaustion = s.exhaustion /\ t.error = s.error
  BY DEF Abort_Document, IsWriter, Components
<1>. HIDE DEF t
<1>2. IsWriter(t)
  BY <1>1, EmptySeq DEF IsWriter
<1>3. State(t) = "Poisoned" /\ \A b : Document(b, t) = {}
  BY <1>1 DEF State, Document, Json!Document, Cbor!Document, Json!Complete, Cbor!Complete
<1>. QED
  BY <1>1, <1>2, <1>3 DEF t

\* Reset.
LEMMA ResetReadies ==
  ASSUME NEW b \in Backend, NEW s, IsWriter(s)
  PROVE  LET t == WriterReset(b, s) IN
         /\ IsWriter(t) /\ t.error = s.error /\ State(t) = "Ready" /\ Document(b, t) = {}
<1>. DEFINE t == WriterReset(b, s)
<1>1. /\ t = [i \in Components |-> t[i]]
      /\ t.length = 0 /\ t.stack = <<>> /\ t.root_written = FALSE
      /\ t.failed = FALSE /\ t.finalized = FALSE /\ t.room = s.room
      /\ t.exhaustion = s.exhaustion /\ t.error = s.error
  BY DEF WriterReset, Json!Reset_Writer, Cbor!Reset_Writer, IsWriter, Components
<1>. HIDE DEF t
<1>2. t.length \in Nat /\ t.room \in Nat /\ t.length <= t.room
  BY <1>1 DEF IsWriter
<1>3. IsWriter(t)
  BY <1>1, <1>2, EmptySeq DEF IsWriter
<1>4. State(t) = "Ready" /\ Document(b, t) = {}
  BY <1>1 DEF State, Document, Json!Document, Cbor!Document, Json!Complete, Cbor!Complete
<1>. QED
  BY <1>1, <1>3, <1>4 DEF t

\* The caller after the call has an Error it can read.
LEMMA ReturnedIsWriter ==
  ASSUME NEW s, IsWriter(s)
  PROVE  LET t == Returned(s) IN
         /\ IsWriter(t) /\ State(t) = State(s)
         /\ t.failed = s.failed /\ t.finalized = s.finalized
         /\ t.error = IF s.error = Raised THEN NoError ELSE s.error
         /\ \A b : Document(b, t) = Document(b, s)
  BY ErrorIsAside DEF Returned

\* A writer is Ready with a clear Error when it is open and untouched; nothing is published
\* of one that is not Finished.
LEMMA StateFacts ==
  ASSUME NEW s, IsWriter(s)
  PROVE  /\ State(s) \in {"Ready", "Active"} <=> ~Closed(s)
         /\ State(s) = "Ready" <=> ~Closed(s) /\ ~s.root_written
         /\ State(s) = "Poisoned" <=> s.failed
         /\ State(s) = "Finished" <=> s.finalized /\ ~s.failed
         /\ State(s) = "Ready" => s.stack = <<>>
         /\ \A b : State(s) # "Finished" => Document(b, s) = {}
         /\ \A b : State(s) = "Finished" => Document(b, s) # {}
  BY DEF IsWriter, State, Document, Json!Document, Cbor!Document, Json!Complete, Cbor!Complete

\* What a client sees of a call, by the contract of the interface.
Obeys(b, s, t) ==
  LET open == State(s) \in {"Ready", "Active"}
      same == State(t) = State(s) /\ Document(b, t) = Document(b, s)
      silent == Document(b, s) = {} /\ Document(b, t) = {}
  IN  \/ t = s
      \/ ~open /\ s.error = NoError /\ t.error = "Invalid_State" /\ same
      \/ open /\ s.error = NoError /\ State(t) = "Active" /\ t.error = NoError /\ silent
      \/ /\ open /\ s.error = NoError /\ State(t) = "Poisoned"
         /\ t.error # "Application_Error" /\ silent
      \/ /\ State(s) = "Active" /\ s.error = NoError /\ State(t) = "Finished"
         /\ t.error = NoError /\ Document(b, s) = {} /\ Document(b, t) # {}
      \/ State(t) \in {"Poisoned", "Ready"} /\ t.error = s.error /\ Document(b, t) = {}
      \/ t.error \in {NoError, "Application_Error"} /\ same

\* A call the writer was not in a state to take.
LEMMA MisuseObeys ==
  ASSUME NEW b, NEW s, IsWriter(s), s.error = NoError, Closed(s),
         NEW u, u = [s EXCEPT !.error = "Invalid_State"]
  PROVE  Obeys(b, s, Returned(u))
<1>1. /\ IsWriter(u) /\ u.error = "Invalid_State" /\ State(u) = State(s)
      /\ Document(b, u) = Document(b, s)
  BY ErrorIsAside
<1>2. Returned(u) = u
  BY <1>1 DEF Returned
<1>3. State(s) \notin {"Ready", "Active"}
  BY StateFacts
<1>. QED
  BY <1>1, <1>2, <1>3 DEF Obeys

\* What the caller has after a call that left the writer as `u`.
LEMMA CallerSees ==
  ASSUME NEW b, NEW u, IsWriter(u)
  PROVE  LET t == Returned(u) IN
         /\ State(t) = State(u) /\ Document(b, t) = Document(b, u)
         /\ t.error = IF u.error = Raised THEN NoError ELSE u.error
         /\ u.error # Raised => t = u
         /\ State(u) # "Finished" => Document(b, t) = {}
         /\ u.failed => State(u) = "Poisoned"
         /\ ~Closed(u) /\ u.root_written => State(u) = "Active"
         /\ u.finalized /\ ~u.failed => State(u) = "Finished" /\ Document(b, u) # {}
  BY ReturnedIsWriter, StateFacts DEF Returned, State

\* An event.
LEMMA ServedObeys ==
  ASSUME NEW b, NEW s, IsWriter(s), s.error # Raised, NEW u, Served(s, u)
  PROVE  Obeys(b, s, Returned(u))
<1>. DEFINE t == Returned(u)
<1>1. IsWriter(u)
  BY DEF Served
<1>2. /\ State(t) = State(u) /\ Document(b, t) = Document(b, u)
      /\ t.error = IF u.error = Raised THEN NoError ELSE u.error
      /\ u.error # Raised => t = u
      /\ State(u) # "Finished" => Document(b, t) = {}
      /\ u.failed => State(u) = "Poisoned"
      /\ ~Closed(u) /\ u.root_written => State(u) = "Active"
  BY <1>1, CallerSees
<1>. HIDE DEF t
<1>3. CASE s.error # NoError
  BY <1>2, <1>3 DEF Served, Obeys, t
<1>4. CASE s.error = NoError /\ Closed(s)
  BY <1>4, MisuseObeys DEF Served
<1>5. CASE s.error = NoError /\ ~Closed(s)
  <2>1. IsOpen(s) /\ State(s) \in {"Ready", "Active"} /\ Document(b, s) = {}
    BY <1>5, StateFacts DEF IsOpen
  <2>2. Placed(u)
    BY <2>1 DEF Served
  <2>3. CASE u.error = NoError
    <3>1. ~Closed(u) /\ u.root_written
      BY <2>2, <2>3 DEF Placed
    <3>. QED
      BY <1>2, <1>5, <2>1, <2>3, <3>1 DEF Obeys, t
  <2>4. CASE u.error # NoError
    <3>1. u.failed /\ u.error # "Application_Error"
      BY <2>2, <2>4 DEF Placed, Refusals
    <3>2. State(t) = "Poisoned" /\ t.error # "Application_Error" /\ Document(b, t) = {}
      BY <1>2, <3>1
    <3>. QED
      BY <1>5, <2>1, <3>2 DEF Obeys, t
  <2>. QED
    BY <2>3, <2>4
<1>. QED
  BY <1>3, <1>4, <1>5

\* Finish_Document.
LEMMA FinishObeys ==
  ASSUME NEW b \in Backend, NEW s, IsWriter(s), s.error # Raised
  PROVE  Obeys(b, s, Returned(WriterFinish(b, s)))
<1>. DEFINE u == WriterFinish(b, s)
            t == Returned(u)
<1>1. /\ IsWriter(u)
      /\ s.error # NoError => u = s
      /\ s.error = NoError /\ Closed(s) => u = [s EXCEPT !.error = "Invalid_State"]
      /\ IsOpen(s) =>
           \/ u.failed /\ ~u.finalized /\ u.error = "Invalid_State"
           \/ u.finalized /\ ~u.failed /\ u.error = NoError /\ s.root_written
  BY FinishServes
<1>. HIDE DEF u
<1>2. /\ State(t) = State(u) /\ Document(b, t) = Document(b, u)
      /\ t.error = IF u.error = Raised THEN NoError ELSE u.error
      /\ u.error # Raised => t = u
      /\ State(u) # "Finished" => Document(b, t) = {}
      /\ u.failed => State(u) = "Poisoned"
      /\ u.finalized /\ ~u.failed => State(u) = "Finished" /\ Document(b, u) # {}
  BY <1>1, CallerSees
<1>. HIDE DEF t
<1>3. CASE s.error # NoError
  BY <1>1, <1>2, <1>3 DEF Obeys, t, u
<1>4. CASE s.error = NoError /\ Closed(s)
  BY <1>1, <1>4, MisuseObeys DEF u
<1>5. CASE s.error = NoError /\ ~Closed(s)
  <2>1. IsOpen(s) /\ State(s) \in {"Ready", "Active"} /\ Document(b, s) = {}
    BY <1>5, StateFacts DEF IsOpen
  <2>2. CASE u.failed /\ ~u.finalized /\ u.error = "Invalid_State"
    <3>1. State(t) = "Poisoned" /\ t.error # "Application_Error" /\ Document(b, t) = {}
      BY <1>2, <2>2
    <3>. QED
      BY <1>5, <2>1, <3>1 DEF Obeys, t, u
  <2>3. CASE u.finalized /\ ~u.failed /\ u.error = NoError /\ s.root_written
    <3>1. State(s) = "Active" /\ State(t) = "Finished" /\ t.error = NoError /\ Document(b, t) # {}
      BY <1>2, <1>5, <2>3 DEF State
    <3>. QED
      BY <1>5, <2>1, <3>1 DEF Obeys, t, u
  <2>. QED
    BY <1>1, <2>1, <2>2, <2>3
<1>. QED
  BY <1>3, <1>4, <1>5

\* Abort_Document, Reset, and the client's own Error.
LEMMA ClientObeys ==
  ASSUME NEW b \in Backend, NEW s, IsWriter(s), s.error # Raised
  PROVE  /\ Obeys(b, s, Returned(Abort_Document(s)))
         /\ Obeys(b, s, Returned(WriterReset(b, s)))
         /\ \A c \in {NoError, "Application_Error"} : Obeys(b, s, [s EXCEPT !.error = c])
<1>1. ASSUME NEW u, IsWriter(u), u.error = s.error, State(u) \in {"Poisoned", "Ready"},
             Document(b, u) = {}
      PROVE  Obeys(b, s, Returned(u))
  <2>1. Returned(u) = u
    BY <1>1 DEF Returned
  <2>. QED
    BY <1>1, <2>1 DEF Obeys
<1>2. \A c : LET u == [s EXCEPT !.error = c] IN
             /\ u.error = c /\ State(u) = State(s) /\ Document(b, u) = Document(b, s)
  BY ErrorIsAside
<1>3. Obeys(b, s, Returned(Abort_Document(s)))
  BY <1>1, AbortPoisons
<1>4. Obeys(b, s, Returned(WriterReset(b, s)))
  BY <1>1, ResetReadies
<1>5. ASSUME NEW c \in {NoError, "Application_Error"}
      PROVE  Obeys(b, s, [s EXCEPT !.error = c])
  BY <1>2 DEF Obeys
<1>. QED
  BY <1>3, <1>4, <1>5

-----------------------------------------------------------------------------
(* The output of the JSON writer. *)

Brackets == {"array", "object"}

\* The brackets open inside a frame whose own surroundings are `o`: an entry of a map has one
\* of its own, open while it has only its key, or a child (`inner`) is under way.
Bracketed(o, f, inner) ==
  IF f.kind \in {"optional", "sequence"} THEN Append(o, "array")
  ELSE IF f.kind = "map"
  THEN IF inner \/ f.waiting THEN Append(Append(o, "array"), "array") ELSE Append(o, "array")
  ELSE IF f.kind = "record" THEN Append(o, "object") ELSE Append(Append(o, "array"), "object")

\* The brackets open inside the frames of `stack`, layer by layer.
Nested(stack, inner, open) ==
  \E layers \in [0..Len(stack) -> Seq(Brackets)] :
    /\ layers[0] = <<>> /\ layers[Len(stack)] = open
    /\ \A i \in 1..Len(stack) :
         layers[i] = Bracketed(layers[i - 1], stack[i], inner \/ i < Len(stack))

\* The last of an extended sequence comes off again.
LEMMA OuterOf ==
  ASSUME NEW o \in Seq(Brackets), NEW b \in Brackets
  PROVE  /\ Append(o, b) \in Seq(Brackets) /\ Append(o, b) # <<>>
         /\ Json!Grammar!Outer(Append(o, b)) = o
         /\ \A g : g.open = Append(o, b) =>
              Json!Grammar!Inside(g, b) /\ \A c : c # b => ~Json!Grammar!Inside(g, c)
<1>1. /\ Append(o, b) \in Seq(Brackets) /\ Append(o, b) # <<>>
      /\ Len(Append(o, b)) = Len(o) + 1 /\ Append(o, b)[Len(o) + 1] = b
      /\ \A i \in 1..Len(o) : Append(o, b)[i] = o[i]
  BY AppendProperties
<1>2. Json!Grammar!Outer(Append(o, b)) = o
  <2>. DEFINE t == SubSeq(Append(o, b), 1, Len(o))
  <2>1. Len(o) \in Nat /\ \A i \in 1..Len(o) : Append(o, b)[i] \in Brackets
    BY <1>1, LenProperties, ElementOfSeq
  <2>2. /\ t \in Seq(Brackets) /\ Len(t) = Len(o)
        /\ \A i \in 1..Len(o) : t[i] = o[i]
    BY <1>1, <2>1, SubSeqProperties
  <2>3. t = o
    BY <2>2, SeqEqual
  <2>. QED
    BY <1>1, <2>1, <2>3 DEF Json!Grammar!Outer
<1>. QED
  BY <1>1, <1>2 DEF Json!Grammar!Inside

\* What each token does where it may stand.
LEMMA TokensRead ==
  ASSUME NEW o \in Seq(Brackets)
  PROVE  LET G(open, expect) == [open |-> open, expect |-> expect]
             a == Append(o, "array")
             b == Append(o, "object")
         IN
         /\ \A x \in {"value", "first"} :
              /\ Json!Grammar!ReadToken(G(o, x), "scalar") = Json!Grammar!ValueRead(o)
              /\ Json!Grammar!ReadToken(G(o, x), "string") = Json!Grammar!ValueRead(o)
              /\ Json!Grammar!ReadToken(G(o, x), "[") = G(a, "first")
              /\ Json!Grammar!ReadToken(G(o, x), "{") = G(b, "member")
         /\ \A x \in {"first", "next"} :
              Json!Grammar!ReadToken(G(a, x), "]") = Json!Grammar!ValueRead(o)
         /\ \A x \in {"member", "next"} :
              Json!Grammar!ReadToken(G(b, x), "}") = Json!Grammar!ValueRead(o)
         /\ Json!Grammar!ReadToken(G(a, "next"), ",") = G(a, "value")
         /\ Json!Grammar!ReadToken(G(b, "next"), ",") = G(b, "name")
         /\ \A x \in {"member", "name"} :
              Json!Grammar!ReadToken(G(o, x), "string") = G(o, "colon")
         /\ Json!Grammar!ReadToken(G(o, "colon"), ":") = G(o, "value")
<1>. DEFINE G(open, expect) == [open |-> open, expect |-> expect]
           a == Append(o, "array")
           b == Append(o, "object")
<1>1. /\ a # <<>> /\ Json!Grammar!Outer(a) = o
      /\ \A x : Json!Grammar!Inside(G(a, x), "array") /\ ~Json!Grammar!Inside(G(a, x), "object")
  BY OuterOf DEF Brackets
<1>2. /\ b # <<>> /\ Json!Grammar!Outer(b) = o
      /\ \A x : Json!Grammar!Inside(G(b, x), "object") /\ ~Json!Grammar!Inside(G(b, x), "array")
  BY OuterOf DEF Brackets
<1>. HIDE DEF a, b
<1>3. \A x \in {"value", "first"} :
        /\ Json!Grammar!ReadToken(G(o, x), "scalar") = Json!Grammar!ValueRead(o)
        /\ Json!Grammar!ReadToken(G(o, x), "string") = Json!Grammar!ValueRead(o)
  BY DEF Json!Grammar!ReadToken
<1>4. \A x \in {"value", "first"} :
        /\ Json!Grammar!ReadToken(G(o, x), "[") = G(a, "first")
        /\ Json!Grammar!ReadToken(G(o, x), "{") = G(b, "member")
  BY DEF Json!Grammar!ReadToken, a, b
<1>5. \A x \in {"first", "next"} :
        Json!Grammar!ReadToken(G(a, x), "]") = Json!Grammar!ValueRead(o)
  BY <1>1 DEF Json!Grammar!ReadToken
<1>6. \A x \in {"member", "next"} :
        Json!Grammar!ReadToken(G(b, x), "}") = Json!Grammar!ValueRead(o)
  BY <1>2 DEF Json!Grammar!ReadToken
<1>7. Json!Grammar!ReadToken(G(a, "next"), ",") = G(a, "value")
  BY <1>1 DEF Json!Grammar!ReadToken
<1>8. Json!Grammar!ReadToken(G(b, "next"), ",") = G(b, "name")
  BY <1>2 DEF Json!Grammar!ReadToken
<1>9. /\ \A x \in {"member", "name"} :
           Json!Grammar!ReadToken(G(o, x), "string") = G(o, "colon")
      /\ Json!Grammar!ReadToken(G(o, "colon"), ":") = G(o, "value")
  BY DEF Json!Grammar!ReadToken
<1>. QED
  BY <1>3, <1>4, <1>5, <1>6, <1>7, <1>8, <1>9 DEF a, b

\* Whatever a frame is, what is open inside it goes on from its surroundings.
LEMMA BracketedIsOpen ==
  ASSUME NEW o \in Seq(Brackets), NEW f, NEW inner
  PROVE  Bracketed(o, f, inner) \in Seq(Brackets) /\ Bracketed(o, f, inner) # <<>>
<1>1. \A p \in Seq(Brackets) : /\ Append(p, "array") \in Seq(Brackets) /\ Append(p, "array") # <<>>
                               /\ Append(p, "object") \in Seq(Brackets) /\ Append(p, "object") # <<>>
  BY OuterOf DEF Brackets
<1>. QED
  BY <1>1 DEF Bracketed

\* Nothing is open outside the outermost frame.
LEMMA NestedEmpty ==
  ASSUME NEW open
  PROVE  /\ Nested(<<>>, FALSE, open) <=> open = <<>>
         /\ Nested(<<>>, TRUE, open) <=> open = <<>>
<1>1. ASSUME NEW inner \in BOOLEAN, Nested(<<>>, inner, open)
      PROVE  open = <<>>
  BY <1>1 DEF Nested
<1>2. ASSUME NEW inner \in BOOLEAN, open = <<>>
      PROVE  Nested(<<>>, inner, open)
  <2>. DEFINE layers == [i \in 0..0 |-> <<>>]
  <2>1. layers \in [0..Len(<<>>) -> Seq(Brackets)] /\ layers[0] = <<>>
    OBVIOUS
  <2>. HIDE DEF layers
  <2>. QED
    BY <1>2, <2>1 DEF Nested
<1>. QED
  BY <1>1, <1>2

\* A frame pushed.
LEMMA NestedPush ==
  ASSUME NEW stack \in Seq(Frames), NEW open \in Seq(Brackets), Nested(stack, TRUE, open),
         NEW f \in Frames, NEW inner \in BOOLEAN
  PROVE  Nested(Append(stack, f), inner, Bracketed(open, f, inner))
<1>. DEFINE n == Len(stack)
            new == Append(stack, f)
<1>1. n \in Nat /\ Len(new) = n + 1 /\ new[n + 1] = f /\ \A i \in 1..n : new[i] = stack[i]
  BY AppendProperties, LenProperties
<1>2. PICK layers \in [0..n -> Seq(Brackets)] :
        /\ layers[0] = <<>> /\ layers[n] = open
        /\ \A i \in 1..n : layers[i] = Bracketed(layers[i - 1], stack[i], TRUE \/ i < n)
  BY DEF Nested
<1>. DEFINE next == [i \in 0..(n + 1) |-> IF i = n + 1 THEN Bracketed(open, f, inner) ELSE layers[i]]
<1>3. next \in [0..(n + 1) -> Seq(Brackets)]
  BY <1>1, <1>2, BracketedIsOpen
<1>4. next[0] = <<>> /\ next[n + 1] = Bracketed(open, f, inner)
  BY <1>1, <1>2
<1>5. ASSUME NEW i \in 1..(n + 1)
      PROVE  next[i] = Bracketed(next[i - 1], new[i], inner \/ i < n + 1)
  <2>1. CASE i = n + 1
    <3>1. next[i - 1] = open /\ next[i] = Bracketed(open, f, inner) /\ new[i] = f
      BY <1>1, <1>2, <2>1
    <3>2. (inner \/ i < n + 1) = inner
      BY <1>1, <2>1
    <3>. QED
      BY <3>1, <3>2
  <2>2. CASE i # n + 1
    <3>1. i \in 1..n /\ i - 1 \in 0..n /\ i \in 0..n
      BY <1>1, <2>2
    <3>2. next[i - 1] = layers[i - 1] /\ next[i] = layers[i] /\ new[i] = stack[i]
      BY <1>1, <3>1
    <3>3. (inner \/ i < n + 1) = TRUE /\ (TRUE \/ i < n) = TRUE
      BY <1>1, <3>1
    <3>4. layers[i] = Bracketed(layers[i - 1], stack[i], TRUE \/ i < n)
      BY <1>2, <3>1
    <3>. QED
      BY <3>2, <3>3, <3>4
  <2>. QED
    BY <2>1, <2>2
<1>. HIDE DEF next
<1>. QED
  BY <1>1, <1>3, <1>4, <1>5 DEF Nested

\* The innermost frame, and what is open around it.
LEMMA NestedTop ==
  ASSUME NEW stack \in Seq(Frames), stack # <<>>, NEW inner \in BOOLEAN, NEW open,
         Nested(stack, inner, open)
  PROVE  \E p \in Seq(Brackets) :
           Nested(Popped(stack), TRUE, p) /\ open = Bracketed(p, LastOf(stack), inner)
<1>. DEFINE n == Len(stack)
            rest == Popped(stack)
<1>1. n \in Nat \ {0} /\ Len(rest) = n - 1 /\ \A i \in 1..(n - 1) : rest[i] = stack[i]
  BY PoppedIsStack, TopIsFrame
<1>2. PICK layers \in [0..n -> Seq(Brackets)] :
        /\ layers[0] = <<>> /\ layers[n] = open
        /\ \A i \in 1..n : layers[i] = Bracketed(layers[i - 1], stack[i], inner \/ i < n)
  BY DEF Nested
<1>. DEFINE p == layers[n - 1]
            under == [i \in 0..(n - 1) |-> layers[i]]
<1>3. p \in Seq(Brackets) /\ under \in [0..(n - 1) -> Seq(Brackets)]
      /\ under[0] = <<>> /\ under[n - 1] = p
  <2>1. n - 1 \in 0..(n - 1) /\ 0 \in 0..(n - 1) /\ 0..(n - 1) \subseteq 0..n
    BY <1>1
  <2>2. \A i \in 0..(n - 1) : layers[i] \in Seq(Brackets)
    BY <1>2, <2>1
  <2>. HIDE DEF n
  <2>. QED
    BY <1>2, <2>1, <2>2
<1>4. ASSUME NEW i \in 1..(n - 1)
      PROVE  under[i] = Bracketed(under[i - 1], rest[i], TRUE \/ i < n - 1)
  <2>1. under[i] = layers[i] /\ under[i - 1] = layers[i - 1] /\ rest[i] = stack[i] /\ i \in 1..n
    BY <1>1
  <2>2. (inner \/ i < n) = TRUE /\ (TRUE \/ i < n - 1) = TRUE
    BY <1>1
  <2>3. layers[i] = Bracketed(layers[i - 1], stack[i], inner \/ i < n)
    BY <1>2, <2>1
  <2>. QED
    BY <2>1, <2>2, <2>3
<1>5. open = Bracketed(p, LastOf(stack), inner)
  <2>1. layers[n] = Bracketed(layers[n - 1], stack[n], inner \/ n < n)
    BY <1>1, <1>2
  <2>2. (inner \/ n < n) = inner
    BY <1>1
  <2>. QED
    BY <1>2, <2>1, <2>2 DEF LastOf
<1>. HIDE DEF under
<1>6. Nested(rest, TRUE, p)
  BY <1>1, <1>3, <1>4 DEF Nested
<1>. QED
  BY <1>3, <1>5, <1>6

\* The innermost frame replaced.
LEMMA NestedSet ==
  ASSUME NEW stack \in Seq(Frames), stack # <<>>, NEW p \in Seq(Brackets),
         Nested(Popped(stack), TRUE, p), NEW f \in Frames, NEW inner \in BOOLEAN
  PROVE  Nested([stack EXCEPT ![Len(stack)] = f], inner, Bracketed(p, f, inner))
<1>. DEFINE n == Len(stack)
            set == [stack EXCEPT ![n] = f]
            rest == Popped(stack)
<1>1. /\ n \in Nat \ {0} /\ rest \in Seq(Frames) /\ Len(rest) = n - 1
      /\ \A i \in 1..(n - 1) : rest[i] = stack[i]
  BY PoppedIsStack, TopIsFrame
<1>2. set \in Seq(Frames) /\ Len(set) = n /\ set[n] = f /\ \A i \in 1..n : i # n => set[i] = stack[i]
  BY TopSet DEF LastOf
<1>3. /\ Append(rest, f) \in Seq(Frames) /\ Len(Append(rest, f)) = n /\ Append(rest, f)[n] = f
      /\ \A i \in 1..(n - 1) : Append(rest, f)[i] = rest[i]
  BY <1>1, AppendProperties
<1>4. Append(rest, f) = set
  <2>. HIDE DEF set, rest
  <2>1. \A i \in 1..n : Append(rest, f)[i] = set[i]
    BY <1>1, <1>2, <1>3
  <2>. QED
    BY <1>1, <1>2, <1>3, <2>1, SeqEqual
<1>5. Nested(Append(rest, f), inner, Bracketed(p, f, inner))
  BY <1>1, NestedPush
<1>. QED
  BY <1>4, <1>5

\* A frame that is replaced by one with the same brackets.
LEMMA NestedSame ==
  ASSUME NEW stack \in Seq(Frames), stack # <<>>, NEW p \in Seq(Brackets),
         Nested(Popped(stack), TRUE, p)
  PROVE  /\ Nested(stack, TRUE, Bracketed(p, LastOf(stack), TRUE))
         /\ Nested(Entered(stack), TRUE, Bracketed(p, LastOf(stack), TRUE))
         /\ Nested(Completed(stack), FALSE, Bracketed(p, CompletedFrame(LastOf(stack)), FALSE))
         /\ Nested(Field(stack), FALSE,
                   Bracketed(p, [LastOf(stack) EXCEPT !.waiting = TRUE], FALSE))
<1>. DEFINE f == LastOf(stack)
            n == Len(stack)
<1>1. /\ f \in Frames /\ EnteredFrame(f) \in Frames /\ CompletedFrame(f) \in Frames
      /\ [f EXCEPT !.waiting = TRUE] \in Frames
  BY TopIsFrame, FrameFacts
<1>2. \A g \in Frames, inner \in BOOLEAN :
        Nested([stack EXCEPT ![n] = g], inner, Bracketed(p, g, inner))
  BY NestedSet
<1>3. [stack EXCEPT ![n] = f] = stack
  <2>1. /\ [stack EXCEPT ![n] = f] \in Seq(Frames) /\ Len([stack EXCEPT ![n] = f]) = n
        /\ LastOf([stack EXCEPT ![n] = f]) = f
        /\ \A i \in 1..n : i # n => [stack EXCEPT ![n] = f][i] = stack[i]
    BY <1>1, TopSet
  <2>. HIDE DEF f
  <2>2. \A i \in 1..n : [stack EXCEPT ![n] = f][i] = stack[i]
    BY <2>1 DEF LastOf, f
  <2>. QED
    BY <2>1, <2>2, SeqEqual
<1>4. /\ Entered(stack) = [stack EXCEPT ![n] = EnteredFrame(f)]
      /\ Bracketed(p, EnteredFrame(f), TRUE) = Bracketed(p, f, TRUE)
  <2>1. CASE f.kind = "map"
    <3>1. Entered(stack) = [stack EXCEPT ![n] = EnteredFrame(f)]
      BY <2>1 DEF Entered, EnteredFrame
    <3>2. EnteredFrame(f).kind = "map" /\ EnteredFrame(f).waiting = f.waiting
      BY <1>1, <2>1 DEF EnteredFrame, Frames
    <3>. QED
      BY <2>1, <3>1, <3>2 DEF Bracketed
  <2>2. CASE f.kind # "map"
    <3>1. EnteredFrame(f) = f /\ Entered(stack) = stack
      BY <2>2 DEF Entered, EnteredFrame
    <3>. QED
      BY <1>3, <3>1
  <2>. QED
    BY <2>1, <2>2
<1>5. Completed(stack) = [stack EXCEPT ![n] = CompletedFrame(f)]
  BY DEF Completed, CompletedFrame
<1>6. Field(stack) = [stack EXCEPT ![n] = [f EXCEPT !.waiting = TRUE]]
  BY DEF Field
<1>. HIDE DEF f, n
<1>. QED
  BY <1>1, <1>2, <1>3, <1>4, <1>5, <1>6 DEF f, n

-----------------------------------------------------------------------------
(* What the reader of the JSON writer's output expects, event after event. *)

Spot(open, expect) == [open |-> open, expect |-> expect]

\* The next token of a document whose frames are `stack`.
JsonExpects(stack, written) ==
  IF stack = <<>> THEN IF written THEN "end" ELSE "value"
  ELSE LET f == LastOf(stack) IN
       IF f.kind \in {"record", "variant"}
       THEN IF f.waiting THEN "value" ELSE IF f.observed = 0 THEN "member" ELSE "next"
       ELSE IF f.kind = "optional" \/ f.observed # 0 \/ (f.kind = "map" /\ f.waiting)
            THEN "next" ELSE "first"

\* Between two events; where a value may begin; where one has just ended.
JsonSpelled(t) ==
  \E open \in Seq(Brackets) :
    /\ Nested(t.stack, FALSE, open)
    /\ t.text = Spot(open, JsonExpects(t.stack, t.root_written))

JsonAwaits(t) ==
  \E open \in Seq(Brackets), x \in {"value", "first"} :
    Nested(t.stack, TRUE, open) /\ t.text = Spot(open, x)

JsonHasRead(t) ==
  \E open \in Seq(Brackets) :
    Nested(t.stack, TRUE, open) /\ t.text = Json!Grammar!ValueRead(open)

\* A string of one token.
LEMMA OneToken ==
  \A g, x : Json!Grammar!ReadTokens(g, <<x>>) = Json!Grammar!ReadToken(g, x)
  BY DEF Json!Grammar!ReadTokens

\* What a successful Emit appends.
LEMMA JsonEmitted ==
  ASSUME NEW s, IsOpen(s), s.root_written, NEW tokens, Json!Emit(s, tokens).error = NoError
  PROVE  /\ Leads(Json!Emit(s, tokens), s.stack)
         /\ Json!Emit(s, tokens).text = Json!Grammar!ReadTokens(s.text, tokens)
<1>1. Leads(Json!Emit(s, tokens), s.stack)
  BY JsonEmit DEF Lost
<1>2. ~Latched(s) /\ ~s.failed /\ s = [i \in Components |-> s[i]]
  BY DEF IsOpen, IsWriter
<1>3. CASE s.length < s.room
  BY <1>1, <1>2, <1>3 DEF Json!Emit, Components
<1>4. CASE ~(s.length < s.room)
  <2>1. Json!Emit(s, tokens).failed = TRUE
    BY <1>2, <1>4 DEF Json!Emit, Json!EmitBounded, Json!EmitAllocating, Json!Fail, Components
  <2>. QED
    BY <1>1, <2>1 DEF Leads, IsOpen
<1>. QED
  BY <1>3, <1>4

\* Completed brackets, named by what they enclose.
LEMMA ValuesRead ==
  ASSUME NEW o \in Seq(Brackets)
  PROVE  Json!Grammar!ValueRead(o) = Spot(o, IF o = <<>> THEN "end" ELSE "next")
  BY DEF Json!Grammar!ValueRead, Spot

\* Where a value may begin, and what its last token leaves.
LEMMA JsonSpots ==
  ASSUME NEW o \in Seq(Brackets)
  PROVE  LET a == Append(o, "array")
             b == Append(o, "object")
             R(open, x, tokens) == Json!Grammar!ReadTokens(Spot(open, x), tokens)
         IN
         /\ \A x \in {"value", "first"} :
              /\ R(o, x, <<"scalar">>) = Json!Grammar!ValueRead(o)
              /\ R(o, x, <<"string">>) = Json!Grammar!ValueRead(o)
              /\ R(o, x, <<"[">>) = Spot(a, "first")
              /\ R(o, x, <<"{">>) = Spot(b, "member")
              /\ R(o, x, <<"[", "scalar">>) = Spot(a, "next")
              /\ R(o, x, <<"{", "string", ":">>) = Spot(b, "value")
         /\ R(b, "value", <<"string", "}">>) = Json!Grammar!ValueRead(o)
         /\ \A x \in {"first", "next"} : R(a, x, <<"]">>) = Json!Grammar!ValueRead(o)
         /\ \A x \in {"member", "next"} : R(b, x, <<"}">>) = Json!Grammar!ValueRead(o)
         /\ R(a, "next", <<",">>) = Spot(a, "value")
         /\ R(b, "next", <<",">>) = Spot(b, "name")
         /\ \A x \in {"member", "name"} : R(o, x, <<"string">>) = Spot(o, "colon")
         /\ R(o, "colon", <<":">>) = Spot(o, "value")
         /\ R(a, "first", <<"string">>) = Spot(a, "next")
         /\ R(a, "next", <<",", "{">>) = Spot(Append(a, "object"), "member")
         /\ \A x \in {"member", "next"} :
              R(Append(a, "object"), x, <<"}", "]">>) = Json!Grammar!ValueRead(o)
<1>. DEFINE a == Append(o, "array")
            b == Append(o, "object")
            ab == Append(a, "object")
<1>1. /\ a \in Seq(Brackets) /\ a # <<>> /\ b \in Seq(Brackets) /\ b # <<>>
      /\ ab \in Seq(Brackets) /\ ab # <<>>
  BY OuterOf DEF Brackets
<1>2. /\ \A x \in {"value", "first"} :
           /\ Json!Grammar!ReadToken(Spot(o, x), "scalar") = Json!Grammar!ValueRead(o)
           /\ Json!Grammar!ReadToken(Spot(o, x), "string") = Json!Grammar!ValueRead(o)
           /\ Json!Grammar!ReadToken(Spot(o, x), "[") = Spot(a, "first")
           /\ Json!Grammar!ReadToken(Spot(o, x), "{") = Spot(b, "member")
      /\ \A x \in {"first", "next"} :
           Json!Grammar!ReadToken(Spot(a, x), "]") = Json!Grammar!ValueRead(o)
      /\ \A x \in {"member", "next"} :
           Json!Grammar!ReadToken(Spot(b, x), "}") = Json!Grammar!ValueRead(o)
      /\ Json!Grammar!ReadToken(Spot(a, "next"), ",") = Spot(a, "value")
      /\ Json!Grammar!ReadToken(Spot(b, "next"), ",") = Spot(b, "name")
      /\ \A x \in {"member", "name"} :
           Json!Grammar!ReadToken(Spot(o, x), "string") = Spot(o, "colon")
      /\ Json!Grammar!ReadToken(Spot(o, "colon"), ":") = Spot(o, "value")
  BY TokensRead DEF Spot
<1>3. /\ Json!Grammar!ReadToken(Spot(b, "member"), "string") = Spot(b, "colon")
      /\ Json!Grammar!ReadToken(Spot(b, "colon"), ":") = Spot(b, "value")
      /\ Json!Grammar!ReadToken(Spot(b, "value"), "string") = Json!Grammar!ValueRead(b)
  BY <1>1, TokensRead DEF Spot
<1>4. /\ Json!Grammar!ReadToken(Spot(a, "first"), "scalar") = Json!Grammar!ValueRead(a)
      /\ Json!Grammar!ReadToken(Spot(a, "first"), "string") = Json!Grammar!ValueRead(a)
      /\ Json!Grammar!ReadToken(Spot(a, "value"), "{") = Spot(ab, "member")
      /\ \A x \in {"member", "next"} :
           Json!Grammar!ReadToken(Spot(ab, x), "}") = Json!Grammar!ValueRead(a)
  BY <1>1, TokensRead DEF Spot
<1>5. Json!Grammar!ValueRead(a) = Spot(a, "next") /\ Json!Grammar!ValueRead(b) = Spot(b, "next")
  BY <1>1, ValuesRead
<1>. HIDE DEF a, b, ab
<1>6. /\ \A x \in {"value", "first"} :
           /\ Json!Grammar!ReadTokens(Spot(o, x), <<"scalar">>) = Json!Grammar!ValueRead(o)
           /\ Json!Grammar!ReadTokens(Spot(o, x), <<"string">>) = Json!Grammar!ValueRead(o)
           /\ Json!Grammar!ReadTokens(Spot(o, x), <<"[">>) = Spot(a, "first")
           /\ Json!Grammar!ReadTokens(Spot(o, x), <<"{">>) = Spot(b, "member")
      /\ \A x \in {"first", "next"} :
           Json!Grammar!ReadTokens(Spot(a, x), <<"]">>) = Json!Grammar!ValueRead(o)
      /\ \A x \in {"member", "next"} :
           Json!Grammar!ReadTokens(Spot(b, x), <<"}">>) = Json!Grammar!ValueRead(o)
      /\ Json!Grammar!ReadTokens(Spot(a, "next"), <<",">>) = Spot(a, "value")
      /\ Json!Grammar!ReadTokens(Spot(b, "next"), <<",">>) = Spot(b, "name")
      /\ \A x \in {"member", "name"} :
           Json!Grammar!ReadTokens(Spot(o, x), <<"string">>) = Spot(o, "colon")
      /\ Json!Grammar!ReadTokens(Spot(o, "colon"), <<":">>) = Spot(o, "value")
      /\ Json!Grammar!ReadTokens(Spot(a, "first"), <<"string">>) = Spot(a, "next")
  BY <1>2, <1>4, <1>5, OneToken
<1>7. ASSUME NEW x \in {"value", "first"}
      PROVE  /\ Json!Grammar!ReadTokens(Spot(o, x), <<"[", "scalar">>) = Spot(a, "next")
             /\ Json!Grammar!ReadTokens(Spot(o, x), <<"{", "string", ":">>) = Spot(b, "value")
  <2>1. Json!Grammar!ReadTokens(Spot(o, x), <<"[", "scalar">>) =
          Json!Grammar!ReadToken(Json!Grammar!ReadToken(Spot(o, x), "["), "scalar")
    BY DEF Json!Grammar!ReadTokens
  <2>2. Json!Grammar!ReadTokens(Spot(o, x), <<"{", "string", ":">>) =
          Json!Grammar!ReadToken(Json!Grammar!ReadToken(
            Json!Grammar!ReadToken(Spot(o, x), "{"), "string"), ":")
    BY DEF Json!Grammar!ReadTokens
  <2>. QED
    BY <1>2, <1>3, <1>4, <1>5, <2>1, <2>2
<1>8. /\ Json!Grammar!ReadTokens(Spot(b, "value"), <<"string", "}">>) = Json!Grammar!ValueRead(o)
      /\ Json!Grammar!ReadTokens(Spot(a, "next"), <<",", "{">>) = Spot(ab, "member")
  <2>1. Json!Grammar!ReadTokens(Spot(b, "value"), <<"string", "}">>) =
          Json!Grammar!ReadToken(Json!Grammar!ReadToken(Spot(b, "value"), "string"), "}")
    BY DEF Json!Grammar!ReadTokens
  <2>2. Json!Grammar!ReadTokens(Spot(a, "next"), <<",", "{">>) =
          Json!Grammar!ReadToken(Json!Grammar!ReadToken(Spot(a, "next"), ","), "{")
    BY DEF Json!Grammar!ReadTokens
  <2>. QED
    BY <1>2, <1>3, <1>4, <1>5, <2>1, <2>2
<1>9. ASSUME NEW x \in {"member", "next"}
      PROVE  Json!Grammar!ReadTokens(Spot(ab, x), <<"}", "]">>) = Json!Grammar!ValueRead(o)
  <2>1. Json!Grammar!ReadTokens(Spot(ab, x), <<"}", "]">>) =
          Json!Grammar!ReadToken(Json!Grammar!ReadToken(Spot(ab, x), "}"), "]")
    BY DEF Json!Grammar!ReadTokens
  <2>. QED
    BY <1>2, <1>4, <1>5, <2>1
<1>. QED
  BY <1>6, <1>7, <1>8, <1>9 DEF a, b, ab

\* Before_Value leaves the reader where a value may begin.
LEMMA JsonBeginsText ==
  ASSUME NEW s, IsOpen(s), JsonSpelled(s), Json!Before_Value(s).error = NoError
  PROVE  Leads(Json!Before_Value(s), Entered(s.stack)) /\ JsonAwaits(Json!Before_Value(s))
<1>. DEFINE t == Json!Before_Value(s)
            f == LastOf(s.stack)
<1>1. Leads(t, Entered(s.stack)) /\ ~Misplaced(s)
  BY JsonBefore DEF Lost
<1>2. PICK open \in Seq(Brackets) :
        /\ Nested(s.stack, FALSE, open)
        /\ s.text = Spot(open, JsonExpects(s.stack, s.root_written))
  BY DEF JsonSpelled
<1>3. s.error = NoError /\ ~s.failed /\ ~s.finalized /\ s.stack \in Seq(Frames)
      /\ s = [i \in Components |-> s[i]]
  BY DEF IsOpen, IsWriter
<1>. HIDE DEF t
<1>4. CASE s.stack = <<>>
  <2>1. ~s.root_written /\ t = [s EXCEPT !.root_written = TRUE]
    BY <1>1, <1>3, <1>4 DEF Misplaced, Json!Before_Value, t
  <2>2. t.text = s.text /\ t.stack = <<>>
    BY <1>3, <1>4, <2>1 DEF Components
  <2>3. open = <<>> /\ s.text = Spot(open, "value")
    <3>1. JsonExpects(s.stack, s.root_written) = "value"
      BY <1>4, <2>1 DEF JsonExpects
    <3>2. Nested(<<>>, FALSE, open)
      BY <1>2, <1>4
    <3>. QED
      BY <1>2, <3>1, <3>2, NestedEmpty
  <2>4. Nested(t.stack, TRUE, open)
    BY <2>2, <2>3, NestedEmpty
  <2>. QED
    BY <1>1, <2>2, <2>3, <2>4 DEF JsonAwaits, t
<1>5. CASE s.stack # <<>>
  <2>1. PICK p \in Seq(Brackets) :
          Nested(Popped(s.stack), TRUE, p) /\ open = Bracketed(p, f, FALSE)
    BY <1>2, <1>3, <1>5, NestedTop
  <2>2. Nested(Entered(s.stack), TRUE, Bracketed(p, f, TRUE)) /\ Bracketed(p, f, TRUE) \in Seq(Brackets)
    BY <1>3, <1>5, <2>1, NestedSame, BracketedIsOpen
  <2>3. s.root_written
    BY <1>5 DEF IsOpen, IsWriter
  <2>4. f \in Frames /\ f.kind \in Kinds
    BY <1>3, <1>5, TopIsFrame, FrameFields
  <2>5. Append(p, "array") \in Seq(Brackets)
    BY OuterOf DEF Brackets
  <2>. SUFFICES \E x \in {"value", "first"} : t.text = Spot(Bracketed(p, f, TRUE), x)
    BY <1>1, <2>2 DEF JsonAwaits, Leads, t
  <2>6. CASE f.kind \in {"record", "variant"}
    <3>1. f.waiting /\ t = s
      BY <1>1, <1>3, <1>5, <2>6 DEF Misplaced, Json!Before_Value, t, LastOf
    <3>2. JsonExpects(s.stack, s.root_written) = "value"
      BY <1>5, <2>6, <3>1 DEF JsonExpects
    <3>3. Bracketed(p, f, FALSE) = Bracketed(p, f, TRUE)
      BY <2>6 DEF Bracketed
    <3>. QED
      BY <1>2, <2>1, <3>1, <3>2, <3>3
  <2>7. CASE f.kind = "optional"
    <3>1. t = Json!Emit(s, <<",">>)
      BY <1>1, <1>3, <1>5, <2>7 DEF Misplaced, Json!Before_Value, Json!SeparateOptional, t, LastOf
    <3>2. t.text = Json!Grammar!ReadTokens(s.text, <<",">>)
      BY <2>3, <3>1, JsonEmitted DEF t
    <3>3. s.text = Spot(Append(p, "array"), "next") /\ Bracketed(p, f, TRUE) = Append(p, "array")
      BY <1>2, <1>5, <2>1, <2>7 DEF JsonExpects, Bracketed
    <3>4. t.text = Spot(Append(p, "array"), "value")
      BY <3>2, <3>3, JsonSpots
    <3>. QED
      BY <3>3, <3>4
  <2>8. CASE f.kind = "sequence"
    <3>1. t = Json!SeparateItem(s)
      BY <1>1, <1>3, <1>5, <2>8 DEF Misplaced, Json!Before_Value, t, LastOf
    <3>2. Bracketed(p, f, TRUE) = Append(p, "array") /\ Bracketed(p, f, FALSE) = Append(p, "array")
      BY <2>8 DEF Bracketed
    <3>3. f.observed \in Nat
      BY <2>4, FrameFields
    <3>4. CASE f.observed > 0
      <4>1. t = Json!Emit(s, <<",">>)
        BY <3>1, <3>4 DEF Json!SeparateItem, LastOf
      <4>2. t.text = Json!Grammar!ReadTokens(s.text, <<",">>)
        BY <2>3, <4>1, JsonEmitted DEF t
      <4>3. JsonExpects(s.stack, s.root_written) = "next"
        BY <1>5, <2>8, <3>3, <3>4 DEF JsonExpects
      <4>4. s.text = Spot(Append(p, "array"), "next")
        BY <1>2, <2>1, <3>2, <4>3
      <4>. QED
        BY <3>2, <4>2, <4>4, JsonSpots
    <3>5. CASE ~(f.observed > 0)
      <4>1. t = s
        BY <3>1, <3>5 DEF Json!SeparateItem, LastOf
      <4>2. JsonExpects(s.stack, s.root_written) = "first"
        BY <1>5, <2>8, <3>3, <3>5 DEF JsonExpects
      <4>3. s.text = Spot(Append(p, "array"), "first")
        BY <1>2, <2>1, <3>2, <4>2
      <4>. QED
        BY <3>2, <4>1, <4>3
    <3>. QED
      BY <3>4, <3>5
  <2>9. CASE f.kind = "map" /\ f.waiting
    <3>. DEFINE u == Json!Emit(s, <<",">>)
    <3>1. t = Json!ContinueEntry(s)
      BY <1>1, <1>3, <1>5, <2>9 DEF Misplaced, Json!Before_Value, t, LastOf
    <3>2. u.error = NoError /\ t.text = u.text
      <4>1. Lost(u) \/ Leads(u, s.stack)
        BY <2>3, JsonEmit
      <4>. HIDE DEF u
      <4>2. t = IF u.error = Raised THEN u ELSE SetTop(u, [Top(u) EXCEPT !.child_is_value = TRUE])
        BY <3>1 DEF Json!ContinueEntry, u
      <4>3. u = [i \in Components |-> u[i]]
        BY <4>1 DEF Lost, Leads, IsOpen, IsWriter
      <4>4. t.error = u.error /\ t.text = u.text
        BY <4>2, <4>3 DEF Components
      <4>. QED
        BY <4>4 DEF t
    <3>3. u.text = Json!Grammar!ReadTokens(s.text, <<",">>)
      BY <2>3, <3>2, JsonEmitted
    <3>. DEFINE a == Append(p, "array")
                o == Append(a, "array")
    <3>4. s.text = Spot(o, "next") /\ Bracketed(p, f, TRUE) = o
      BY <1>2, <1>5, <2>1, <2>9 DEF JsonExpects, Bracketed
    <3>5. Json!Grammar!ReadTokens(Spot(o, "next"), <<",">>) = Spot(o, "value")
      BY <2>5, JsonSpots
    <3>. QED
      BY <3>2, <3>3, <3>4, <3>5
  <2>10. CASE f.kind = "map" /\ ~f.waiting
    <3>. DEFINE v == Json!SeparateItem(s)
                u == Json!Emit(v, <<"[">>)
                a == Append(p, "array")
                o == Append(a, "array")
    <3>1. t = Json!OpenEntry(s)
      BY <1>1, <1>3, <1>5, <2>10 DEF Misplaced, Json!Before_Value, t, LastOf
    <3>2. f.observed \in Nat /\ Bracketed(p, f, TRUE) = o /\ Bracketed(p, f, FALSE) = a
      BY <2>4, <2>10, FrameFields DEF Bracketed
    <3>3. v = IF f.observed > 0 THEN Json!Emit(s, <<",">>) ELSE s
      BY DEF Json!SeparateItem, LastOf
    <3>4. Lost(v) \/ Leads(v, s.stack)
      BY <2>3, <3>3, JsonEmit DEF Leads
    <3>. HIDE DEF v
    <3>5. Lost(u) \/ Leads(u, s.stack)
      BY <3>4, JsonEmit, JsonIdle DEF Leads, Lost
    <3>6. u.error = NoError /\ t.text = u.text
      <4>. HIDE DEF u
      <4>1. t = IF u.error = Raised THEN u ELSE SetTop(u, [Top(u) EXCEPT !.child_is_value = FALSE])
        BY <3>1 DEF Json!OpenEntry, u, v
      <4>2. u = [i \in Components |-> u[i]]
        BY <3>5 DEF Lost, Leads, IsOpen, IsWriter
      <4>3. t.error = u.error /\ t.text = u.text
        BY <4>1, <4>2 DEF Components
      <4>. QED
        BY <4>3 DEF t
    <3>7. Leads(v, s.stack)
      BY <3>4, <3>6, JsonIdle DEF Lost
    <3>8. v.text = Spot(a, IF f.observed > 0 THEN "value" ELSE "first")
      <4>1. CASE f.observed > 0
        <5>1. JsonExpects(s.stack, s.root_written) = "next"
          BY <1>5, <2>10, <3>2, <4>1 DEF JsonExpects
        <5>2. s.text = Spot(a, "next")
          BY <1>2, <2>1, <3>2, <5>1
        <5>3. v.text = Json!Grammar!ReadTokens(s.text, <<",">>)
          BY <2>3, <3>3, <3>7, <4>1, JsonEmitted DEF Leads, IsOpen
        <5>. QED
          BY <4>1, <5>2, <5>3, JsonSpots
      <4>2. CASE ~(f.observed > 0)
        <5>1. JsonExpects(s.stack, s.root_written) = "first"
          BY <1>5, <2>10, <3>2, <4>2 DEF JsonExpects
        <5>2. s.text = Spot(a, "first")
          BY <1>2, <2>1, <3>2, <5>1
        <5>. QED
          BY <3>3, <4>2, <5>2
      <4>. QED
        BY <4>1, <4>2
    <3>9. u.text = Json!Grammar!ReadTokens(v.text, <<"[">>)
      BY <3>6, <3>7, JsonEmitted DEF Leads
    <3>10. \A x \in {"value", "first"} :
             Json!Grammar!ReadTokens(Spot(a, x), <<"[">>) = Spot(o, "first")
      BY <2>5, JsonSpots
    <3>. QED
      BY <3>2, <3>6, <3>8, <3>9, <3>10
  <2>. QED
    BY <2>4, <2>6, <2>7, <2>8, <2>9, <2>10 DEF Kinds
<1>. QED
  BY <1>4, <1>5 DEF t

\* After_Value takes the value just read for one of its frame.
LEMMA JsonEndsText ==
  ASSUME NEW s, IsOpen(s), s.root_written, JsonHasRead(s), Json!After_Value(s).error = NoError
  PROVE  JsonSpelled(Json!After_Value(s)) /\ Leads(Json!After_Value(s), Completed(s.stack))
<1>. DEFINE t == Json!After_Value(s)
            f == LastOf(s.stack)
            g == CompletedFrame(f)
<1>1. Leads(t, Completed(s.stack)) /\ ~Overflows(s.stack)
  BY JsonAfter DEF Lost
<1>2. PICK open \in Seq(Brackets) :
        Nested(s.stack, TRUE, open) /\ s.text = Json!Grammar!ValueRead(open)
  BY DEF JsonHasRead
<1>3. s.error = NoError /\ ~s.failed /\ s.stack \in Seq(Frames) /\ s = [i \in Components |-> s[i]]
  BY DEF IsOpen, IsWriter
<1>. HIDE DEF t
<1>4. CASE s.stack = <<>>
  <2>1. t = s
    BY <1>4 DEF Json!After_Value, t
  <2>2. Nested(<<>>, TRUE, open)
    BY <1>2, <1>4
  <2>3. open = <<>> /\ Nested(<<>>, FALSE, open)
    BY <2>2, NestedEmpty
  <2>4. s.text = Spot(open, "end")
    BY <1>2, <2>3, ValuesRead
  <2>5. JsonExpects(t.stack, t.root_written) = "end"
    BY <1>4, <2>1 DEF JsonExpects
  <2>. QED
    BY <1>1, <1>4, <2>1, <2>3, <2>4, <2>5 DEF JsonSpelled, t
<1>5. CASE s.stack # <<>>
  <2>1. PICK p \in Seq(Brackets) :
          Nested(Popped(s.stack), TRUE, p) /\ open = Bracketed(p, f, TRUE)
    BY <1>2, <1>3, <1>5, NestedTop
  <2>2. Nested(Completed(s.stack), FALSE, Bracketed(p, g, FALSE)) /\ Bracketed(p, g, FALSE) \in Seq(Brackets)
    BY <1>3, <1>5, <2>1, NestedSame, BracketedIsOpen
  <2>3. f \in Frames /\ f.kind \in Kinds /\ f.observed \in Nat
    BY <1>3, <1>5, TopIsFrame, FrameFields
  <2>4. open # <<>> /\ s.text = Spot(open, "next")
    BY <1>2, <2>1, BracketedIsOpen, ValuesRead
  <2>5. t.stack # <<>> /\ LastOf(t.stack) = g /\ t.root_written
    <3>1. Completed(s.stack) # <<>> /\ LastOf(Completed(s.stack)) = g
      BY <1>3, <1>5, TopChanges, TopIsFrame, EmptySeq
    <3>. QED
      BY <1>1, <3>1 DEF Leads
  <2>6. CASE ~(f.kind = "map" /\ f.child_is_value)
    <3>1. t.text = s.text
      <4>1. CASE f.kind = "map"
        <5>1. t = SetTop(s, [f EXCEPT !.waiting = TRUE])
          BY <1>3, <1>5, <2>6, <4>1 DEF Json!After_Value, t, LastOf
        <5>. QED
          BY <1>3, <5>1 DEF Components
      <4>2. CASE f.kind # "map"
        <5>1. t = Json!Counted(s)
          BY <1>3, <1>5, <4>2 DEF Json!After_Value, t, LastOf
        <5>2. t = IF f.observed = NaturalLast
                  THEN Json!Fail(SetTop(s, [f EXCEPT !.waiting = FALSE]), "Capacity_Exceeded")
                  ELSE SetTop(s, [f EXCEPT !.waiting = FALSE, !.observed = @ + 1])
          <6>1. /\ [f EXCEPT !.waiting = FALSE].observed = f.observed
                /\ [[f EXCEPT !.waiting = FALSE] EXCEPT !.observed = @ + 1] =
                     [f EXCEPT !.waiting = FALSE, !.observed = @ + 1]
            BY <2>3 DEF Frames
          <6>. QED
            BY <5>1, <6>1 DEF Json!Counted, LastOf
        <5>3. f.observed # NaturalLast
          BY <1>1, <1>5, <4>2 DEF Overflows, CompletesKey
        <5>. HIDE DEF f
        <5>. QED
          BY <1>3, <5>2, <5>3 DEF Components
      <4>. QED
        BY <4>1, <4>2
    <3>2. Bracketed(p, g, FALSE) = Bracketed(p, f, TRUE)
      <4>. HIDE DEF f
      <4>1. g.kind = f.kind /\ (f.kind = "map" => g.waiting)
        BY <2>3, <2>6 DEF CompletedFrame, CompletesKey, Frames
      <4>. QED
        BY <4>1 DEF Bracketed
    <3>3. JsonExpects(t.stack, t.root_written) = "next"
      <4>. HIDE DEF f
      <4>1. /\ g.kind = f.kind /\ (f.kind = "map" => g.waiting)
            /\ f.kind # "map" => ~g.waiting /\ g.observed # 0
        BY <2>3, <2>6 DEF CompletedFrame, CompletesKey, Frames
      <4>. HIDE DEF g
      <4>. QED
        BY <2>5, <4>1 DEF JsonExpects
    <3>. QED
      BY <1>1, <2>1, <2>2, <2>4, <3>1, <3>2, <3>3 DEF JsonSpelled, Leads, t
  <2>7. CASE f.kind = "map" /\ f.child_is_value
    <3>. DEFINE u == Json!Emit(s, <<"]">>)
                a == Append(p, "array")
    <3>1. t = IF Latched(u) THEN u ELSE Json!Counted(u)
      BY <1>3, <1>5, <2>7 DEF Json!After_Value, Json!CloseEntry, t, LastOf
    <3>2. Lost(u) \/ Leads(u, s.stack)
      BY JsonEmit
    <3>3. u.error = NoError /\ Leads(u, s.stack)
      BY <3>1, <3>2 DEF Lost, t, Leads, IsOpen
    <3>4. u.text = Json!Grammar!ReadTokens(s.text, <<"]">>)
      BY <3>3, JsonEmitted
    <3>. HIDE DEF u
    <3>5. t.text = u.text
      <4>1. t = IF f.observed = NaturalLast
                THEN Json!Fail(SetTop(u, [f EXCEPT !.waiting = FALSE]), "Capacity_Exceeded")
                ELSE SetTop(u, [f EXCEPT !.waiting = FALSE, !.observed = @ + 1])
        <5>1. t = Json!Counted(u) /\ Top(u) = f
          BY <3>1, <3>3 DEF Leads, LastOf
        <5>2. /\ [f EXCEPT !.waiting = FALSE].observed = f.observed
              /\ [[f EXCEPT !.waiting = FALSE] EXCEPT !.observed = @ + 1] =
                   [f EXCEPT !.waiting = FALSE, !.observed = @ + 1]
          BY <2>3 DEF Frames
        <5>. HIDE DEF f
        <5>. QED
          BY <5>1, <5>2 DEF Json!Counted
      <4>2. f.observed # NaturalLast
        BY <1>1, <1>5, <2>7 DEF Overflows, CompletesKey
      <4>3. u = [i \in Components |-> u[i]]
        BY <3>3 DEF Leads, IsOpen, IsWriter
      <4>. HIDE DEF f
      <4>. QED
        BY <4>1, <4>2, <4>3 DEF Components
    <3>6. a \in Seq(Brackets) /\ a # <<>>
      BY OuterOf DEF Brackets
    <3>7. open = Append(a, "array")
      BY <2>1, <2>7 DEF Bracketed
    <3>8. Json!Grammar!ReadTokens(Spot(Append(a, "array"), "next"), <<"]">>) = Json!Grammar!ValueRead(a)
      BY <3>6, JsonSpots
    <3>9. Json!Grammar!ValueRead(a) = Spot(a, "next")
      BY <3>6, ValuesRead
    <3>10. t.text = Spot(a, "next")
      BY <2>4, <3>4, <3>5, <3>7, <3>8, <3>9
    <3>11. /\ g.kind = "map" /\ ~g.waiting /\ g.observed # 0
      <4>. HIDE DEF f
      <4>. QED
        BY <2>3, <2>7 DEF CompletedFrame, CompletesKey, Frames
    <3>. HIDE DEF g
    <3>12. JsonExpects(t.stack, t.root_written) = "next"
      BY <2>5, <3>11 DEF JsonExpects
    <3>13. Bracketed(p, g, FALSE) = a
      BY <3>11 DEF Bracketed
    <3>. QED
      BY <1>1, <2>2, <3>10, <3>12, <3>13 DEF JsonSpelled, Leads, t
  <2>. QED
    BY <2>6, <2>7
<1>. QED
  BY <1>4, <1>5 DEF t

\* Push follows the tokens that open a container.
LEMMA JsonOpensText ==
  ASSUME NEW s, IsOpen(s), s.root_written, NEW kind \in Kinds, NEW length \in Lengths,
         NEW open \in Seq(Brackets), Nested(s.stack, TRUE, open),
         s.text = Spot(Bracketed(open, Frame(kind, length), FALSE),
                       JsonExpects(<<Frame(kind, length)>>, TRUE)),
         Json!Push(s, kind, length).error = NoError
  PROVE  JsonSpelled(Json!Push(s, kind, length))
<1>. DEFINE t == Json!Push(s, kind, length)
            f == Frame(kind, length)
            stack == Append(s.stack, f)
<1>1. Leads(t, stack)
  BY JsonPush
<1>2. t.text = s.text
  <2>1. t = [s EXCEPT !.stack = stack]
    BY <1>1 DEF Json!Push, Json!Frame, Frame, Leads, IsOpen, Json!Fail, IsWriter, Components
  <2>. QED
    BY <2>1 DEF IsOpen, IsWriter, Components
<1>3. f \in Frames /\ s.stack \in Seq(Frames)
  BY FrameIsFrame DEF IsOpen, IsWriter
<1>. HIDE DEF f, t
<1>4. /\ Nested(stack, FALSE, Bracketed(open, f, FALSE))
      /\ Bracketed(open, f, FALSE) \in Seq(Brackets)
  BY <1>3, NestedPush, BracketedIsOpen
<1>5. stack # <<>> /\ LastOf(stack) = f
  BY <1>3, AppendProperties, LenProperties, EmptySeq DEF LastOf
<1>6. <<f>> # <<>> /\ LastOf(<<f>>) = f
  BY DEF LastOf
<1>7. JsonExpects(stack, TRUE) = JsonExpects(<<f>>, TRUE)
  <2>. HIDE DEF stack
  <2>. QED
    BY <1>5, <1>6 DEF JsonExpects
<1>. HIDE DEF stack
<1>8. t.text = Spot(Bracketed(open, f, FALSE), JsonExpects(stack, TRUE))
  BY <1>2, <1>7 DEF f
<1>9. t.root_written = TRUE
  BY <1>1 DEF Leads, IsOpen, IsWriter
<1>. QED
  BY <1>1, <1>4, <1>8, <1>9 DEF JsonSpelled, Leads, t

\* The tokens that close a container.
JsonCloses(kind, close) ==
  /\ kind = "record" => close = <<"}">>
  /\ kind = "variant" => close = <<"}", "]">>
  /\ kind \notin {"record", "variant"} => close = <<"]">>

\* Pop emits them where its frame has all its items.
LEMMA JsonClosesText ==
  ASSUME NEW s, IsOpen(s), JsonSpelled(s), NEW kind, NEW close, JsonCloses(kind, close),
         Json!Pop(s, kind, close).error = NoError
  PROVE  JsonSpelled(Json!Pop(s, kind, close))
<1>. DEFINE t == Json!Pop(s, kind, close)
            f == LastOf(s.stack)
            u == Json!Emit(s, close)
            v == [u EXCEPT !.stack = Popped(s.stack)]
<1>1. s.stack # <<>> /\ ~Unclosable(f, kind)
  BY JsonPop DEF CloseOutcome
<1>2. /\ s.error = NoError /\ ~s.failed /\ ~s.finalized /\ s.stack \in Seq(Frames)
      /\ s.root_written
  BY <1>1 DEF IsOpen, IsWriter
<1>3. t = IF Latched(u) THEN u
          ELSE Json!After_Value([u EXCEPT !.stack = SubSeq(@, 1, Len(@) - 1)])
  BY <1>1, <1>2 DEF Json!Pop, Json!Unclosable, Unclosable, LastOf
<1>4. u.error = NoError
  BY <1>3
<1>5. Leads(u, s.stack) /\ u.text = Json!Grammar!ReadTokens(s.text, close)
  BY <1>2, <1>4, JsonEmitted
<1>. HIDE DEF t, u
<1>6. t = Json!After_Value(v)
  BY <1>3, <1>4, <1>5 DEF Leads, Popped
<1>7. Leads(v, Popped(s.stack))
  BY <1>1, <1>2, <1>5, PoppedIsStack, Restacked DEF Leads
<1>8. v.text = u.text
  BY <1>5 DEF Leads, IsOpen, IsWriter, Components
<1>9. PICK open \in Seq(Brackets) :
        /\ Nested(s.stack, FALSE, open)
        /\ s.text = Spot(open, JsonExpects(s.stack, s.root_written))
  BY DEF JsonSpelled
<1>10. PICK p \in Seq(Brackets) :
         Nested(Popped(s.stack), TRUE, p) /\ open = Bracketed(p, f, FALSE)
  BY <1>1, <1>2, <1>9, NestedTop
<1>11. f.kind = kind /\ ~f.waiting /\ kind \in Kinds
  BY <1>1, <1>2, TopIsFrame, FrameFields DEF Unclosable
<1>12. /\ kind \in {"record", "variant"} =>
            JsonExpects(s.stack, s.root_written) \in {"member", "next"}
       /\ kind \in {"optional", "sequence", "map"} =>
            JsonExpects(s.stack, s.root_written) \in {"first", "next"}
       /\ kind = "optional" => JsonExpects(s.stack, s.root_written) = "next"
  BY <1>1, <1>11 DEF JsonExpects
<1>13. Append(p, "array") \in Seq(Brackets)
  BY OuterOf DEF Brackets
<1>14. u.text = Json!Grammar!ValueRead(p)
  <2>1. CASE kind = "record"
    <3>1. open = Append(p, "object") /\ close = <<"}">>
      BY <1>10, <1>11, <2>1 DEF Bracketed, JsonCloses
    <3>. QED
      BY <1>5, <1>9, <1>12, <2>1, <3>1, JsonSpots
  <2>2. CASE kind = "variant"
    <3>1. open = Append(Append(p, "array"), "object") /\ close = <<"}", "]">>
      BY <1>10, <1>11, <2>2 DEF Bracketed, JsonCloses
    <3>. QED
      BY <1>5, <1>9, <1>12, <2>2, <3>1, JsonSpots
  <2>3. CASE kind \in {"optional", "sequence", "map"}
    <3>1. open = Append(p, "array") /\ close = <<"]">>
      BY <1>10, <1>11, <2>3 DEF Bracketed, JsonCloses
    <3>. QED
      BY <1>5, <1>9, <1>12, <2>3, <3>1, JsonSpots
  <2>. QED
    BY <1>11, <2>1, <2>2, <2>3 DEF Kinds
<1>. HIDE DEF v
<1>15. JsonHasRead(v)
  BY <1>7, <1>8, <1>10, <1>14 DEF JsonHasRead, Leads
<1>. QED
  BY <1>6, <1>7, <1>15, JsonEndsText DEF Leads, t

\* A name and its colon.
LEMMA JsonNamesText ==
  ASSUME NEW s, IsOpen(s), JsonSpelled(s), NEW name, Json!ValidText(name),
         Json!Put_Field(s, name).error = NoError
  PROVE  JsonSpelled(Json!Put_Field(s, name))
<1>. DEFINE t == Json!Put_Field(s, name)
            f == LastOf(s.stack)
            g == [f EXCEPT !.waiting = TRUE]
            x == Json!SeparateItem(s)
            y == Json!Emit(x, <<"string">>)
            u == Json!Emit(y, <<":">>)
<1>1. s.stack # <<>> /\ TakesField(f) /\ Leads(t, Field(s.stack))
  BY JsonField DEF FieldOutcome, Held, Lost
<1>2. /\ s.error = NoError /\ ~s.failed /\ ~s.finalized /\ s.stack \in Seq(Frames)
      /\ s.root_written /\ Leads(s, s.stack)
  BY <1>1 DEF IsOpen, IsWriter, Leads
<1>3. t = IF Latched(u) THEN u ELSE SetTop(u, [LastOf(u.stack) EXCEPT !.waiting = TRUE])
  BY <1>1, <1>2 DEF Json!Put_Field, Json!Emit_Quoted, Json!TakesField, TakesField, LastOf
<1>4. x = IF f.observed > 0 THEN Json!Emit(s, <<",">>) ELSE s
  BY DEF Json!SeparateItem, LastOf
<1>5. Lost(x) \/ Leads(x, s.stack)
  BY <1>2, <1>4, JsonEmit
<1>. HIDE DEF t, x
<1>6. Lost(y) \/ Leads(y, s.stack)
  BY <1>5, JsonEmit, JsonIdle DEF Leads, Lost
<1>7. Latched(x) => y = x
  BY JsonIdle
<1>. HIDE DEF y
<1>8. Lost(u) \/ Leads(u, s.stack)
  BY <1>6, JsonEmit, JsonIdle DEF Leads, Lost
<1>9. Latched(y) => u = y
  BY JsonIdle
<1>. HIDE DEF u
<1>10. u.error = NoError /\ y.error = NoError /\ x.error = NoError
  BY <1>1, <1>3, <1>7, <1>9 DEF Leads, IsOpen
<1>11. Leads(u, s.stack) /\ Leads(y, s.stack) /\ Leads(x, s.stack)
  BY <1>5, <1>6, <1>8, <1>10 DEF Lost
<1>12. t.text = u.text
  BY <1>3, <1>10, <1>11 DEF Leads, IsOpen, IsWriter, Components
<1>13. /\ u.text = Json!Grammar!ReadTokens(y.text, <<":">>)
       /\ y.text = Json!Grammar!ReadTokens(x.text, <<"string">>)
  BY <1>10, <1>11, JsonEmitted DEF Leads, u, y
<1>14. PICK open \in Seq(Brackets) :
        /\ Nested(s.stack, FALSE, open)
        /\ s.text = Spot(open, JsonExpects(s.stack, s.root_written))
  BY DEF JsonSpelled
<1>15. PICK p \in Seq(Brackets) :
         Nested(Popped(s.stack), TRUE, p) /\ open = Bracketed(p, f, FALSE)
  BY <1>1, <1>2, <1>14, NestedTop
<1>16. f \in Frames /\ f.kind \in {"record", "variant"} /\ ~f.waiting /\ f.observed \in Nat
  BY <1>1, <1>2, TopIsFrame, FrameFields DEF TakesField
<1>17. PICK q \in Seq(Brackets) : open = Append(q, "object")
  <2>1. Append(p, "array") \in Seq(Brackets)
    BY OuterOf DEF Brackets
  <2>. QED
    BY <1>15, <1>16, <2>1 DEF Bracketed
<1>18. JsonExpects(s.stack, s.root_written) = IF f.observed = 0 THEN "member" ELSE "next"
  BY <1>1, <1>16 DEF JsonExpects
<1>19. x.text = Spot(open, IF f.observed = 0 THEN "member" ELSE "name")
  <2>1. CASE f.observed = 0
    BY <1>4, <1>14, <1>16, <1>18, <2>1
  <2>2. CASE f.observed # 0
    <3>1. x = Json!Emit(s, <<",">>)
      <4>1. f.observed > 0
        <5>. HIDE DEF f
        <5>. QED
          BY <1>16, <2>2
      <4>. QED
        BY <1>4, <4>1
    <3>2. x.text = Json!Grammar!ReadTokens(s.text, <<",">>)
      BY <1>2, <1>10, <3>1, JsonEmitted
    <3>3. s.text = Spot(Append(q, "object"), "next")
      BY <1>14, <1>17, <1>18, <2>2
    <3>. QED
      BY <1>17, <2>2, <3>2, <3>3, JsonSpots
  <2>. QED
    BY <2>1, <2>2
<1>20. y.text = Spot(open, "colon")
  BY <1>13, <1>19, JsonSpots
<1>21. t.text = Spot(open, "value")
  BY <1>12, <1>13, <1>20, JsonSpots
<1>22. Nested(Field(s.stack), FALSE, Bracketed(p, g, FALSE))
  BY <1>1, <1>2, <1>15, NestedSame
<1>23. g.waiting /\ g.kind = f.kind
  <2>. HIDE DEF f
  <2>. QED
    BY <1>16 DEF Frames
<1>24. Bracketed(p, g, FALSE) = open
  <2>. HIDE DEF f, g
  <2>. QED
    BY <1>15, <1>16, <1>23 DEF Bracketed
<1>25. Field(s.stack) # <<>> /\ LastOf(Field(s.stack)) = g
  BY <1>1, <1>2, TopChanges, TopIsFrame, EmptySeq
<1>26. JsonExpects(Field(s.stack), t.root_written) = "value"
  <2>. HIDE DEF f, g
  <2>. QED
    BY <1>16, <1>23, <1>25 DEF JsonExpects
<1>. QED
  BY <1>1, <1>21, <1>22, <1>24, <1>26 DEF JsonSpelled, Leads, t

\* A helper has latched an error, or left the reader at `text` with these frames.
Stage(t, stack, text) == Latched(t) \/ (Leads(t, stack) /\ t.text = text)

JsonResult(t) == Latched(t) \/ JsonSpelled(t)

\* The helpers of an event, one after the other.
LEMMA JsonStages ==
  ASSUME NEW u, NEW stack, NEW text, Stage(u, stack, text)
  PROVE  /\ \A tokens : Stage(Json!Emit(u, tokens), stack, Json!Grammar!ReadTokens(text, tokens))
         /\ \A open \in Seq(Brackets) :
              Nested(stack, TRUE, open) /\ text = Json!Grammar!ValueRead(open) =>
                JsonResult(Json!After_Value(u))
         /\ \A open \in Seq(Brackets), kind \in Kinds, length \in Lengths :
              /\ Nested(stack, TRUE, open)
              /\ text = Spot(Bracketed(open, Frame(kind, length), FALSE),
                             JsonExpects(<<Frame(kind, length)>>, TRUE))
              => JsonResult(Json!Push(u, kind, length))
<1>1. CASE Latched(u)
  BY <1>1, JsonIdle DEF Stage, JsonResult
<1>2. CASE ~Latched(u)
  <2>1. Leads(u, stack) /\ u.text = text /\ IsOpen(u) /\ u.root_written /\ u.stack = stack
    BY <1>2 DEF Stage, Leads
  <2>2. ASSUME NEW tokens
        PROVE  Stage(Json!Emit(u, tokens), stack, Json!Grammar!ReadTokens(text, tokens))
    BY <2>1, JsonEmitted DEF Stage
  <2>3. ASSUME NEW open \in Seq(Brackets), Nested(stack, TRUE, open),
               text = Json!Grammar!ValueRead(open)
        PROVE  JsonResult(Json!After_Value(u))
    <3>1. JsonHasRead(u)
      BY <2>1, <2>3 DEF JsonHasRead
    <3>. QED
      BY <2>1, <3>1, JsonEndsText DEF JsonResult
  <2>4. ASSUME NEW open \in Seq(Brackets), NEW kind \in Kinds, NEW length \in Lengths,
               Nested(stack, TRUE, open),
               text = Spot(Bracketed(open, Frame(kind, length), FALSE),
                           JsonExpects(<<Frame(kind, length)>>, TRUE))
        PROVE  JsonResult(Json!Push(u, kind, length))
    BY <2>1, <2>4, JsonOpensText DEF JsonResult
  <2>. QED
    BY <2>2, <2>3, <2>4
<1>. QED
  BY <1>1, <1>2

\* Every event begins where a value may stand, or is refused.
LEMMA JsonStarts ==
  ASSUME NEW s, IsOpen(s), JsonSpelled(s)
  PROVE  \E open \in Seq(Brackets), x \in {"value", "first"}, stack \in Seq(Frames) :
           Nested(stack, TRUE, open) /\ Stage(Json!Before_Value(s), stack, Spot(open, x))
<1>1. CASE Latched(Json!Before_Value(s))
  <2>1. <<>> \in Seq(Brackets) /\ Nested(<<>>, TRUE, <<>>)
    <3>1. <<>> \in Seq(Brackets)
      BY EmptySeq
    <3>2. \A open : open = <<>> => Nested(<<>>, TRUE, open)
      BY NestedEmpty
    <3>. QED
      BY <3>1, <3>2
  <2>2. Stage(Json!Before_Value(s), <<>>, Spot(<<>>, "value"))
    BY <1>1 DEF Stage
  <2>3. <<>> \in Seq(Frames)
    BY EmptySeq
  <2>. WITNESS <<>> \in Seq(Brackets), "value" \in {"value", "first"}, <<>> \in Seq(Frames)
  <2>. QED
    BY <2>1, <2>2
<1>2. CASE ~Latched(Json!Before_Value(s))
  <2>1. Leads(Json!Before_Value(s), Entered(s.stack)) /\ JsonAwaits(Json!Before_Value(s))
    BY <1>2, JsonBeginsText
  <2>2. Entered(s.stack) \in Seq(Frames)
    BY EnteredIsStack DEF IsOpen, IsWriter
  <2>. QED
    BY <2>1, <2>2 DEF JsonAwaits, Stage, Leads
<1>. QED
  BY <1>1, <1>2

\* The tokens of a scalar, a text and a byte string are one value.
LEMMA JsonValuesText ==
  ASSUME NEW s, IsOpen(s), JsonSpelled(s)
  PROVE  /\ JsonResult(Json!Put_Scalar(s)) /\ JsonResult(Json!Put_Bytes(s))
         /\ \A text : JsonResult(Json!Put_Text(s, text))
         /\ \A value : JsonResult(Json!Put_Float_64(s, value))
<1>. DEFINE u == Json!Before_Value(s)
<1>1. PICK open \in Seq(Brackets), x \in {"value", "first"}, stack \in Seq(Frames) :
        Nested(stack, TRUE, open) /\ Stage(u, stack, Spot(open, x))
  BY JsonStarts
<1>2. ~Latched(s) /\ ~Closed(s)
  BY DEF IsOpen
<1>. HIDE DEF u
<1>3. /\ Json!Grammar!ReadTokens(Spot(open, x), <<"scalar">>) = Json!Grammar!ValueRead(open)
      /\ Json!Grammar!ReadTokens(Spot(open, x), <<"string">>) = Json!Grammar!ValueRead(open)
      /\ Json!Grammar!ReadTokens(Json!Grammar!ReadTokens(Spot(open, x), <<"{", "string", ":">>),
                                 <<"string", "}">>) = Json!Grammar!ValueRead(open)
  BY <1>1, JsonSpots
<1>4. JsonResult(Json!After_Value(Json!Emit(u, <<"scalar">>)))
  <2>1. Stage(Json!Emit(u, <<"scalar">>), stack, Json!Grammar!ReadTokens(Spot(open, x), <<"scalar">>))
    BY <1>1, JsonStages
  <2>. QED
    BY <1>1, <1>3, <2>1, JsonStages
<1>5. JsonResult(Json!After_Value(Json!Emit(u, <<"string">>)))
  <2>1. Stage(Json!Emit(u, <<"string">>), stack, Json!Grammar!ReadTokens(Spot(open, x), <<"string">>))
    BY <1>1, JsonStages
  <2>. QED
    BY <1>1, <1>3, <2>1, JsonStages
<1>6. JsonResult(Json!Put_Bytes(s))
  <2>. DEFINE v == Json!Emit(u, <<"{", "string", ":">>)
              w == Json!Emit(v, <<"string", "}">>)
  <2>1. Stage(v, stack, Json!Grammar!ReadTokens(Spot(open, x), <<"{", "string", ":">>))
    BY <1>1, JsonStages
  <2>2. Json!Put_Bytes(s) = Json!After_Value(w)
    BY DEF Json!Put_Bytes, u
  <2>. HIDE DEF v
  <2>3. Stage(w, stack, Json!Grammar!ValueRead(open))
    BY <1>3, <2>1, JsonStages
  <2>. HIDE DEF w
  <2>. QED
    BY <1>1, <2>2, <2>3, JsonStages
<1>7. Json!Put_Scalar(s) = Json!After_Value(Json!Emit(u, <<"scalar">>))
  BY DEF Json!Put_Scalar, u
<1>8. ASSUME NEW c \in Codes
      PROVE  Latched(Json!Fail(s, c))
  BY <1>2, <1>8 DEF Json!Fail, Codes, IsOpen, IsWriter, Components
<1>9. ASSUME NEW text
      PROVE  JsonResult(Json!Put_Text(s, text))
  <2>1. CASE Json!ValidText(text)
    <3>1. Json!Put_Text(s, text) = Json!After_Value(Json!Emit(u, <<"string">>))
      BY <1>2, <2>1 DEF Json!Put_Text, Json!Emit_Quoted, u
    <3>. QED
      BY <1>5, <3>1
  <2>2. CASE ~Json!ValidText(text)
    BY <1>2, <1>8, <2>2 DEF Json!Put_Text, JsonResult, Codes
  <2>. QED
    BY <2>1, <2>2
<1>10. ASSUME NEW value
       PROVE  JsonResult(Json!Put_Float_64(s, value))
  <2>1. CASE value # "nonfinite"
    <3>1. Json!Put_Float_64(s, value) = Json!After_Value(Json!Emit(u, <<"scalar">>))
      BY <1>2, <2>1 DEF Json!Put_Float_64, u
    <3>. QED
      BY <1>4, <3>1
  <2>2. CASE value = "nonfinite"
    BY <1>2, <1>8, <2>2 DEF Json!Put_Float_64, JsonResult, Codes
  <2>. QED
    BY <2>1, <2>2
<1>. QED
  BY <1>4, <1>6, <1>7, <1>9, <1>10

\* The tokens of Begin_Optional, Begin_Sequence and the others open what Push then frames.
LEMMA JsonBeginsFrames ==
  ASSUME NEW s, IsOpen(s), JsonSpelled(s)
  PROVE  /\ \A present : JsonResult(Json!Begin_Optional(s, present))
         /\ \A length \in Lengths : /\ JsonResult(Json!Begin_Sequence(s, length))
                                    /\ JsonResult(Json!Begin_Map(s, length))
         /\ \A count \in Nat : JsonResult(Json!Begin_Record(s, count))
         /\ \A text, count : count \in Nat => JsonResult(Json!Begin_Variant(s, text, count))
<1>. DEFINE u == Json!Before_Value(s)
<1>1. PICK open \in Seq(Brackets), x \in {"value", "first"}, stack \in Seq(Frames) :
        Nested(stack, TRUE, open) /\ Stage(u, stack, Spot(open, x))
  BY JsonStarts
<1>2. ~Latched(s) /\ ~Closed(s)
  BY DEF IsOpen
<1>. HIDE DEF u
<1>. DEFINE a == Append(open, "array")
            b == Append(open, "object")
<1>3. a \in Seq(Brackets)
  BY OuterOf DEF Brackets
<1>4. /\ Json!Grammar!ReadTokens(Spot(open, x), <<"[">>) = Spot(a, "first")
      /\ Json!Grammar!ReadTokens(Spot(open, x), <<"{">>) = Spot(b, "member")
      /\ Json!Grammar!ReadTokens(Spot(open, x), <<"[", "scalar">>) = Spot(a, "next")
      /\ Json!Grammar!ReadTokens(Spot(a, "first"), <<"string">>) = Spot(a, "next")
      /\ Json!Grammar!ReadTokens(Spot(a, "next"), <<",", "{">>) = Spot(Append(a, "object"), "member")
  BY <1>1, JsonSpots
<1>5. ASSUME NEW kind \in Kinds, NEW length \in Lengths
      PROVE  LET f == Frame(kind, length) IN
             /\ kind = "optional" => /\ Bracketed(open, f, FALSE) = a
                                     /\ JsonExpects(<<f>>, TRUE) = "next"
             /\ kind \in {"sequence", "map"} => /\ Bracketed(open, f, FALSE) = a
                                                /\ JsonExpects(<<f>>, TRUE) = "first"
             /\ kind = "record" => /\ Bracketed(open, f, FALSE) = b
                                   /\ JsonExpects(<<f>>, TRUE) = "member"
             /\ kind = "variant" => /\ Bracketed(open, f, FALSE) = Append(a, "object")
                                    /\ JsonExpects(<<f>>, TRUE) = "member"
  <2>. DEFINE f == Frame(kind, length)
  <2>1. f.kind = kind /\ ~f.waiting /\ f.observed = 0
    BY DEF Frame
  <2>2. <<f>> # <<>> /\ LastOf(<<f>>) = f
    BY DEF LastOf
  <2>. HIDE DEF f
  <2>3. JsonExpects(<<f>>, TRUE) = IF kind \in {"record", "variant"} THEN "member"
                                   ELSE IF kind = "optional" THEN "next" ELSE "first"
    BY <2>1, <2>2 DEF JsonExpects
  <2>. QED
    BY <2>1, <2>3 DEF Bracketed, f
<1>. HIDE DEF a, b
<1>6. ASSUME NEW kind \in Kinds, NEW length \in Lengths, NEW v, NEW text, Stage(v, stack, text),
             text = Spot(Bracketed(open, Frame(kind, length), FALSE),
                         JsonExpects(<<Frame(kind, length)>>, TRUE))
      PROVE  JsonResult(Json!Push(v, kind, length))
  BY <1>1, <1>6, JsonStages
<1>7. /\ Stage(Json!Emit(u, <<"[">>), stack, Spot(a, "first"))
      /\ Stage(Json!Emit(u, <<"{">>), stack, Spot(b, "member"))
      /\ Stage(Json!Emit(u, <<"[", "scalar">>), stack, Spot(a, "next"))
  BY <1>1, <1>4, JsonStages
<1>8. \A n \in Nat : Known_Length(n) \in Lengths /\ Json!Known_Length(n) = Known_Length(n)
  BY DEF Known_Length, Json!Known_Length, Lengths
<1>9. ASSUME NEW present
      PROVE  JsonResult(Json!Begin_Optional(s, present))
  <2>. DEFINE length == Known_Length(IF present THEN 1 ELSE 0)
  <2>1. Json!Begin_Optional(s, present) = Json!Push(Json!Emit(u, <<"[", "scalar">>), "optional", length)
    BY DEF Json!Begin_Optional, u, Json!Known_Length, Known_Length
  <2>2. length \in Lengths
    BY <1>8
  <2>. HIDE DEF length
  <2>3. Bracketed(open, Frame("optional", length), FALSE) = a
        /\ JsonExpects(<<Frame("optional", length)>>, TRUE) = "next"
    BY <1>5, <2>2 DEF Kinds
  <2>. QED
    BY <1>6, <1>7, <2>1, <2>2, <2>3 DEF Kinds
<1>10. ASSUME NEW length \in Lengths
       PROVE  /\ JsonResult(Json!Begin_Sequence(s, length))
              /\ JsonResult(Json!Begin_Map(s, length))
  <2>1. /\ Json!Begin_Sequence(s, length) = Json!Push(Json!Emit(u, <<"[">>), "sequence", length)
        /\ Json!Begin_Map(s, length) = Json!Push(Json!Emit(u, <<"[">>), "map", length)
    BY DEF Json!Begin_Sequence, Json!Begin_Map, u
  <2>2. \A kind \in {"sequence", "map"} :
          /\ kind \in Kinds /\ Bracketed(open, Frame(kind, length), FALSE) = a
          /\ JsonExpects(<<Frame(kind, length)>>, TRUE) = "first"
    BY <1>5 DEF Kinds
  <2>. QED
    BY <1>6, <1>7, <2>1, <2>2
<1>11. ASSUME NEW count \in Nat
       PROVE  JsonResult(Json!Begin_Record(s, count))
  <2>. DEFINE length == Known_Length(count)
  <2>1. Json!Begin_Record(s, count) = Json!Push(Json!Emit(u, <<"{">>), "record", length)
    BY <1>8 DEF Json!Begin_Record, u
  <2>2. length \in Lengths
    BY <1>8
  <2>. HIDE DEF length
  <2>3. Bracketed(open, Frame("record", length), FALSE) = b
        /\ JsonExpects(<<Frame("record", length)>>, TRUE) = "member"
    BY <1>5, <2>2 DEF Kinds
  <2>. QED
    BY <1>6, <1>7, <2>1, <2>2, <2>3 DEF Kinds
<1>12. ASSUME NEW text, NEW count \in Nat
       PROVE  JsonResult(Json!Begin_Variant(s, text, count))
  <2>1. CASE Json!ValidText(text)
    <3>. DEFINE length == Known_Length(count)
                v == Json!Emit(u, <<"[">>)
                w == Json!Emit(v, <<"string">>)
                y == Json!Emit(w, <<",", "{">>)
    <3>1. Json!Begin_Variant(s, text, count) = Json!Push(y, "variant", length)
      BY <1>2, <1>8, <2>1 DEF Json!Begin_Variant, Json!Emit_Quoted, u
    <3>2. length \in Lengths
      BY <1>8
    <3>. HIDE DEF length
    <3>3. Bracketed(open, Frame("variant", length), FALSE) = Append(a, "object")
          /\ JsonExpects(<<Frame("variant", length)>>, TRUE) = "member"
      BY <1>5, <3>2 DEF Kinds
    <3>4. Stage(v, stack, Spot(a, "first"))
      BY <1>7
    <3>. HIDE DEF v
    <3>5. Stage(w, stack, Spot(a, "next"))
      BY <1>4, <3>4, JsonStages
    <3>. HIDE DEF w
    <3>6. Stage(y, stack, Spot(Append(a, "object"), "member"))
      BY <1>4, <3>5, JsonStages
    <3>. HIDE DEF y
    <3>. QED
      BY <1>6, <3>1, <3>2, <3>3, <3>6 DEF Kinds
  <2>2. CASE ~Json!ValidText(text)
    BY <1>2, <2>2 DEF Json!Begin_Variant, JsonResult, Json!Fail, IsOpen, IsWriter, Components
  <2>. QED
    BY <2>1, <2>2
<1>. QED
  BY <1>9, <1>10, <1>11, <1>12

\* Every event keeps the text the beginning of a JSON value, or is refused.
LEMMA JsonSpells ==
  ASSUME NEW s, IsOpen(s), JsonSpelled(s), NEW e \in AnyEvents
  PROVE  JsonResult(Json!Event(s, e))
<1>. DEFINE t == Json!Event(s, e)
<1>1. ~Latched(s) /\ ~Closed(s)
  BY DEF IsOpen
<1>2. CASE e.op \in Values
  BY <1>2, JsonValuesText, JsonDispatch DEF Values, Json!Put_Enumeration
<1>3. CASE e.op \in Begins
  <2>1. \A present : JsonResult(Json!Begin_Optional(s, present))
    BY JsonBeginsFrames
  <2>2. e.op \in {"Begin_Sequence", "Begin_Map"} =>
          JsonResult(Json!Begin_Sequence(s, e.length)) /\ JsonResult(Json!Begin_Map(s, e.length))
    BY JsonBeginsFrames, EventShape
  <2>3. e.op = "Begin_Record" => JsonResult(Json!Begin_Record(s, e.count))
    BY JsonBeginsFrames, EventShape
  <2>4. e.op = "Begin_Variant" => JsonResult(Json!Begin_Variant(s, e.text, e.count))
    BY JsonBeginsFrames, EventShape
  <2>. QED
    BY <1>3, <2>1, <2>2, <2>3, <2>4, JsonDispatch DEF Begins
<1>4. CASE e.op \in Ends
  <2>1. \A kind, close : JsonCloses(kind, close) => JsonResult(Json!Pop(s, kind, close))
    BY JsonClosesText DEF JsonResult
  <2>2. /\ \A kind \in {"optional", "sequence", "map"} : JsonCloses(kind, <<"]">>)
        /\ JsonCloses("record", <<"}">>) /\ JsonCloses("variant", <<"}", "]">>)
    BY DEF JsonCloses
  <2>3. /\ JsonResult(Json!End_Optional(s)) /\ JsonResult(Json!End_Sequence(s))
        /\ JsonResult(Json!End_Map(s)) /\ JsonResult(Json!End_Record(s))
        /\ JsonResult(Json!End_Variant(s))
    BY <2>1, <2>2 DEF Json!End_Optional, Json!End_Sequence, Json!End_Map, Json!End_Record,
      Json!End_Variant
  <2>. QED
    BY <1>4, <2>3, JsonDispatch DEF Ends
<1>5. CASE e.op = "Put_Field"
  <2>1. CASE Json!ValidText(e.text)
    BY <1>5, <2>1, JsonNamesText, JsonDispatch DEF JsonResult
  <2>2. CASE ~Json!ValidText(e.text)
    <3>1. Latched(Json!Put_Field(s, e.text))
      BY <1>1, <2>2 DEF Json!Put_Field, Json!Fail, IsOpen, IsWriter, Components
    <3>. QED
      BY <1>5, <3>1, JsonDispatch DEF JsonResult
  <2>. QED
    BY <2>1, <2>2
<1>. QED
  BY <1>2, <1>3, <1>4, <1>5, EventShape

\* What is spelled is what the writer's own state says of it.
LEMMA JsonFollows ==
  ASSUME NEW w, w.stack \in Seq(Frames), w.stack # <<>> => w.root_written,
         w.root_written \in BOOLEAN, JsonSpelled(w)
  PROVE  Json!Follows(w)
<1>. DEFINE x == JsonExpects(w.stack, w.root_written)
<1>1. w.text.expect = x
  BY DEF JsonSpelled, Spot
<1>2. x # "error" /\ (x = "end") = (w.root_written /\ w.stack = <<>>)
  <2>1. CASE w.stack = <<>>
    BY <2>1 DEF JsonExpects
  <2>2. CASE w.stack # <<>>
    BY <2>2 DEF JsonExpects
  <2>. QED
    BY <2>1, <2>2
<1>. QED
  BY <1>1, <1>2, Zenon DEF Json!Follows, Json!Grammar!Whole

-----------------------------------------------------------------------------
(* The output of the CBOR writer. *)

Entries == [left : Nat, indefinite : BOOLEAN, pairs : BOOLEAN, odd : BOOLEAN]

\* The entry needs no further item.
Filled_Up(e) == ~e.indefinite /\ e.left = 0

\* The reader has found nothing wrong, and these entries.
Reads(g, open, started, body) ==
  /\ g = [i \in {"open", "started", "body", "bad"} |-> g[i]]
  /\ g.open = open /\ g.started = started /\ g.body = body /\ g.bad = FALSE

\* The items that a frame of known length has still to begin; `inner` when a child is under way.
Slots(f, inner) ==
  LET left == f.expected - f.observed IN
  IF f.kind \in {"optional", "sequence"} THEN IF inner THEN left - 1 ELSE left
  ELSE IF f.kind = "map" /\ inner THEN IF f.child_is_value THEN 2 * left - 2 ELSE 2 * left - 1
  ELSE IF inner THEN 2 * left - 2
  ELSE IF f.waiting THEN 2 * left - 1 ELSE 2 * left

\* The reader's entry `e` is that of the head of frame `f`.
Mirrors(e, f, inner) ==
  IF f.known
  THEN ~e.indefinite /\ e.left = Slots(f, inner)
  ELSE /\ f.kind \in {"sequence", "map"} /\ e.indefinite
       /\ e.pairs = (f.kind = "map")
       /\ e.odd = (f.kind = "map" /\ IF inner THEN ~f.child_is_value ELSE f.waiting)

\* The entries of the frames of `stack` are in `open` in their order, and every other entry
\* is filled up.
Standing(stack, inner, open) ==
  \E pos \in [1..Len(stack) -> 1..Len(open)] :
    /\ \A i, j \in 1..Len(stack) : i < j => pos[i] < pos[j]
    /\ \A i \in 1..Len(stack) : Mirrors(open[pos[i]], stack[i], inner \/ i < Len(stack))
    /\ \A j \in 1..Len(open) : (\A i \in 1..Len(stack) : pos[i] # j) => Filled_Up(open[j])

\* What is left of `open` when a frame's entry, in place `d`, becomes `e`.
Cut(open, d, e) == [SubSeq(open, 1, d) EXCEPT ![d] = e]

\* Its elements.
LEMMA CutIsEntries ==
  ASSUME NEW open \in Seq(Entries), NEW d \in 1..Len(open), NEW e \in Entries
  PROVE  /\ Cut(open, d, e) \in Seq(Entries) /\ Len(Cut(open, d, e)) = d
         /\ Cut(open, d, e)[d] = e
         /\ \A j \in 1..d : j # d => Cut(open, d, e)[j] = open[j]
<1>. DEFINE t == SubSeq(open, 1, d)
<1>1. Len(open) \in Nat /\ d \in Nat /\ d >= 1 /\ \A i \in 1..d : open[i] \in Entries
  BY LenProperties, ElementOfSeq
<1>2. t \in Seq(Entries) /\ Len(t) = d /\ \A i \in 1..d : t[i] = open[i]
  BY <1>1, SubSeqProperties
<1>. HIDE DEF t
<1>3. /\ [t EXCEPT ![d] = e] \in Seq(Entries) /\ Len([t EXCEPT ![d] = e]) = d
      /\ \A j \in 1..d : [t EXCEPT ![d] = e][j] = IF j = d THEN e ELSE t[j]
  BY <1>1, <1>2, ExceptSeq
<1>4. Cut(open, d, e) = [t EXCEPT ![d] = e] /\ d \in 1..d
  BY <1>1 DEF Cut, t
<1>. QED
  BY <1>2, <1>3, <1>4

\* One component of it changed.
LEMMA ReadsChanges ==
  ASSUME NEW g, NEW open, NEW started, NEW body, Reads(g, open, started, body), NEW x
  PROVE  /\ Reads([g EXCEPT !.open = x], x, started, body)
         /\ Reads([g EXCEPT !.body = x], open, started, x)
         /\ Reads([g EXCEPT !.started = TRUE], open, TRUE, body)
  BY DEF Reads

\* An entry that takes an item.
LEMMA FilledIsEntry ==
  ASSUME NEW e \in Entries, ~Filled_Up(e)
  PROVE  LET f == Cbor!Grammar!Filled(e) IN
         /\ f \in Entries /\ f.indefinite = e.indefinite /\ f.pairs = e.pairs
         /\ ~e.indefinite => f.left = e.left - 1 /\ f.odd = e.odd
         /\ e.indefinite /\ e.pairs => f.odd = ~e.odd
         /\ e.indefinite /\ ~e.pairs => f.odd = e.odd
<1>1. CASE e.indefinite /\ e.pairs
  BY <1>1 DEF Entries, Cbor!Grammar!Filled
<1>2. CASE e.indefinite /\ ~e.pairs
  BY <1>2 DEF Entries, Cbor!Grammar!Filled
<1>3. CASE ~e.indefinite
  BY <1>3 DEF Entries, Filled_Up, Cbor!Grammar!Filled
<1>. QED
  BY <1>1, <1>2, <1>3

\* The innermost entry that is not filled up takes the next item, and may take a break.
LEMMA ItemFills ==
  ASSUME NEW g, NEW open \in Seq(Entries), Reads(g, open, TRUE, 0),
         NEW d \in 1..Len(open), ~Filled_Up(open[d]),
         \A j \in 1..Len(open) : j > d => Filled_Up(open[j])
  PROVE  /\ Reads(Cbor!Grammar!ReadItem(g), Cut(open, d, Cbor!Grammar!Filled(open[d])), TRUE, 0)
         /\ open[d].indefinite /\ ~open[d].odd =>
              Reads(Cbor!Grammar!ReadBreak(g), Cut(open, d, Cbor!Grammar!Definite(0)), TRUE, 0)
<1>. DEFINE in == Cbor!Grammar!Incomplete(g)
<1>1. Len(open) \in Nat /\ \A i \in 1..Len(open) : open[i] \in Entries
  BY LenProperties, ElementOfSeq
<1>2. ~g.bad /\ g.body = 0 /\ g.started = TRUE /\ g.open = open
  BY DEF Reads
<1>3. \A i \in 1..Len(open) : i \in in <=> ~Filled_Up(open[i])
  BY <1>1, <1>2 DEF Cbor!Grammar!Incomplete, Filled_Up, Entries
<1>4. in \subseteq 1..Len(open)
  BY <1>2 DEF Cbor!Grammar!Incomplete
<1>. HIDE DEF in
<1>5. d \in in /\ \A y \in in : d >= y
  <2>1. d \in in
    BY <1>3
  <2>2. ASSUME NEW y \in in
        PROVE  d >= y
    <3>1. y \in 1..Len(open) /\ ~(y > d)
      BY <1>3, <1>4
    <3>. QED
      BY <1>1, <3>1
  <2>. QED
    BY <2>1, <2>2
<1>6. in # {} /\ Cbor!Grammar!Max(in) = d
  <2>1. \A x \in in : (\A y \in in : x >= y) => x = d
    BY <1>1, <1>4, <1>5
  <2>. QED
    BY <1>5, <2>1 DEF Cbor!Grammar!Max
<1>7. ASSUME NEW e
      PROVE  Reads(Cbor!Grammar!Until(g, d, e), Cut(open, d, e), TRUE, 0)
  <2>1. Cbor!Grammar!Until(g, d, e) = [g EXCEPT !.open = Cut(open, d, e)]
    BY <1>2 DEF Cut, Cbor!Grammar!Until
  <2>2. \A x : Reads([g EXCEPT !.open = x], x, TRUE, 0)
    BY ReadsChanges
  <2>. QED
    BY <2>1, <2>2
<1>8. Cbor!Grammar!ReadItem(g) = Cbor!Grammar!Until(g, d, Cbor!Grammar!Filled(open[d]))
  BY <1>2, <1>6 DEF Cbor!Grammar!ReadItem, in
<1>9. ASSUME open[d].indefinite, ~open[d].odd
      PROVE  Cbor!Grammar!ReadBreak(g) = Cbor!Grammar!Until(g, d, Cbor!Grammar!Definite(0))
  BY <1>2, <1>6, <1>9 DEF Cbor!Grammar!ReadBreak, in
<1>. QED
  BY <1>7, <1>8, <1>9

\* What the heads of a document do, once they have taken their place.
LEMMA HeadsRead ==
  ASSUME NEW g, NEW open, Reads(Cbor!Grammar!ReadItem(g), open, TRUE, 0), NEW n
  PROVE  LET R(head) == Cbor!Grammar!ReadToken(g, [head |-> head, count |-> n]) IN
         /\ Reads(R("scalar"), open, TRUE, 0)
         /\ Reads(R("string"), open, TRUE, n)
         /\ Reads(R("array"), Append(open, Cbor!Grammar!Definite(n)), TRUE, 0)
         /\ Reads(R("map"), Append(open, Cbor!Grammar!Definite(2 * n)), TRUE, 0)
         /\ Reads(R("array_start"), Append(open, Cbor!Grammar!Indefinite(FALSE)), TRUE, 0)
         /\ Reads(R("map_start"), Append(open, Cbor!Grammar!Indefinite(TRUE)), TRUE, 0)
<1>. DEFINE h == Cbor!Grammar!ReadItem(g)
<1>1. ~h.bad /\ h.open = open
  BY DEF Reads
<1>2. /\ \A x : Reads([h EXCEPT !.open = x], x, TRUE, 0)
      /\ \A x : Reads([h EXCEPT !.body = x], open, TRUE, x)
  BY ReadsChanges
<1>. HIDE DEF h
<1>3. \A x : Reads(Cbor!Grammar!ReadHead(g, x), Append(open, x), TRUE, 0)
  BY <1>1, <1>2 DEF Cbor!Grammar!ReadHead, h
<1>4. Cbor!Grammar!ReadToken(g, [head |-> "scalar", count |-> n]) = h
  BY DEF Cbor!Grammar!ReadToken, h
<1>5. Cbor!Grammar!ReadToken(g, [head |-> "string", count |-> n]) = [h EXCEPT !.body = n]
  BY <1>1 DEF Cbor!Grammar!ReadToken, h
<1>6. Cbor!Grammar!ReadToken(g, [head |-> "array", count |-> n]) =
        Cbor!Grammar!ReadHead(g, Cbor!Grammar!Definite(n))
  BY DEF Cbor!Grammar!ReadToken
<1>7. Cbor!Grammar!ReadToken(g, [head |-> "map", count |-> n]) =
        Cbor!Grammar!ReadHead(g, Cbor!Grammar!Definite(2 * n))
  BY DEF Cbor!Grammar!ReadToken
<1>8. Cbor!Grammar!ReadToken(g, [head |-> "array_start", count |-> n]) =
        Cbor!Grammar!ReadHead(g, Cbor!Grammar!Indefinite(FALSE))
  BY DEF Cbor!Grammar!ReadToken
<1>9. Cbor!Grammar!ReadToken(g, [head |-> "map_start", count |-> n]) =
        Cbor!Grammar!ReadHead(g, Cbor!Grammar!Indefinite(TRUE))
  BY DEF Cbor!Grammar!ReadToken
<1>10. Reads(h, open, TRUE, 0)
  BY DEF h
<1>. QED
  BY <1>2, <1>3, <1>4, <1>5, <1>6, <1>7, <1>8, <1>9, <1>10

\* The content of a string.
LEMMA ContentRead ==
  ASSUME NEW g, NEW open, NEW n \in Nat \ {0}, Reads(g, open, TRUE, n)
  PROVE  Reads(Cbor!Grammar!ReadToken(g, [head |-> "content", count |-> 0]), open, TRUE, n - 1)
<1>1. g.body = n
  BY DEF Reads
<1>2. Reads([g EXCEPT !.body = n - 1], open, TRUE, n - 1)
  BY ReadsChanges
<1>3. Cbor!Grammar!ReadToken(g, [head |-> "content", count |-> 0]) = [g EXCEPT !.body = n - 1]
  BY <1>1 DEF Cbor!Grammar!ReadToken
<1>. QED
  BY <1>2, <1>3

\* The break of a container.
LEMMA BreakRead ==
  ASSUME NEW g
  PROVE  Cbor!Grammar!ReadToken(g, [head |-> "break", count |-> 0]) = Cbor!Grammar!ReadBreak(g)
  BY DEF Cbor!Grammar!ReadToken

\* The first item of a document has no entry to fill.
LEMMA RootItem ==
  ASSUME NEW g, NEW open \in Seq(Entries), Reads(g, open, FALSE, 0),
         \A j \in 1..Len(open) : Filled_Up(open[j])
  PROVE  Reads(Cbor!Grammar!ReadItem(g), open, TRUE, 0)
<1>1. ~g.bad /\ g.body = 0 /\ ~g.started /\ g.open = open
  BY DEF Reads
<1>2. Cbor!Grammar!Incomplete(g) = {}
  <2>1. \A i \in 1..Len(open) : ~open[i].indefinite /\ open[i].left = 0
    BY DEF Filled_Up
  <2>. QED
    BY <1>1, <2>1 DEF Cbor!Grammar!Incomplete
<1>3. Cbor!Grammar!ReadItem(g) = [g EXCEPT !.started = TRUE]
  BY <1>1, <1>2 DEF Cbor!Grammar!ReadItem
<1>4. Reads([g EXCEPT !.started = TRUE], open, TRUE, 0)
  BY DEF Reads
<1>. QED
  BY <1>3, <1>4

\* An entry just opened takes the item after it.
LEMMA InnermostItem ==
  ASSUME NEW g, NEW open \in Seq(Entries), NEW e \in Entries, ~Filled_Up(e),
         Reads(g, Append(open, e), TRUE, 0)
  PROVE  Reads(Cbor!Grammar!ReadItem(g), Append(open, Cbor!Grammar!Filled(e)), TRUE, 0)
<1>. DEFINE o == Append(open, e)
            d == Len(open) + 1
            x == Cbor!Grammar!Filled(e)
<1>1. /\ Len(open) \in Nat /\ o \in Seq(Entries) /\ Len(o) = d /\ o[d] = e
      /\ \A j \in 1..Len(open) : o[j] = open[j]
  BY AppendProperties, LenProperties
<1>2. d \in 1..Len(o) /\ \A j \in 1..Len(o) : ~(j > d)
  BY <1>1
<1>3. Reads(Cbor!Grammar!ReadItem(g), Cut(o, d, x), TRUE, 0)
  <2>1. Reads(g, o, TRUE, 0)
    OBVIOUS
  <2>. HIDE DEF o, d
  <2>. QED
    BY <1>1, <1>2, <2>1, ItemFills
<1>4. Cut(o, d, x) = Append(open, x)
  <2>1. x \in Entries
    BY FilledIsEntry
  <2>. HIDE DEF x
  <2>2. /\ Append(open, x) \in Seq(Entries) /\ Len(Append(open, x)) = d /\ Append(open, x)[d] = x
        /\ \A j \in 1..Len(open) : Append(open, x)[j] = open[j]
    BY <2>1, AppendProperties
  <2>. HIDE DEF o
  <2>3. /\ Cut(o, d, x) \in Seq(Entries) /\ Len(Cut(o, d, x)) = d /\ Cut(o, d, x)[d] = x
        /\ \A j \in 1..d : j # d => Cut(o, d, x)[j] = o[j]
    <3>1. o \in Seq(Entries) /\ d \in 1..Len(o)
      BY <1>1, <1>2 DEF o
    <3>. HIDE DEF d
    <3>. QED
      BY <2>1, <3>1, CutIsEntries
  <2>4. \A j \in 1..d : Cut(o, d, x)[j] = Append(open, x)[j]
    BY <1>1, <2>2, <2>3
  <2>5. Len(Cut(o, d, x)) = Len(Append(open, x))
    BY <2>2, <2>3
  <2>. HIDE DEF d
  <2>. QED
    BY <2>2, <2>3, <2>4, <2>5, SeqEqual
<1>. QED
  BY <1>3, <1>4

\* A frame, after Before_Value, that a value may begin in.
Taking(f) ==
  /\ f.kind = "map" => f.child_is_value = f.waiting
  /\ f.kind \in {"optional", "sequence"} \/ (f.kind = "map" /\ ~f.waiting) => ~Full(f)
  /\ f.kind \in {"record", "variant"} => f.waiting

\* What happens to an entry and its frame keeps them alike.
LEMMA EntryTakes ==
  ASSUME NEW e \in Entries, NEW f \in Frames, Mirrors(e, f, FALSE), Taking(f)
  PROVE  ~Filled_Up(e) /\ Mirrors(Cbor!Grammar!Filled(e), f, TRUE)
<1>. DEFINE x == Cbor!Grammar!Filled(e)
<1>1. /\ f.waiting \in BOOLEAN /\ f.child_is_value \in BOOLEAN /\ f.known \in BOOLEAN
      /\ f.observed \in Nat /\ f.expected \in Nat
      /\ f.kind \in {"optional", "sequence", "map", "record", "variant"}
  BY FrameFields DEF Kinds
<1>2. e.left \in Nat /\ e.indefinite \in BOOLEAN /\ e.odd \in BOOLEAN /\ e.pairs \in BOOLEAN
  BY DEF Entries
<1>3. CASE f.known
  <2>1. ~e.indefinite /\ e.left = Slots(f, FALSE)
    BY <1>3 DEF Mirrors
  <2>2. Slots(f, FALSE) # 0 /\ Slots(f, TRUE) = Slots(f, FALSE) - 1
    <3>1. CASE f.kind \in {"optional", "sequence"}
      BY <1>1, <1>3, <3>1 DEF Slots, Taking
    <3>2. CASE f.kind = "map" /\ f.waiting
      <4>1. /\ Slots(f, FALSE) = 2 * (f.expected - f.observed) - 1
            /\ Slots(f, TRUE) = 2 * (f.expected - f.observed) - 2
        BY <1>1, <3>2 DEF Slots, Taking
      <4>2. f.expected - f.observed \in Int
        BY <1>1
      <4>3. \A k \in Int : 2 * k - 1 # 0 /\ 2 * k - 2 = (2 * k - 1) - 1
        OBVIOUS
      <4>4. 2 * (f.expected - f.observed) - 1 # 0
        BY <4>2, <4>3
      <4>5. 2 * (f.expected - f.observed) - 2 = (2 * (f.expected - f.observed) - 1) - 1
        BY <4>2, <4>3
      <4>. QED
        BY <4>1, <4>4, <4>5, Zenon
    <3>3. CASE f.kind = "map" /\ ~f.waiting
      BY <1>1, <1>3, <3>3 DEF Slots, Taking
    <3>4. CASE f.kind \in {"record", "variant"}
      BY <1>1, <1>3, <3>4 DEF Slots, Taking
    <3>. QED
      BY <1>1, <3>1, <3>2, <3>3, <3>4
  <2>3. ~Filled_Up(e)
    BY <2>1, <2>2 DEF Filled_Up
  <2>4. x.indefinite = e.indefinite /\ x.left = e.left - 1
    BY <2>1, <2>3, FilledIsEntry
  <2>. HIDE DEF x
  <2>. QED
    BY <1>3, <2>1, <2>2, <2>3, <2>4 DEF Mirrors, x
<1>4. CASE ~f.known
  <2>1. /\ f.kind \in {"sequence", "map"} /\ e.indefinite
        /\ e.pairs = (f.kind = "map") /\ e.odd = (f.kind = "map" /\ f.waiting)
    BY <1>4 DEF Mirrors
  <2>2. ~Filled_Up(e)
    BY <2>1 DEF Filled_Up
  <2>3. /\ x.indefinite = e.indefinite /\ x.pairs = e.pairs
        /\ e.pairs => x.odd = ~e.odd
        /\ ~e.pairs => x.odd = e.odd
    BY <2>1, <2>2, FilledIsEntry
  <2>4. x.odd = (f.kind = "map" /\ ~f.child_is_value)
    <3>. HIDE DEF x
    <3>1. CASE f.kind = "map"
      BY <1>1, <1>2, <2>1, <2>3, <3>1 DEF Taking
    <3>2. CASE f.kind # "map"
      BY <1>1, <1>2, <2>1, <2>3, <3>2
    <3>. QED
      BY <3>1, <3>2
  <2>. HIDE DEF x
  <2>5. Mirrors(x, f, TRUE)
    BY <1>4, <2>1, <2>3, <2>4 DEF Mirrors
  <2>. QED
    BY <2>2, <2>5 DEF x
<1>. QED
  BY <1>1, <1>3, <1>4

\* Entering a frame has no effect on its entry.
LEMMA EntryEntered ==
  ASSUME NEW e \in Entries, NEW f \in Frames, Mirrors(e, f, FALSE)
  PROVE  Mirrors(e, EnteredFrame(f), FALSE)
<1>. DEFINE g == EnteredFrame(f)
<1>1. /\ g.kind = f.kind /\ g.known = f.known /\ g.expected = f.expected
      /\ g.observed = f.observed /\ g.waiting = f.waiting
  BY DEF EnteredFrame, Frames
<1>. HIDE DEF g
<1>2. Slots(g, FALSE) = Slots(f, FALSE)
  BY <1>1 DEF Slots
<1>. QED
  BY <1>1, <1>2 DEF Mirrors, g

\* Completing a child counts what its head has filled.
LEMMA EntryCompleted ==
  ASSUME NEW e \in Entries, NEW f \in Frames, Mirrors(e, f, TRUE)
  PROVE  Mirrors(e, CompletedFrame(f), FALSE)
<1>. DEFINE g == CompletedFrame(f)
<1>1. /\ f.waiting \in BOOLEAN /\ f.child_is_value \in BOOLEAN /\ f.known \in BOOLEAN
      /\ f.observed \in Nat /\ f.expected \in Nat
      /\ f.kind \in {"optional", "sequence", "map", "record", "variant"}
  BY FrameFields DEF Kinds
<1>2. /\ g.kind = f.kind /\ g.known = f.known /\ g.expected = f.expected
      /\ CompletesKey(f) => g.waiting /\ g.observed = f.observed
      /\ ~CompletesKey(f) => ~g.waiting /\ g.observed = f.observed + 1
  BY DEF CompletedFrame, Frames
<1>. HIDE DEF g
<1>3. Slots(g, FALSE) = Slots(f, TRUE)
  <2>1. CASE CompletesKey(f)
    BY <1>1, <1>2, <2>1 DEF Slots, CompletesKey
  <2>2. CASE ~CompletesKey(f)
    <3>1. CASE f.kind \in {"optional", "sequence"}
      BY <1>1, <1>2, <2>2, <3>1 DEF Slots
    <3>2. CASE f.kind \in {"map", "record", "variant"}
      BY <1>1, <1>2, <2>2, <3>2 DEF Slots, CompletesKey
    <3>. QED
      BY <1>1, <3>1, <3>2
  <2>. QED
    BY <2>1, <2>2
<1>4. CASE f.known
  BY <1>2, <1>3, <1>4 DEF Mirrors, g
<1>5. CASE ~f.known
  <2>1. (f.kind = "map" /\ ~f.child_is_value) = (g.kind = "map" /\ g.waiting)
    BY <1>1, <1>2 DEF CompletesKey
  <2>. QED
    BY <1>2, <1>5, <2>1 DEF Mirrors, g
<1>. QED
  BY <1>1, <1>4, <1>5

\* A field name takes the slot of a key.
LEMMA EntryNamed ==
  ASSUME NEW e \in Entries, NEW f \in Frames, Mirrors(e, f, FALSE), TakesField(f)
  PROVE  ~Filled_Up(e) /\ Mirrors(Cbor!Grammar!Filled(e), [f EXCEPT !.waiting = TRUE], FALSE)
<1>. DEFINE x == Cbor!Grammar!Filled(e)
            g == [f EXCEPT !.waiting = TRUE]
<1>1. f.observed \in Nat /\ f.expected \in Nat /\ f.kind \in {"record", "variant"} /\ ~f.waiting
      /\ f.known /\ ~Full(f)
  BY FrameFields DEF TakesField, Mirrors
<1>2. /\ g.kind = f.kind /\ g.known = f.known /\ g.expected = f.expected
      /\ g.waiting /\ g.observed = f.observed
  BY DEF Frames
<1>3. e.left \in Nat
  BY DEF Entries
<1>4. ~e.indefinite /\ e.left = 2 * (f.expected - f.observed) /\ e.left # 0
  BY <1>1 DEF Mirrors, Slots
<1>5. ~Filled_Up(e)
  BY <1>4 DEF Filled_Up
<1>6. x.indefinite = e.indefinite /\ x.left = e.left - 1
  BY <1>4, <1>5, FilledIsEntry
<1>. HIDE DEF x, g
<1>7. Slots(g, FALSE) = 2 * (f.expected - f.observed) - 1
  BY <1>1, <1>2 DEF Slots
<1>. QED
  BY <1>1, <1>2, <1>4, <1>5, <1>6, <1>7 DEF Mirrors, x, g

\* `o` goes on from the entries of `open` before place `d`, and past it all are filled up.
Onward(o, open, d) ==
  /\ o \in Seq(Entries) /\ d <= Len(o)
  /\ \A j \in 1..(d - 1) : o[j] = open[j]
  /\ \A j \in 1..Len(o) : d < j => Filled_Up(o[j])

\* What is left of the entries goes on from them.
LEMMA CutGoesOn ==
  ASSUME NEW open \in Seq(Entries), NEW d \in 1..Len(open), NEW x \in Entries
  PROVE  LET o == Cut(open, d, x) IN Onward(o, open, d) /\ o[d] = x /\ o \in Seq(Entries)
<1>. DEFINE o == Cut(open, d, x)
<1>1. /\ o \in Seq(Entries) /\ Len(o) = d /\ o[d] = x
      /\ \A j \in 1..d : j # d => o[j] = open[j]
  BY CutIsEntries
<1>2. d \in Nat
  BY LenProperties
<1>. HIDE DEF o
<1>3. Onward(o, open, d)
  BY <1>1, <1>2 DEF Onward
<1>. QED
  BY <1>1, <1>3 DEF o

\* Nothing stands outside the outermost frame.
LEMMA StandingEmpty ==
  ASSUME NEW open \in Seq(Entries), NEW inner
  PROVE  Standing(<<>>, inner, open) <=> \A j \in 1..Len(open) : Filled_Up(open[j])
<1>1. Len(<<>>) = 0 /\ 1..0 = {}
  OBVIOUS
<1>2. ASSUME Standing(<<>>, inner, open)
      PROVE  \A j \in 1..Len(open) : Filled_Up(open[j])
  BY <1>1, <1>2 DEF Standing
<1>3. ASSUME \A j \in 1..Len(open) : Filled_Up(open[j])
      PROVE  Standing(<<>>, inner, open)
  <2>. DEFINE pos == [i \in {} |-> 0]
  <2>1. pos \in [{} -> 1..Len(open)]
    OBVIOUS
  <2>. QED
    BY <1>1, <1>3, <2>1 DEF Standing
<1>. QED
  BY <1>2, <1>3

\* The entry of the innermost frame, and what becomes of the others when it changes.
LEMMA StandingTop ==
  ASSUME NEW stack \in Seq(Frames), stack # <<>>, NEW inner \in BOOLEAN,
         NEW open \in Seq(Entries), Standing(stack, inner, open)
  PROVE  \E d \in 1..Len(open) :
           /\ Mirrors(open[d], LastOf(stack), inner)
           /\ Onward(open, open, d)
           /\ \A o : Onward(o, open, d) =>
                /\ \A f \in Frames, in2 \in BOOLEAN :
                     Mirrors(o[d], f, in2) => Standing([stack EXCEPT ![Len(stack)] = f], in2, o)
                /\ Filled_Up(o[d]) => Standing(Popped(stack), TRUE, o)
<1>. DEFINE n == Len(stack)
            rest == Popped(stack)
<1>1. n \in Nat \ {0} /\ Len(rest) = n - 1 /\ \A i \in 1..(n - 1) : rest[i] = stack[i]
  BY PoppedIsStack, TopIsFrame
<1>2. PICK pos \in [1..n -> 1..Len(open)] :
        /\ \A i, j \in 1..n : i < j => pos[i] < pos[j]
        /\ \A i \in 1..n : Mirrors(open[pos[i]], stack[i], inner \/ i < n)
        /\ \A j \in 1..Len(open) : (\A i \in 1..n : pos[i] # j) => Filled_Up(open[j])
  BY DEF Standing
<1>. DEFINE d == pos[n]
<1>3. /\ Len(open) \in Nat /\ n \in 1..n /\ d \in 1..Len(open)
      /\ \A i \in 1..n : pos[i] \in 1..Len(open) /\ pos[i] <= d /\ (i # n => pos[i] < d)
  <2>1. Len(open) \in Nat /\ n \in 1..n
    BY <1>1, LenProperties
  <2>2. \A i \in 1..n : pos[i] \in 1..Len(open)
    BY <1>2
  <2>3. ASSUME NEW i \in 1..n
        PROVE  pos[i] <= d /\ (i # n => pos[i] < d)
    <3>1. i = n \/ i < n
      BY <1>1
    <3>2. i < n => pos[i] < pos[n]
      BY <1>2, <2>1
    <3>. QED
      BY <2>1, <2>2, <3>1, <3>2
  <2>. QED
    BY <2>1, <2>2, <2>3
<1>. HIDE DEF rest
<1>4. Mirrors(open[d], LastOf(stack), inner)
  <2>1. Mirrors(open[pos[n]], stack[n], inner \/ n < n)
    BY <1>2, <1>3
  <2>2. (inner \/ n < n) = inner
    BY <1>1
  <2>. QED
    BY <2>1, <2>2 DEF LastOf
<1>5. Onward(open, open, d)
  <2>1. ASSUME NEW j \in 1..Len(open), d < j
        PROVE  Filled_Up(open[j])
    <3>1. \A i \in 1..n : pos[i] # j
      BY <1>3, <2>1
    <3>. QED
      BY <1>2, <3>1
  <2>. HIDE DEF d
  <2>. QED
    BY <1>3, <2>1 DEF Onward
<1>6. ASSUME NEW o, Onward(o, open, d)
      PROVE  /\ pos \in [1..n -> 1..Len(o)]
             /\ \A i \in 1..n : i # n => Mirrors(o[pos[i]], stack[i], TRUE)
             /\ \A j \in 1..Len(o) : (\A i \in 1..n : pos[i] # j) => Filled_Up(o[j])
             /\ \A j \in 1..Len(o) :
                  (\A i \in 1..(n - 1) : pos[i] # j) => j = d \/ Filled_Up(o[j])
  <2>1. Len(o) \in Nat /\ d <= Len(o) /\ \A j \in 1..(d - 1) : o[j] = open[j]
    BY <1>6, LenProperties DEF Onward
  <2>2. \A j \in 1..Len(o) : d < j => Filled_Up(o[j])
    BY <1>6 DEF Onward
  <2>3. pos \in [1..n -> 1..Len(o)]
    <3>1. \A i \in 1..n : pos[i] \in 1..Len(o)
      BY <1>3, <2>1
    <3>. QED
      BY <1>2, <3>1
  <2>4. ASSUME NEW i \in 1..n, i # n
        PROVE  Mirrors(o[pos[i]], stack[i], TRUE)
    <3>1. pos[i] \in 1..(d - 1) /\ i < n
      BY <1>1, <1>3, <2>4
    <3>2. o[pos[i]] = open[pos[i]] /\ (inner \/ i < n) = TRUE
      BY <2>1, <3>1
    <3>3. Mirrors(open[pos[i]], stack[i], inner \/ i < n)
      BY <1>2
    <3>. QED
      BY <3>2, <3>3
  <2>5. ASSUME NEW j \in 1..Len(o), \A i \in 1..(n - 1) : pos[i] # j
        PROVE  j = d \/ Filled_Up(o[j])
    <3>1. CASE j < d
      <4>1. j \in 1..(d - 1) /\ j \in 1..Len(open)
        BY <1>3, <2>1, <3>1
      <4>2. \A i \in 1..n : pos[i] # j
        <5>1. \A i \in 1..n : i = n \/ i \in 1..(n - 1)
          BY <1>1
        <5>2. pos[n] # j
          BY <1>3, <2>1, <3>1
        <5>. QED
          BY <2>5, <5>1, <5>2
      <4>3. Filled_Up(open[j])
        BY <1>2, <4>1, <4>2
      <4>. QED
        BY <2>1, <4>1, <4>3
    <3>2. CASE ~(j < d)
      <4>1. j = d \/ d < j
        BY <1>3, <2>1, <3>2
      <4>. QED
        BY <2>2, <4>1
    <3>. QED
      BY <3>1, <3>2
  <2>6. ASSUME NEW j \in 1..Len(o), \A i \in 1..n : pos[i] # j
        PROVE  Filled_Up(o[j])
    <3>1. (\A i \in 1..(n - 1) : pos[i] # j) /\ j # d
      BY <1>1, <1>3, <2>6
    <3>. QED
      BY <2>5, <3>1
  <2>. QED
    BY <2>3, <2>4, <2>5, <2>6
<1>7. ASSUME NEW o, Onward(o, open, d), NEW f \in Frames, NEW in2 \in BOOLEAN,
             Mirrors(o[d], f, in2)
      PROVE  Standing([stack EXCEPT ![Len(stack)] = f], in2, o)
  <2>. DEFINE set == [stack EXCEPT ![n] = f]
  <2>1. Len(set) = n /\ set[n] = f /\ \A i \in 1..n : i # n => set[i] = stack[i]
    BY TopSet DEF LastOf
  <2>. HIDE DEF set
  <2>2. ASSUME NEW i \in 1..n
        PROVE  Mirrors(o[pos[i]], set[i], in2 \/ i < n)
    <3>1. CASE i = n
      <4>1. (in2 \/ i < n) = in2 /\ set[i] = f /\ pos[i] = d
        BY <1>1, <2>1, <3>1
      <4>. QED
        BY <1>7, <4>1
    <3>2. CASE i # n
      <4>1. (in2 \/ i < n) = TRUE /\ set[i] = stack[i]
        BY <1>1, <2>1, <3>2
      <4>2. Mirrors(o[pos[i]], stack[i], TRUE)
        BY <1>6, <1>7, <3>2
      <4>. QED
        BY <4>1, <4>2
    <3>. QED
      BY <3>1, <3>2
  <2>3. /\ pos \in [1..n -> 1..Len(o)]
        /\ \A j \in 1..Len(o) : (\A i \in 1..n : pos[i] # j) => Filled_Up(o[j])
    BY <1>6, <1>7
  <2>4. Standing(set, in2, o)
    BY <1>2, <2>1, <2>2, <2>3 DEF Standing
  <2>. QED
    BY <2>4 DEF set
<1>8. ASSUME NEW o, Onward(o, open, d), Filled_Up(o[d])
      PROVE  Standing(rest, TRUE, o)
  <2>. DEFINE k == Len(rest)
              under == [i \in 1..k |-> pos[i]]
  <2>1. k = n - 1 /\ \A i \in 1..k : i \in 1..n /\ i # n
    BY <1>1
  <2>2. /\ under \in [1..k -> 1..Len(o)]
        /\ \A i \in 1..k : under[i] = pos[i]
    <3>1. pos \in [1..n -> 1..Len(o)]
      BY <1>6, <1>8
    <3>. QED
      BY <2>1, <3>1
  <2>3. ASSUME NEW i \in 1..k
        PROVE  Mirrors(o[under[i]], rest[i], TRUE \/ i < k)
    <3>1. (TRUE \/ i < k) = TRUE /\ rest[i] = stack[i] /\ under[i] = pos[i]
      BY <1>1, <2>1, <2>2
    <3>2. Mirrors(o[pos[i]], stack[i], TRUE)
      BY <1>6, <1>8, <2>1
    <3>. QED
      BY <3>1, <3>2
  <2>4. \A i, j \in 1..k : i < j => under[i] < under[j]
    BY <1>2, <2>1, <2>2
  <2>5. ASSUME NEW j \in 1..Len(o), \A i \in 1..k : under[i] # j
        PROVE  Filled_Up(o[j])
    <3>1. \A i \in 1..k : pos[i] # j
      BY <2>2, <2>5
    <3>2. j = d \/ Filled_Up(o[j])
      BY <1>6, <1>8, <2>1, <3>1
    <3>. QED
      BY <1>8, <3>2
  <2>. HIDE DEF under
  <2>. QED
    BY <1>1, <2>2, <2>3, <2>4, <2>5 DEF Standing
<1>9. \A o : Onward(o, open, d) =>
        /\ \A f \in Frames, in2 \in BOOLEAN :
             Mirrors(o[d], f, in2) => Standing([stack EXCEPT ![Len(stack)] = f], in2, o)
        /\ Filled_Up(o[d]) => Standing(Popped(stack), TRUE, o)
  BY <1>7, <1>8 DEF rest
<1>10. d \in 1..Len(open)
  BY <1>3
<1>. HIDE DEF d
<1>. QED
  BY <1>4, <1>5, <1>9, <1>10


\* One more entry that is filled up.
LEMMA StandingPad ==
  ASSUME NEW stack, Len(stack) \in Nat, NEW inner, NEW open \in Seq(Entries),
         Standing(stack, inner, open), NEW e \in Entries, Filled_Up(e)
  PROVE  Standing(stack, inner, Append(open, e))
<1>. DEFINE n == Len(stack)
            m == Len(open)
            o == Append(open, e)
<1>1. m \in Nat /\ Len(o) = m + 1 /\ o[m + 1] = e /\ \A j \in 1..m : o[j] = open[j]
  BY AppendProperties, LenProperties
<1>2. PICK pos \in [1..n -> 1..m] :
        /\ \A i, j \in 1..n : i < j => pos[i] < pos[j]
        /\ \A i \in 1..n : Mirrors(open[pos[i]], stack[i], inner \/ i < n)
        /\ \A j \in 1..m : (\A i \in 1..n : pos[i] # j) => Filled_Up(open[j])
  BY DEF Standing
<1>. HIDE DEF o
<1>3. \A i \in 1..n : pos[i] \in 1..m /\ pos[i] \in 1..Len(o)
  BY <1>1, <1>2
<1>4. pos \in [1..n -> 1..Len(o)]
  BY <1>2, <1>3
<1>5. \A i \in 1..n : Mirrors(o[pos[i]], stack[i], inner \/ i < n)
  BY <1>1, <1>2, <1>3
<1>6. ASSUME NEW j \in 1..Len(o), \A i \in 1..n : pos[i] # j
      PROVE  Filled_Up(o[j])
  <2>1. j = m + 1 \/ j \in 1..m
    BY <1>1
  <2>. QED
    BY <1>1, <1>2, <1>6, <2>1
<1>. HIDE DEF m
<1>7. Standing(stack, inner, o)
  BY <1>2, <1>4, <1>5, <1>6 DEF Standing
<1>. QED
  BY <1>7 DEF o

\* A frame pushed, and the entry of its head.
LEMMA StandingPush ==
  ASSUME NEW stack \in Seq(Frames), NEW open \in Seq(Entries), Standing(stack, TRUE, open),
         NEW f \in Frames, NEW e \in Entries, NEW inner \in BOOLEAN, Mirrors(e, f, inner)
  PROVE  Standing(Append(stack, f), inner, Append(open, e))
<1>. DEFINE n == Len(stack)
            m == Len(open)
            o == Append(open, e)
            new == Append(stack, f)
            k == Len(new)
<1>1. m \in Nat /\ Len(o) = m + 1 /\ o[m + 1] = e /\ \A j \in 1..m : o[j] = open[j]
  BY AppendProperties, LenProperties
<1>2. n \in Nat /\ k = n + 1 /\ new[n + 1] = f /\ \A i \in 1..n : new[i] = stack[i]
  BY AppendProperties, LenProperties
<1>3. PICK pos \in [1..n -> 1..m] :
        /\ \A i, j \in 1..n : i < j => pos[i] < pos[j]
        /\ \A i \in 1..n : Mirrors(open[pos[i]], stack[i], TRUE \/ i < n)
        /\ \A j \in 1..m : (\A i \in 1..n : pos[i] # j) => Filled_Up(open[j])
  BY DEF Standing
<1>. DEFINE p == [i \in 1..k |-> IF i = k THEN m + 1 ELSE pos[i]]
<1>4. k \in 1..k /\ \A i \in 1..k : i = k \/ (i \in 1..n /\ i # k)
  BY <1>2
<1>5. \A i \in 1..n : pos[i] \in 1..m /\ i \in 1..k /\ i < k /\ i # k
  BY <1>2, <1>3
<1>. HIDE DEF o, new, k
<1>6. p[k] = m + 1 /\ \A i \in 1..n : p[i] = pos[i]
  BY <1>4, <1>5
<1>7. p \in [1..k -> 1..Len(o)]
  <2>1. \A i \in 1..k : (IF i = k THEN m + 1 ELSE pos[i]) \in 1..Len(o)
    BY <1>1, <1>4, <1>5
  <2>. QED
    BY <2>1
<1>. HIDE DEF p
<1>8. \A i, j \in 1..k : i < j => p[i] < p[j]
  <2>1. ASSUME NEW i \in 1..k, NEW j \in 1..k, i < j
        PROVE  p[i] < p[j]
    <3>1. i \in 1..n
      BY <1>2, <1>4, <2>1
    <3>2. CASE j = k
      BY <1>1, <1>5, <1>6, <3>1, <3>2
    <3>3. CASE j # k
      <4>1. j \in 1..n
        BY <1>4, <3>3
      <4>. QED
        BY <1>3, <1>6, <2>1, <3>1, <4>1
    <3>. QED
      BY <3>2, <3>3
  <2>. QED
    BY <2>1
<1>9. ASSUME NEW i \in 1..k
      PROVE  Mirrors(o[p[i]], new[i], inner \/ i < k)
  <2>1. CASE i = k
    <3>1. (inner \/ i < k) = inner /\ new[i] = f /\ o[p[i]] = e
      BY <1>1, <1>2, <1>6, <2>1
    <3>. QED
      BY <3>1
  <2>2. CASE i # k
    <3>1. i \in 1..n
      BY <1>4, <2>2
    <3>2. /\ (inner \/ i < k) = TRUE /\ (TRUE \/ i < n) = TRUE
          /\ new[i] = stack[i] /\ o[p[i]] = open[pos[i]]
      BY <1>1, <1>2, <1>5, <1>6, <3>1
    <3>3. Mirrors(open[pos[i]], stack[i], TRUE \/ i < n)
      BY <1>3, <3>1
    <3>. QED
      BY <3>2, <3>3
  <2>. QED
    BY <2>1, <2>2
<1>10. ASSUME NEW j \in 1..Len(o), \A i \in 1..k : p[i] # j
       PROVE  Filled_Up(o[j])
  <2>1. j \in 1..m
    <3>1. j # m + 1
      BY <1>4, <1>6, <1>10
    <3>. QED
      BY <1>1, <3>1
  <2>2. \A i \in 1..n : pos[i] # j
    BY <1>5, <1>6, <1>10
  <2>. QED
    BY <1>1, <1>3, <2>1, <2>2
<1>11. Standing(new, inner, o)
  BY <1>7, <1>8, <1>9, <1>10 DEF Standing, k
<1>. QED
  BY <1>11 DEF new, o

\* Entering a frame changes none of its places.
LEMMA TakingEntered ==
  ASSUME NEW s, s.stack \in Seq(Frames), s.stack # <<>>, ~Misplaced(s)
  PROVE  Taking(EnteredFrame(LastOf(s.stack)))
<1>. DEFINE f == LastOf(s.stack)
            g == EnteredFrame(f)
<1>1. f \in Frames
  BY TopIsFrame
<1>2. /\ f.kind \in {"optional", "sequence"} => ~Full(f)
      /\ f.kind = "map" /\ ~f.waiting => ~Full(f)
      /\ f.kind \in {"record", "variant"} => f.waiting
  BY DEF Misplaced
<1>. HIDE DEF f
<1>3. /\ g.kind = f.kind /\ g.waiting = f.waiting /\ g.known = f.known
      /\ g.expected = f.expected /\ g.observed = f.observed
      /\ f.kind = "map" => g.child_is_value = f.waiting
  BY <1>1 DEF EnteredFrame, Frames
<1>. HIDE DEF g
<1>4. Taking(g)
  BY <1>2, <1>3 DEF Taking
<1>. QED
  BY <1>4 DEF f, g

-----------------------------------------------------------------------------
(* What the reader of the CBOR writer's output has read, event after event. *)

CborSpelled(t) ==
  \E open \in Seq(Entries) :
    Standing(t.stack, FALSE, open) /\ Reads(t.text, open, t.root_written, 0)

CborResult(t) == Latched(t) \/ CborSpelled(t)

\* A helper has latched an error, or left these entries and `body` pieces of a string.
CborAt(t, stack, open, body) ==
  Latched(t) \/ (Leads(t, stack) /\ Reads(t.text, open, TRUE, body))

\* ... or the next item leaves these entries.
CborTakes(t, stack, open) ==
  Latched(t) \/ (Leads(t, stack) /\ Reads(Cbor!Grammar!ReadItem(t.text), open, TRUE, 0))

\* What a successful Emit appends.
LEMMA CborEmitted ==
  ASSUME NEW s, IsOpen(s), s.root_written, NEW token, Cbor!Emit(s, token).error = NoError
  PROVE  /\ Leads(Cbor!Emit(s, token), s.stack)
         /\ Cbor!Emit(s, token).text = Cbor!Grammar!ReadToken(s.text, token)
<1>1. Leads(Cbor!Emit(s, token), s.stack)
  BY CborEmit DEF Lost
<1>2. ~Latched(s) /\ ~s.failed /\ s = [i \in Components |-> s[i]]
  BY DEF IsOpen, IsWriter
<1>3. CASE s.length < s.room
  BY <1>1, <1>2, <1>3 DEF Cbor!Emit, Components
<1>4. CASE ~(s.length < s.room)
  <2>1. Cbor!Emit(s, token).failed = TRUE
    BY <1>2, <1>4 DEF Cbor!Emit, Cbor!EmitBounded, Cbor!EmitAllocating, Cbor!Fail, Components
  <2>. QED
    BY <1>1, <2>1 DEF Leads, IsOpen
<1>. QED
  BY <1>3, <1>4

\* A frame replaced by itself.
LEMMA SameTop ==
  ASSUME NEW stack \in Seq(Frames), stack # <<>>
  PROVE  [stack EXCEPT ![Len(stack)] = LastOf(stack)] = stack
<1>. DEFINE f == LastOf(stack)
            n == Len(stack)
            set == [stack EXCEPT ![n] = f]
<1>1. f \in Frames /\ f = stack[n]
  BY TopIsFrame DEF LastOf
<1>2. /\ set \in Seq(Frames) /\ Len(set) = n /\ LastOf(set) = f
      /\ \A i \in 1..n : i # n => set[i] = stack[i]
  BY <1>1, TopSet
<1>. HIDE DEF set, f
<1>3. \A i \in 1..n : set[i] = stack[i]
  BY <1>1, <1>2 DEF LastOf
<1>4. set = stack
  BY <1>2, <1>3, SeqEqual
<1>. QED
  BY <1>4 DEF set, f

\* Before_Value emits nothing, and what it lets begin has a place to take.
LEMMA CborBeginsText ==
  ASSUME NEW s, IsOpen(s), CborSpelled(s), Cbor!Before_Value(s).error = NoError
  PROVE  \E open \in Seq(Entries) :
           /\ Standing(Entered(s.stack), TRUE, open)
           /\ CborTakes(Cbor!Before_Value(s), Entered(s.stack), open)
<1>. DEFINE t == Cbor!Before_Value(s)
            f == LastOf(s.stack)
            g == EnteredFrame(f)
<1>1. Leads(t, Entered(s.stack)) /\ ~Misplaced(s)
  BY CborBefore DEF Lost, Began, Held
<1>2. PICK open \in Seq(Entries) :
        Standing(s.stack, FALSE, open) /\ Reads(s.text, open, s.root_written, 0)
  BY DEF CborSpelled
<1>3. s.error = NoError /\ ~s.failed /\ ~s.finalized /\ s.stack \in Seq(Frames)
      /\ s = [i \in Components |-> s[i]]
  BY DEF IsOpen, IsWriter
<1>. HIDE DEF t
<1>4. CASE s.stack = <<>>
  <2>1. ~s.root_written /\ t = [s EXCEPT !.root_written = TRUE]
    BY <1>1, <1>3, <1>4 DEF Misplaced, Cbor!Before_Value, t
  <2>2. t.text = s.text
    BY <1>3, <2>1 DEF Components
  <2>3. s.root_written = FALSE
    BY <2>1 DEF IsOpen, IsWriter
  <2>4. \A j \in 1..Len(open) : Filled_Up(open[j])
    BY <1>2, <1>4, StandingEmpty
  <2>5. Reads(Cbor!Grammar!ReadItem(t.text), open, TRUE, 0)
    BY <1>2, <2>2, <2>3, <2>4, RootItem
  <2>6. Entered(s.stack) = <<>> /\ Standing(<<>>, TRUE, open)
    BY <1>4, <2>4, StandingEmpty DEF Entered
  <2>. QED
    BY <1>1, <2>5, <2>6 DEF CborTakes, t
<1>5. CASE s.stack # <<>>
  <2>1. s.root_written = TRUE
    BY <1>5 DEF IsOpen, IsWriter
  <2>2. f \in Frames /\ g \in Frames /\ f.kind \in Kinds
    BY <1>3, <1>5, TopIsFrame, FrameFacts, FrameFields
  <2>3. t.text = s.text
    <3>1. CASE f.kind = "map"
      <4>1. t = SetTop(s, [f EXCEPT !.child_is_value = f.waiting])
        BY <1>1, <1>3, <1>5, <3>1 DEF Misplaced, Cbor!Before_Value, Cbor!BeginsKey, t, LastOf
      <4>. QED
        BY <1>3, <4>1 DEF Components
    <3>2. CASE f.kind # "map"
      <4>1. t = s
        BY <1>1, <1>3, <1>5, <2>2, <3>2 DEF Misplaced, Cbor!Before_Value, Cbor!BeginsKey, t, LastOf, Kinds
      <4>. QED
        BY <4>1
    <3>. QED
      BY <3>1, <3>2
  <2>4. PICK d \in 1..Len(open) :
          /\ Mirrors(open[d], f, FALSE)
          /\ Onward(open, open, d)
          /\ \A o : Onward(o, open, d) =>
               /\ \A h \in Frames, in2 \in BOOLEAN :
                    Mirrors(o[d], h, in2) =>
                      Standing([s.stack EXCEPT ![Len(s.stack)] = h], in2, o)
               /\ Filled_Up(o[d]) => Standing(Popped(s.stack), TRUE, o)
    BY <1>2, <1>3, <1>5, StandingTop
  <2>. DEFINE x == Cbor!Grammar!Filled(open[d])
              o == Cut(open, d, x)
  <2>5. open[d] \in Entries
    BY ElementOfSeq
  <2>6. Mirrors(open[d], g, FALSE) /\ Taking(g)
    BY <1>1, <1>3, <1>5, <2>2, <2>4, <2>5, EntryEntered, TakingEntered
  <2>7. ~Filled_Up(open[d]) /\ Mirrors(x, g, TRUE)
    BY <2>2, <2>5, <2>6, EntryTakes
  <2>8. x \in Entries
    BY <2>5, <2>7, FilledIsEntry
  <2>9. Reads(Cbor!Grammar!ReadItem(t.text), o, TRUE, 0)
    <3>1. \A j \in 1..Len(open) : j > d => Filled_Up(open[j])
      BY <2>4, LenProperties DEF Onward
    <3>2. Reads(t.text, open, TRUE, 0)
      BY <1>2, <2>1, <2>3
    <3>. QED
      BY <2>7, <3>1, <3>2, ItemFills
  <2>. HIDE DEF x
  <2>10. Onward(o, open, d) /\ o[d] = x /\ o \in Seq(Entries)
    BY <2>8, CutGoesOn
  <2>. HIDE DEF o, g
  <2>11. Standing([s.stack EXCEPT ![Len(s.stack)] = g], TRUE, o)
    BY <2>2, <2>4, <2>7, <2>10
  <2>12. Entered(s.stack) = [s.stack EXCEPT ![Len(s.stack)] = g]
    <3>1. CASE f.kind = "map"
      BY <1>5, <3>1 DEF Entered, EnteredFrame, g
    <3>2. CASE f.kind # "map"
      <4>1. g = f /\ Entered(s.stack) = s.stack
        BY <3>2 DEF Entered, EnteredFrame, g
      <4>. QED
        BY <1>3, <1>5, <4>1, SameTop
    <3>. QED
      BY <3>1, <3>2
  <2>. QED
    BY <1>1, <2>9, <2>10, <2>11, <2>12 DEF CborTakes, t
<1>. QED
  BY <1>4, <1>5

\* After_Value emits nothing either.
LEMMA CborEndsText ==
  ASSUME NEW s, IsOpen(s), s.root_written, NEW open \in Seq(Entries),
         Standing(s.stack, TRUE, open), Reads(s.text, open, TRUE, 0),
         Cbor!After_Value(s).error = NoError
  PROVE  CborSpelled(Cbor!After_Value(s))
<1>. DEFINE t == Cbor!After_Value(s)
            f == LastOf(s.stack)
            g == CompletedFrame(f)
<1>1. Leads(t, Completed(s.stack)) /\ ~Overflows(s.stack)
  BY CborAfter
<1>2. /\ s.error = NoError /\ ~s.failed /\ s.stack \in Seq(Frames)
      /\ s = [i \in Components |-> s[i]]
  BY DEF IsOpen, IsWriter
<1>3. t.root_written = TRUE /\ t.stack = Completed(s.stack)
  BY <1>1 DEF Leads, IsOpen, IsWriter
<1>. HIDE DEF t
<1>4. CASE s.stack = <<>>
  <2>1. t = s /\ Completed(s.stack) = <<>>
    BY <1>4 DEF Cbor!After_Value, Completed, t
  <2>2. Standing(<<>>, FALSE, open)
    BY <1>4, StandingEmpty
  <2>. QED
    BY <1>3, <2>1, <2>2 DEF CborSpelled, t
<1>5. CASE s.stack # <<>>
  <2>1. f \in Frames /\ g \in Frames
    BY <1>2, <1>5, TopIsFrame, FrameFacts
  <2>2. t.text = s.text
    <3>1. CASE CompletesKey(f)
      <4>1. t = SetTop(s, [f EXCEPT !.waiting = TRUE])
        BY <1>2, <1>5, <3>1 DEF Cbor!After_Value, CompletesKey, t, LastOf
      <4>. QED
        BY <1>2, <4>1 DEF Components
    <3>2. CASE ~CompletesKey(f)
      <4>1. t = Cbor!Counted(s)
        BY <1>2, <1>5, <3>2 DEF Cbor!After_Value, CompletesKey, t, LastOf
      <4>2. t = IF f.observed = NaturalLast
                THEN Cbor!Fail(SetTop(s, [f EXCEPT !.waiting = FALSE]), "Capacity_Exceeded")
                ELSE SetTop(s, [f EXCEPT !.waiting = FALSE, !.observed = @ + 1])
        <5>1. /\ [f EXCEPT !.waiting = FALSE].observed = f.observed
              /\ [[f EXCEPT !.waiting = FALSE] EXCEPT !.observed = @ + 1] =
                   [f EXCEPT !.waiting = FALSE, !.observed = @ + 1]
          BY <2>1 DEF Frames
        <5>. QED
          BY <4>1, <5>1 DEF Cbor!Counted, LastOf
      <4>3. f.observed # NaturalLast
        BY <1>1, <1>5, <3>2 DEF Overflows
      <4>. HIDE DEF f
      <4>. QED
        BY <1>2, <4>2, <4>3 DEF Components
    <3>. QED
      BY <3>1, <3>2
  <2>3. PICK d \in 1..Len(open) :
          /\ Mirrors(open[d], f, TRUE)
          /\ Onward(open, open, d)
          /\ \A o : Onward(o, open, d) =>
               /\ \A h \in Frames, in2 \in BOOLEAN :
                    Mirrors(o[d], h, in2) =>
                      Standing([s.stack EXCEPT ![Len(s.stack)] = h], in2, o)
               /\ Filled_Up(o[d]) => Standing(Popped(s.stack), TRUE, o)
    BY <1>2, <1>5, StandingTop
  <2>4. open[d] \in Entries
    BY ElementOfSeq
  <2>5. Mirrors(open[d], g, FALSE)
    BY <2>1, <2>3, <2>4, EntryCompleted
  <2>6. Completed(s.stack) = [s.stack EXCEPT ![Len(s.stack)] = g]
    BY <1>5 DEF Completed, CompletedFrame
  <2>. HIDE DEF g
  <2>7. Standing(Completed(s.stack), FALSE, open)
    BY <2>1, <2>3, <2>5, <2>6
  <2>. QED
    BY <1>3, <2>2, <2>7 DEF CborSpelled, t
<1>. QED
  BY <1>4, <1>5 DEF t

\* Push frames the head that stands last.
LEMMA CborOpensText ==
  ASSUME NEW s, IsOpen(s), s.root_written, NEW kind \in Kinds, NEW length \in Lengths,
         NEW open \in Seq(Entries), Standing(s.stack, TRUE, open), NEW e \in Entries,
         Mirrors(e, Frame(kind, length), FALSE), Reads(s.text, Append(open, e), TRUE, 0),
         Cbor!Push(s, kind, length).error = NoError
  PROVE  CborSpelled(Cbor!Push(s, kind, length))
<1>. DEFINE t == Cbor!Push(s, kind, length)
            f == Frame(kind, length)
            stack == Append(s.stack, f)
<1>1. Leads(t, stack)
  <2>1. t = Json!Push(s, kind, length)
    BY DEF Cbor!Push, Json!Push, Cbor!Fail, Json!Fail, Cbor!Frame, Json!Frame
  <2>. QED
    BY <2>1, JsonPush
<1>2. t.text = s.text
  <2>1. t = [s EXCEPT !.stack = stack]
    BY <1>1 DEF Cbor!Push, Cbor!Frame, Frame, Leads, IsOpen, Cbor!Fail, IsWriter, Components
  <2>. QED
    BY <2>1 DEF IsOpen, IsWriter, Components
<1>3. f \in Frames /\ s.stack \in Seq(Frames)
  BY FrameIsFrame DEF IsOpen, IsWriter
<1>4. Mirrors(e, f, FALSE)
  OBVIOUS
<1>. HIDE DEF f, t
<1>5. Standing(stack, FALSE, Append(open, e)) /\ Append(open, e) \in Seq(Entries)
  BY <1>3, <1>4, StandingPush, AppendProperties
<1>6. t.root_written = TRUE /\ t.stack = stack
  BY <1>1 DEF Leads, IsOpen, IsWriter
<1>. QED
  BY <1>2, <1>5, <1>6 DEF CborSpelled, t

\* Pop ends an item that has all of its own, with a break if its length was not known.
LEMMA CborClosesText ==
  ASSUME NEW s, IsOpen(s), CborSpelled(s), NEW kind, Cbor!Pop(s, kind).error = NoError
  PROVE  CborSpelled(Cbor!Pop(s, kind))
<1>. DEFINE t == Cbor!Pop(s, kind)
            f == LastOf(s.stack)
            u == IF f.known THEN s ELSE Cbor!Emit_Head(s, "break", 0)
            v == [u EXCEPT !.stack = Popped(s.stack)]
<1>1. s.stack # <<>> /\ ~Unclosable(f, kind)
  BY CborPop DEF CloseOutcome
<1>2. /\ s.error = NoError /\ ~s.failed /\ ~s.finalized /\ s.stack \in Seq(Frames)
      /\ s.root_written = TRUE
  BY <1>1 DEF IsOpen, IsWriter
<1>3. t = IF Latched(u) THEN u
          ELSE Cbor!After_Value([u EXCEPT !.stack = SubSeq(@, 1, Len(@) - 1)])
  BY <1>1, <1>2 DEF Cbor!Pop, Cbor!Unclosable, Unclosable, LastOf
<1>4. u.error = NoError
  BY <1>3
<1>5. /\ Leads(u, s.stack)
      /\ ~f.known => u.text = Cbor!Grammar!ReadBreak(s.text)
  <2>1. CASE f.known
    BY <1>2, <2>1 DEF Leads
  <2>2. CASE ~f.known
    <3>1. u = Cbor!Emit(s, [head |-> "break", count |-> 0])
      BY <2>2 DEF Cbor!Emit_Head
    <3>. HIDE DEF u
    <3>. QED
      BY <1>2, <1>4, <3>1, CborEmitted, BreakRead
  <2>. QED
    BY <2>1, <2>2
<1>6. f.known => u = s
  OBVIOUS
<1>. HIDE DEF t, u
<1>7. t = Cbor!After_Value(v)
  BY <1>3, <1>4, <1>5 DEF Leads, Popped
<1>8. Leads(v, Popped(s.stack))
  BY <1>1, <1>2, <1>5, PoppedIsStack, Restacked DEF Leads
<1>9. v.text = u.text
  BY <1>5 DEF Leads, IsOpen, IsWriter, Components
<1>10. PICK open \in Seq(Entries) : Standing(s.stack, FALSE, open) /\ Reads(s.text, open, TRUE, 0)
  BY <1>2 DEF CborSpelled
<1>11. PICK d \in 1..Len(open) :
         /\ Mirrors(open[d], f, FALSE)
         /\ Onward(open, open, d)
         /\ \A o : Onward(o, open, d) =>
              /\ \A h \in Frames, in2 \in BOOLEAN :
                   Mirrors(o[d], h, in2) =>
                     Standing([s.stack EXCEPT ![Len(s.stack)] = h], in2, o)
              /\ Filled_Up(o[d]) => Standing(Popped(s.stack), TRUE, o)
  BY <1>1, <1>2, <1>10, StandingTop
<1>12. \E o \in Seq(Entries) : Standing(Popped(s.stack), TRUE, o) /\ Reads(u.text, o, TRUE, 0)
  <2>1. f \in Frames /\ ~f.waiting /\ (f.known => f.observed = f.expected)
    BY <1>1, <1>2, TopIsFrame DEF Unclosable
  <2>2. f.kind \in {"optional", "sequence", "map", "record", "variant"} /\ f.observed \in Nat
        /\ f.expected \in Nat
    BY <2>1, FrameFields DEF Kinds
  <2>3. open[d] \in Entries
    BY ElementOfSeq
  <2>. HIDE DEF f
  <2>4. CASE f.known
    <3>1. Slots(f, FALSE) = 0
      BY <2>1, <2>2, <2>4 DEF Slots
    <3>2. Filled_Up(open[d])
      BY <1>11, <2>4, <3>1 DEF Mirrors, Filled_Up
    <3>. QED
      BY <1>6, <1>10, <1>11, <2>4, <3>2
  <2>5. CASE ~f.known
    <3>. DEFINE x == Cbor!Grammar!Definite(0)
                o == Cut(open, d, x)
    <3>1. open[d].indefinite /\ ~open[d].odd /\ ~Filled_Up(open[d])
      BY <1>11, <2>1, <2>5 DEF Mirrors, Filled_Up
    <3>2. x \in Entries /\ Filled_Up(x)
      BY DEF Cbor!Grammar!Definite, Entries, Filled_Up
    <3>3. Reads(Cbor!Grammar!ReadBreak(s.text), o, TRUE, 0)
      <4>1. \A j \in 1..Len(open) : j > d => Filled_Up(open[j])
        BY <1>11, LenProperties DEF Onward
      <4>. QED
        BY <1>10, <3>1, <4>1, ItemFills
    <3>. HIDE DEF x
    <3>4. Onward(o, open, d) /\ o[d] = x /\ o \in Seq(Entries)
      BY <3>2, CutGoesOn
    <3>. HIDE DEF o
    <3>. QED
      BY <1>5, <1>11, <2>5, <3>2, <3>3, <3>4
  <2>. QED
    BY <2>4, <2>5
<1>. HIDE DEF v
<1>13. IsOpen(v) /\ v.root_written /\ v.stack = Popped(s.stack)
  BY <1>8 DEF Leads
<1>. QED
  BY <1>7, <1>9, <1>12, <1>13, CborEndsText DEF t

\* The helpers that emit, one after the other.
LEMMA CborEmissions ==
  ASSUME NEW u, NEW stack, NEW open
  PROVE  /\ CborTakes(u, stack, open) =>
              \A n :
                /\ CborAt(Cbor!Emit_Head(u, "scalar", n), stack, open, 0)
                /\ CborAt(Cbor!Emit_Head(u, "string", n), stack, open, n)
                /\ CborAt(Cbor!Emit_Head(u, "array", n), stack,
                          Append(open, Cbor!Grammar!Definite(n)), 0)
                /\ CborAt(Cbor!Emit_Head(u, "map", n), stack,
                          Append(open, Cbor!Grammar!Definite(2 * n)), 0)
                /\ CborAt(Cbor!Emit_Head(u, "array_start", n), stack,
                          Append(open, Cbor!Grammar!Indefinite(FALSE)), 0)
                /\ CborAt(Cbor!Emit_Head(u, "map_start", n), stack,
                          Append(open, Cbor!Grammar!Indefinite(TRUE)), 0)
         /\ \A n \in Nat \ {0} :
              CborAt(u, stack, open, n) =>
                CborAt(Cbor!Emit_Head(u, "content", 0), stack, open, n - 1)
<1>1. CASE Latched(u)
  <2>1. \A head, n : Cbor!Emit_Head(u, head, n) = u
    BY <1>1, CborIdle DEF Cbor!Emit_Head
  <2>. QED
    BY <1>1, <2>1 DEF CborAt
<1>2. CASE ~Latched(u)
  <2>1. ASSUME Leads(u, stack), NEW head, NEW n, NEW o, NEW body,
               Reads(Cbor!Grammar!ReadToken(u.text, [head |-> head, count |-> n]), o, TRUE, body)
        PROVE  CborAt(Cbor!Emit_Head(u, head, n), stack, o, body)
    <3>1. IsOpen(u) /\ u.root_written /\ u.stack = stack
      BY <2>1 DEF Leads
    <3>2. Cbor!Emit_Head(u, head, n) = Cbor!Emit(u, [head |-> head, count |-> n])
      BY DEF Cbor!Emit_Head
    <3>. QED
      BY <2>1, <3>1, <3>2, CborEmitted DEF CborAt
  <2>2. ASSUME CborTakes(u, stack, open)
        PROVE  Leads(u, stack) /\ Reads(Cbor!Grammar!ReadItem(u.text), open, TRUE, 0)
    BY <1>2, <2>2 DEF CborTakes
  <2>3. ASSUME CborTakes(u, stack, open), NEW n
        PROVE  /\ CborAt(Cbor!Emit_Head(u, "scalar", n), stack, open, 0)
               /\ CborAt(Cbor!Emit_Head(u, "string", n), stack, open, n)
               /\ CborAt(Cbor!Emit_Head(u, "array", n), stack,
                         Append(open, Cbor!Grammar!Definite(n)), 0)
               /\ CborAt(Cbor!Emit_Head(u, "map", n), stack,
                         Append(open, Cbor!Grammar!Definite(2 * n)), 0)
               /\ CborAt(Cbor!Emit_Head(u, "array_start", n), stack,
                         Append(open, Cbor!Grammar!Indefinite(FALSE)), 0)
               /\ CborAt(Cbor!Emit_Head(u, "map_start", n), stack,
                         Append(open, Cbor!Grammar!Indefinite(TRUE)), 0)
    <3>. DEFINE R(head) == Cbor!Grammar!ReadToken(u.text, [head |-> head, count |-> n])
    <3>1. /\ Reads(R("scalar"), open, TRUE, 0) /\ Reads(R("string"), open, TRUE, n)
          /\ Reads(R("array"), Append(open, Cbor!Grammar!Definite(n)), TRUE, 0)
          /\ Reads(R("map"), Append(open, Cbor!Grammar!Definite(2 * n)), TRUE, 0)
          /\ Reads(R("array_start"), Append(open, Cbor!Grammar!Indefinite(FALSE)), TRUE, 0)
          /\ Reads(R("map_start"), Append(open, Cbor!Grammar!Indefinite(TRUE)), TRUE, 0)
      BY <2>2, <2>3, HeadsRead
    <3>. QED
      BY <2>1, <2>2, <2>3, <3>1
  <2>4. ASSUME NEW n \in Nat \ {0}, CborAt(u, stack, open, n)
        PROVE  CborAt(Cbor!Emit_Head(u, "content", 0), stack, open, n - 1)
    <3>1. Leads(u, stack) /\ Reads(u.text, open, TRUE, n)
      BY <1>2, <2>4 DEF CborAt
    <3>2. Reads(Cbor!Grammar!ReadToken(u.text, [head |-> "content", count |-> 0]), open, TRUE, n - 1)
      BY <3>1, ContentRead
    <3>. QED
      BY <2>1, <3>1, <3>2
  <2>. QED
    BY <2>3, <2>4
<1>. QED
  BY <1>1, <1>2

\* ... a text, head and pieces, ...
LEMMA CborTexts ==
  ASSUME NEW u, NEW stack, NEW open, CborTakes(u, stack, open)
  PROVE  /\ \A text : Cbor!ValidText(text) => CborAt(Cbor!Emit_Text(u, text), stack, open, 0)
         /\ CborAt(Cbor!Content(Cbor!Emit_Head(u, "string", 1), 1), stack, open, 0)
<1>. DEFINE v(n) == Cbor!Emit_Head(u, "string", n)
            w(n) == Cbor!Emit_Head(v(n), "content", 0)
<1>1. CborAt(v(1), stack, open, 1) /\ CborAt(v(2), stack, open, 2)
  BY CborEmissions
<1>. HIDE DEF v
<1>2. CborAt(w(1), stack, open, 1 - 1) /\ CborAt(w(2), stack, open, 2 - 1)
  <2>1. 1 \in Nat \ {0} /\ 2 \in Nat \ {0}
    OBVIOUS
  <2>. QED
    BY <1>1, <2>1, CborEmissions
<1>3. 1 - 1 = 0 /\ 2 - 1 = 1
  OBVIOUS
<1>. HIDE DEF w
<1>4. CborAt(w(1), stack, open, 0) /\ CborAt(Cbor!Emit_Head(w(2), "content", 0), stack, open, 0)
  <2>1. 1 \in Nat \ {0}
    OBVIOUS
  <2>2. CborAt(Cbor!Emit_Head(w(2), "content", 0), stack, open, 1 - 1)
    BY <1>2, <1>3, <2>1, CborEmissions
  <2>. QED
    BY <1>2, <1>3, <2>2
<1>5. /\ Cbor!Content(v(1), 1) = w(1)
      /\ Cbor!Content(v(2), 2) = Cbor!Emit_Head(w(2), "content", 0)
  BY DEF Cbor!Content, w
<1>6. ASSUME NEW text, Cbor!ValidText(text)
      PROVE  CborAt(Cbor!Emit_Text(u, text), stack, open, 0)
  <2>1. CASE text = "long"
    <3>1. Cbor!Emit_Text(u, text) = Cbor!Content(v(2), 2)
      BY <1>6, <2>1 DEF Cbor!Emit_Text, v
    <3>. QED
      BY <1>4, <1>5, <3>1
  <2>2. CASE text # "long"
    <3>1. Cbor!Emit_Text(u, text) = Cbor!Content(v(1), 1)
      BY <1>6, <2>2 DEF Cbor!Emit_Text, v
    <3>. QED
      BY <1>4, <1>5, <3>1
  <2>. QED
    BY <2>1, <2>2
<1>. QED
  BY <1>4, <1>5, <1>6 DEF v

\* ... and what ends an event.
LEMMA CborStages ==
  ASSUME NEW u, NEW stack \in Seq(Frames), NEW open \in Seq(Entries), Standing(stack, TRUE, open)
  PROVE  /\ CborAt(u, stack, open, 0) => CborResult(Cbor!After_Value(u))
         /\ \A e \in Entries, kind \in Kinds, length \in Lengths :
              CborAt(u, stack, Append(open, e), 0) /\ Mirrors(e, Frame(kind, length), FALSE) =>
                CborResult(Cbor!Push(u, kind, length))
         /\ \A e \in Entries :
              CborAt(u, stack, Append(open, e), 0) /\ ~Filled_Up(e) =>
                CborTakes(u, stack, Append(open, Cbor!Grammar!Filled(e)))
<1>1. CASE Latched(u)
  BY <1>1, CborIdle DEF CborResult, CborTakes
<1>2. CASE ~Latched(u)
  <2>1. Leads(u, stack) => IsOpen(u) /\ u.root_written /\ u.stack = stack
    BY DEF Leads
  <2>2. ASSUME CborAt(u, stack, open, 0)
        PROVE  CborResult(Cbor!After_Value(u))
    <3>1. Leads(u, stack) /\ Reads(u.text, open, TRUE, 0)
      BY <1>2, <2>2 DEF CborAt
    <3>. QED
      BY <2>1, <3>1, CborEndsText DEF CborResult
  <2>3. ASSUME NEW e \in Entries, NEW kind \in Kinds, NEW length \in Lengths,
               CborAt(u, stack, Append(open, e), 0), Mirrors(e, Frame(kind, length), FALSE)
        PROVE  CborResult(Cbor!Push(u, kind, length))
    <3>1. Leads(u, stack) /\ Reads(u.text, Append(open, e), TRUE, 0)
      BY <1>2, <2>3 DEF CborAt
    <3>. QED
      BY <2>1, <2>3, <3>1, CborOpensText DEF CborResult
  <2>4. ASSUME NEW e \in Entries, CborAt(u, stack, Append(open, e), 0), ~Filled_Up(e)
        PROVE  CborTakes(u, stack, Append(open, Cbor!Grammar!Filled(e)))
    <3>1. Leads(u, stack) /\ Reads(u.text, Append(open, e), TRUE, 0)
      BY <1>2, <2>4 DEF CborAt
    <3>. QED
      BY <2>4, <3>1, InnermostItem DEF CborTakes
  <2>. QED
    BY <2>2, <2>3, <2>4
<1>. QED
  BY <1>1, <1>2

\* Every event begins where an item may stand, or is refused.
LEMMA CborStarts ==
  ASSUME NEW s, IsOpen(s), CborSpelled(s)
  PROVE  \E open \in Seq(Entries), stack \in Seq(Frames) :
           Standing(stack, TRUE, open) /\ CborTakes(Cbor!Before_Value(s), stack, open)
<1>1. CASE Latched(Cbor!Before_Value(s))
  <2>1. <<>> \in Seq(Entries) /\ <<>> \in Seq(Frames)
    BY EmptySeq
  <2>2. Standing(<<>>, TRUE, <<>>)
    <3>1. ASSUME NEW o \in Seq(Entries), o = <<>>
          PROVE  Standing(<<>>, TRUE, o)
      <4>1. \A j \in 1..Len(o) : Filled_Up(o[j])
        BY <3>1
      <4>. QED
        BY <4>1, StandingEmpty
    <3>. QED
      BY <2>1, <3>1
  <2>3. CborTakes(Cbor!Before_Value(s), <<>>, <<>>)
    BY <1>1 DEF CborTakes
  <2>. QED
    BY <2>1, <2>2, <2>3
<1>2. CASE ~Latched(Cbor!Before_Value(s))
  <2>1. Entered(s.stack) \in Seq(Frames)
    BY EnteredIsStack DEF IsOpen, IsWriter
  <2>. QED
    BY <1>2, <2>1, CborBeginsText
<1>. QED
  BY <1>1, <1>2

\* A scalar, a text and a byte string are one item.
LEMMA CborValuesText ==
  ASSUME NEW s, IsOpen(s), CborSpelled(s)
  PROVE  /\ CborResult(Cbor!Put_Scalar(s))
         /\ CborResult(Cbor!Put_Bytes(s, 1)) /\ CborResult(Cbor!Put_Bytes(s, 0))
         /\ \A text : CborResult(Cbor!Put_Text(s, text))
<1>. DEFINE u == Cbor!Before_Value(s)
<1>1. PICK open \in Seq(Entries), stack \in Seq(Frames) :
        Standing(stack, TRUE, open) /\ CborTakes(u, stack, open)
  BY CborStarts
<1>2. ~Latched(s) /\ ~Closed(s)
  BY DEF IsOpen
<1>. HIDE DEF u
<1>3. CborResult(Cbor!Put_Scalar(s))
  <2>1. Cbor!Put_Scalar(s) = Cbor!After_Value(Cbor!Emit_Head(u, "scalar", 0))
    BY DEF Cbor!Put_Scalar, u
  <2>2. CborAt(Cbor!Emit_Head(u, "scalar", 0), stack, open, 0)
    BY <1>1, CborEmissions
  <2>. QED
    BY <1>1, <2>1, <2>2, CborStages
<1>4. CborResult(Cbor!Put_Bytes(s, 1))
  <2>1. Cbor!Put_Bytes(s, 1) = Cbor!After_Value(Cbor!Content(Cbor!Emit_Head(u, "string", 1), 1))
    BY DEF Cbor!Put_Bytes, u
  <2>2. CborAt(Cbor!Content(Cbor!Emit_Head(u, "string", 1), 1), stack, open, 0)
    BY <1>1, CborTexts
  <2>. QED
    BY <1>1, <2>1, <2>2, CborStages
<1>5. CborResult(Cbor!Put_Bytes(s, 0))
  <2>1. Cbor!Put_Bytes(s, 0) = Cbor!After_Value(Cbor!Emit_Head(u, "string", 0))
    BY DEF Cbor!Put_Bytes, Cbor!Content, u
  <2>2. CborAt(Cbor!Emit_Head(u, "string", 0), stack, open, 0)
    BY <1>1, CborEmissions
  <2>. QED
    BY <1>1, <2>1, <2>2, CborStages
<1>6. ASSUME NEW text
      PROVE  CborResult(Cbor!Put_Text(s, text))
  <2>1. CASE Cbor!ValidText(text)
    <3>1. Cbor!Put_Text(s, text) = Cbor!After_Value(Cbor!Emit_Text(u, text))
      BY <1>2, <2>1 DEF Cbor!Put_Text, u
    <3>2. CborAt(Cbor!Emit_Text(u, text), stack, open, 0)
      BY <1>1, <2>1, CborTexts
    <3>. QED
      BY <1>1, <3>1, <3>2, CborStages
  <2>2. CASE ~Cbor!ValidText(text)
    BY <1>2, <2>2 DEF Cbor!Put_Text, CborResult, Cbor!Fail, IsOpen, IsWriter, Components
  <2>. QED
    BY <2>1, <2>2
<1>. QED
  BY <1>3, <1>4, <1>5, <1>6

\* The entry of a head is that of the frame pushed with it.
LEMMA HeadsMirror ==
  ASSUME NEW n \in Nat
  PROVE  /\ Cbor!Grammar!Definite(n) \in Entries
         /\ Cbor!Grammar!Definite(2 * n) \in Entries
         /\ Filled_Up(Cbor!Grammar!Definite(0)) /\ ~Filled_Up(Cbor!Grammar!Definite(n + 1))
         /\ Cbor!Grammar!Filled(Cbor!Grammar!Definite(n + 1)) = Cbor!Grammar!Definite(n)
         /\ \A kind \in {"optional", "sequence"} :
              Mirrors(Cbor!Grammar!Definite(n), Frame(kind, Known_Length(n)), FALSE)
         /\ \A kind \in {"map", "record", "variant"} :
              Mirrors(Cbor!Grammar!Definite(2 * n), Frame(kind, Known_Length(n)), FALSE)
         /\ \A length \in Lengths : ~length.known =>
              /\ Mirrors(Cbor!Grammar!Indefinite(FALSE), Frame("sequence", length), FALSE)
              /\ Mirrors(Cbor!Grammar!Indefinite(TRUE), Frame("map", length), FALSE)
<1>1. \A m \in Nat : LET e == Cbor!Grammar!Definite(m) IN
        e \in Entries /\ e.left = m /\ e.indefinite = FALSE
  BY DEF Cbor!Grammar!Definite, Entries
<1>2. 2 * n \in Nat /\ n + 1 \in Nat /\ n + 1 # 0 /\ (n + 1) - 1 = n
  OBVIOUS
<1>3. ASSUME NEW kind, NEW length \in Lengths
      PROVE  LET f == Frame(kind, length) IN
             /\ f.kind = kind /\ f.known = length.known /\ f.expected = length.length
             /\ f.observed = 0 /\ f.waiting = FALSE /\ f.child_is_value = FALSE
  BY DEF Frame
<1>4. Known_Length(n) \in Lengths /\ Known_Length(n).known = TRUE /\ Known_Length(n).length = n
  BY DEF Known_Length, Lengths
<1>5. Cbor!Grammar!Filled(Cbor!Grammar!Definite(n + 1)) = Cbor!Grammar!Definite(n)
  BY <1>2 DEF Cbor!Grammar!Filled, Cbor!Grammar!Definite
<1>6. ASSUME NEW kind \in {"optional", "sequence"}
      PROVE  Mirrors(Cbor!Grammar!Definite(n), Frame(kind, Known_Length(n)), FALSE)
  <2>. DEFINE f == Frame(kind, Known_Length(n))
              e == Cbor!Grammar!Definite(n)
  <2>1. /\ f.kind = kind /\ f.known /\ f.expected = n /\ f.observed = 0
        /\ e.left = n /\ ~e.indefinite
    BY <1>1, <1>3, <1>4
  <2>. HIDE DEF f, e
  <2>2. Slots(f, FALSE) = n
    BY <2>1 DEF Slots
  <2>3. Mirrors(e, f, FALSE)
    BY <2>1, <2>2 DEF Mirrors
  <2>. QED
    BY <2>3 DEF e, f
<1>7. ASSUME NEW kind \in {"map", "record", "variant"}
      PROVE  Mirrors(Cbor!Grammar!Definite(2 * n), Frame(kind, Known_Length(n)), FALSE)
  <2>. DEFINE f == Frame(kind, Known_Length(n))
              e == Cbor!Grammar!Definite(2 * n)
  <2>1. /\ f.kind = kind /\ f.known /\ f.expected = n /\ f.observed = 0 /\ ~f.waiting
        /\ e.left = 2 * n /\ ~e.indefinite
    <3>1. f.kind = kind /\ f.known /\ f.expected = n /\ f.observed = 0 /\ ~f.waiting
      BY <1>3, <1>4
    <3>2. e.left = 2 * n /\ ~e.indefinite
      BY <1>1, <1>2
    <3>. QED
      BY <3>1, <3>2
  <2>. HIDE DEF f, e
  <2>2. Slots(f, FALSE) = 2 * n
    BY <2>1 DEF Slots
  <2>3. Mirrors(e, f, FALSE)
    BY <2>1, <2>2 DEF Mirrors
  <2>. QED
    BY <2>3 DEF e, f
<1>8. ASSUME NEW length \in Lengths, ~length.known
      PROVE  /\ Mirrors(Cbor!Grammar!Indefinite(FALSE), Frame("sequence", length), FALSE)
             /\ Mirrors(Cbor!Grammar!Indefinite(TRUE), Frame("map", length), FALSE)
  <2>. DEFINE a == Cbor!Grammar!Indefinite(FALSE)
              b == Cbor!Grammar!Indefinite(TRUE)
              f == Frame("sequence", length)
              g == Frame("map", length)
  <2>1. /\ a.indefinite = TRUE /\ a.pairs = FALSE /\ a.odd = FALSE
        /\ b.indefinite = TRUE /\ b.pairs = TRUE /\ b.odd = FALSE
    BY DEF Cbor!Grammar!Indefinite
  <2>2. /\ f.kind = "sequence" /\ ~f.known /\ f.waiting = FALSE
        /\ g.kind = "map" /\ ~g.known /\ g.waiting = FALSE
    BY <1>8 DEF Frame
  <2>. HIDE DEF a, b, f, g
  <2>3. Mirrors(a, f, FALSE) /\ Mirrors(b, g, FALSE)
    BY <2>1, <2>2 DEF Mirrors
  <2>. QED
    BY <2>3 DEF a, b, f, g
<1>. QED
  BY <1>1, <1>2, <1>5, <1>6, <1>7, <1>8 DEF Filled_Up

\* The heads of Begin_Optional, Begin_Sequence and the others.
LEMMA CborBeginsFrames ==
  ASSUME NEW s, IsOpen(s), CborSpelled(s)
  PROVE  /\ \A present \in BOOLEAN : CborResult(Cbor!Begin_Optional(s, present))
         /\ \A length \in Lengths : /\ CborResult(Cbor!Begin_Sequence(s, length))
                                    /\ CborResult(Cbor!Begin_Map(s, length))
         /\ \A count \in Nat : CborResult(Cbor!Begin_Record(s, count))
         /\ \A text : \A count \in Nat : CborResult(Cbor!Begin_Variant(s, text, count))
<1>. DEFINE u == Cbor!Before_Value(s)
            D(n) == Cbor!Grammar!Definite(n)
            K(n) == Known_Length(n)
<1>1. PICK open \in Seq(Entries), stack \in Seq(Frames) :
        Standing(stack, TRUE, open) /\ CborTakes(u, stack, open)
  BY CborStarts
<1>2. ~Latched(s) /\ ~Closed(s)
  BY DEF IsOpen
<1>. HIDE DEF u
<1>3. \A n \in Nat : K(n) \in Lengths /\ Cbor!Known_Length(n) = K(n)
  BY DEF Known_Length, Cbor!Known_Length, Lengths
<1>4. ASSUME NEW v, NEW o \in Seq(Entries), Standing(stack, TRUE, o), NEW e \in Entries,
             NEW kind \in Kinds, NEW length \in Lengths,
             CborAt(v, stack, Append(o, e), 0), Mirrors(e, Frame(kind, length), FALSE)
      PROVE  CborResult(Cbor!Push(v, kind, length))
  BY <1>4, CborStages
<1>5. ASSUME NEW present \in BOOLEAN
      PROVE  CborResult(Cbor!Begin_Optional(s, present))
  <2>. DEFINE p == IF present THEN 1 ELSE 0
              v == Cbor!Emit_Head(u, "array", 1 + p)
              w == Cbor!Emit_Head(v, "scalar", 0)
  <2>1. Cbor!Begin_Optional(s, present) = Cbor!Push(w, "optional", K(p))
    BY DEF Cbor!Begin_Optional, u, Cbor!Known_Length, Known_Length
  <2>2. p \in Nat /\ 1 + p = p + 1
    OBVIOUS
  <2>. HIDE DEF p
  <2>3. CborAt(v, stack, Append(open, D(p + 1)), 0)
    BY <1>1, <2>2, CborEmissions
  <2>. HIDE DEF v
  <2>4. D(p + 1) \in Entries /\ ~Filled_Up(D(p + 1)) /\ Cbor!Grammar!Filled(D(p + 1)) = D(p)
    <3>1. p + 1 \in Nat
      BY <2>2
    <3>2. D(p + 1) \in Entries
      BY <3>1, HeadsMirror
    <3>. QED
      BY <2>2, <3>2, HeadsMirror
  <2>5. CborTakes(v, stack, Append(open, D(p)))
    BY <1>1, <2>3, <2>4, CborStages
  <2>6. CborAt(w, stack, Append(open, D(p)), 0)
    BY <2>5, CborEmissions
  <2>. HIDE DEF w
  <2>7. D(p) \in Entries /\ Mirrors(D(p), Frame("optional", K(p)), FALSE)
    BY <2>2, HeadsMirror
  <2>. QED
    BY <1>1, <1>3, <1>4, <2>1, <2>2, <2>6, <2>7 DEF Kinds
<1>6. ASSUME NEW length \in Lengths
      PROVE  /\ CborResult(Cbor!Begin_Sequence(s, length))
             /\ CborResult(Cbor!Begin_Map(s, length))
  <2>1. CASE length.known
    <3>. DEFINE n == length.length
                v == Cbor!Emit_Head(u, "array", n)
                w == Cbor!Emit_Head(u, "map", n)
    <3>1. n \in Nat /\ length = K(n)
      BY <2>1 DEF Lengths, Known_Length
    <3>2. /\ Cbor!Begin_Sequence(s, length) = Cbor!Push(v, "sequence", length)
          /\ Cbor!Begin_Map(s, length) = Cbor!Push(w, "map", length)
      BY <2>1 DEF Cbor!Begin_Sequence, Cbor!Begin_Map, Cbor!Opened, u
    <3>. HIDE DEF n
    <3>3. CborAt(v, stack, Append(open, D(n)), 0) /\ CborAt(w, stack, Append(open, D(2 * n)), 0)
      BY <1>1, CborEmissions
    <3>. HIDE DEF v, w
    <3>4. /\ D(n) \in Entries /\ D(2 * n) \in Entries
          /\ Mirrors(D(n), Frame("sequence", length), FALSE)
          /\ Mirrors(D(2 * n), Frame("map", length), FALSE)
      BY <3>1, HeadsMirror
    <3>. QED
      BY <1>1, <1>4, <3>2, <3>3, <3>4 DEF Kinds
  <2>2. CASE ~length.known
    <3>. DEFINE v == Cbor!Emit_Head(u, "array_start", 0)
                w == Cbor!Emit_Head(u, "map_start", 0)
                a == Cbor!Grammar!Indefinite(FALSE)
                b == Cbor!Grammar!Indefinite(TRUE)
    <3>1. /\ Cbor!Begin_Sequence(s, length) = Cbor!Push(v, "sequence", length)
          /\ Cbor!Begin_Map(s, length) = Cbor!Push(w, "map", length)
      BY <2>2 DEF Cbor!Begin_Sequence, Cbor!Begin_Map, Cbor!Opened, u
    <3>2. CborAt(v, stack, Append(open, a), 0) /\ CborAt(w, stack, Append(open, b), 0)
      BY <1>1, CborEmissions
    <3>3. a \in Entries /\ b \in Entries
      BY DEF Cbor!Grammar!Indefinite, Entries
    <3>. HIDE DEF v, w
    <3>4. /\ Mirrors(a, Frame("sequence", length), FALSE)
          /\ Mirrors(b, Frame("map", length), FALSE)
      <4>1. 0 \in Nat
        OBVIOUS
      <4>. QED
        BY <2>2, <4>1, HeadsMirror
    <3>. HIDE DEF a, b
    <3>. QED
      BY <1>1, <1>4, <3>1, <3>2, <3>3, <3>4 DEF Kinds
  <2>. QED
    BY <2>1, <2>2
<1>7. ASSUME NEW count \in Nat
      PROVE  CborResult(Cbor!Begin_Record(s, count))
  <2>. DEFINE v == Cbor!Emit_Head(u, "map", count)
  <2>1. Cbor!Begin_Record(s, count) = Cbor!Push(v, "record", K(count))
    BY <1>3 DEF Cbor!Begin_Record, u
  <2>2. CborAt(v, stack, Append(open, D(2 * count)), 0)
    BY <1>1, CborEmissions
  <2>. HIDE DEF v
  <2>3. D(2 * count) \in Entries /\ Mirrors(D(2 * count), Frame("record", K(count)), FALSE)
    BY HeadsMirror
  <2>. QED
    BY <1>1, <1>3, <1>4, <2>1, <2>2, <2>3 DEF Kinds
<1>8. ASSUME NEW text, NEW count \in Nat
      PROVE  CborResult(Cbor!Begin_Variant(s, text, count))
  <2>1. CASE Cbor!ValidText(text)
    <3>. DEFINE v == Cbor!Emit_Head(u, "array", 2)
                w == Cbor!Emit_Text(v, text)
                y == Cbor!Emit_Head(w, "map", count)
                o == Append(open, D(0))
    <3>1. Cbor!Begin_Variant(s, text, count) = Cbor!Push(y, "variant", K(count))
      BY <1>2, <1>3, <2>1 DEF Cbor!Begin_Variant, u
    <3>2. CborAt(v, stack, Append(open, D(2)), 0)
      BY <1>1, CborEmissions
    <3>3. /\ D(2) \in Entries /\ ~Filled_Up(D(2)) /\ Cbor!Grammar!Filled(D(2)) = D(1)
          /\ D(1) \in Entries /\ ~Filled_Up(D(1)) /\ Cbor!Grammar!Filled(D(1)) = D(0)
          /\ D(0) \in Entries /\ Filled_Up(D(0))
      <4>1. 0 \in Nat /\ 1 \in Nat /\ 2 \in Nat /\ 1 + 1 = 2 /\ 0 + 1 = 1
        OBVIOUS
      <4>2. /\ ~Filled_Up(D(1 + 1)) /\ Cbor!Grammar!Filled(D(1 + 1)) = D(1)
            /\ ~Filled_Up(D(0 + 1)) /\ Cbor!Grammar!Filled(D(0 + 1)) = D(0)
        BY <4>1, HeadsMirror
      <4>. QED
        BY <4>1, <4>2, HeadsMirror
    <3>. HIDE DEF v
    <3>4. CborTakes(v, stack, Append(open, D(1)))
      BY <1>1, <3>2, <3>3, CborStages
    <3>5. CborAt(w, stack, Append(open, D(1)), 0)
      BY <2>1, <3>4, CborTexts
    <3>. HIDE DEF w
    <3>6. CborTakes(w, stack, o)
      BY <1>1, <3>3, <3>5, CborStages
    <3>7. o \in Seq(Entries) /\ Standing(stack, TRUE, o)
      BY <1>1, <3>3, StandingPad, AppendProperties, LenProperties
    <3>. HIDE DEF o
    <3>8. CborAt(y, stack, Append(o, D(2 * count)), 0)
      BY <3>6, CborEmissions
    <3>. HIDE DEF y
    <3>9. D(2 * count) \in Entries /\ Mirrors(D(2 * count), Frame("variant", K(count)), FALSE)
      BY HeadsMirror
    <3>. QED
      BY <1>3, <1>4, <3>1, <3>7, <3>8, <3>9 DEF Kinds
  <2>2. CASE ~Cbor!ValidText(text)
    BY <1>2, <2>2 DEF Cbor!Begin_Variant, CborResult, Cbor!Fail, IsOpen, IsWriter, Components
  <2>. QED
    BY <2>1, <2>2
<1>. QED
  BY <1>5, <1>6, <1>7, <1>8

\* A field name stands in the place of a key.
LEMMA CborNamesText ==
  ASSUME NEW s, IsOpen(s), CborSpelled(s), NEW name, Cbor!ValidText(name),
         Cbor!Put_Field(s, name).error = NoError
  PROVE  CborSpelled(Cbor!Put_Field(s, name))
<1>. DEFINE t == Cbor!Put_Field(s, name)
            f == LastOf(s.stack)
            g == [f EXCEPT !.waiting = TRUE]
            u == Cbor!Emit_Text(s, name)
<1>1. s.stack # <<>> /\ TakesField(f) /\ Leads(t, Field(s.stack))
  BY CborField DEF FieldOutcome, Held, Lost
<1>2. /\ s.error = NoError /\ ~s.failed /\ ~s.finalized /\ s.stack \in Seq(Frames)
      /\ s.root_written = TRUE /\ Leads(s, s.stack)
  BY <1>1 DEF IsOpen, IsWriter, Leads
<1>3. t = IF Latched(u) THEN u ELSE SetTop(u, [LastOf(u.stack) EXCEPT !.waiting = TRUE])
  BY <1>1, <1>2 DEF Cbor!Put_Field, Cbor!TakesField, TakesField, LastOf
<1>4. PICK open \in Seq(Entries) : Standing(s.stack, FALSE, open) /\ Reads(s.text, open, TRUE, 0)
  BY <1>2 DEF CborSpelled
<1>5. PICK d \in 1..Len(open) :
        /\ Mirrors(open[d], f, FALSE)
        /\ Onward(open, open, d)
        /\ \A o : Onward(o, open, d) =>
             /\ \A h \in Frames, in2 \in BOOLEAN :
                  Mirrors(o[d], h, in2) =>
                    Standing([s.stack EXCEPT ![Len(s.stack)] = h], in2, o)
             /\ Filled_Up(o[d]) => Standing(Popped(s.stack), TRUE, o)
  BY <1>1, <1>2, <1>4, StandingTop
<1>. DEFINE x == Cbor!Grammar!Filled(open[d])
            o == Cut(open, d, x)
<1>6. f \in Frames /\ g \in Frames /\ open[d] \in Entries
  BY <1>1, <1>2, TopIsFrame, FrameFacts, ElementOfSeq
<1>7. ~Filled_Up(open[d]) /\ Mirrors(x, g, FALSE)
  BY <1>1, <1>5, <1>6, EntryNamed
<1>8. x \in Entries
  BY <1>6, <1>7, FilledIsEntry
<1>9. CborTakes(s, s.stack, o)
  <2>1. \A j \in 1..Len(open) : j > d => Filled_Up(open[j])
    BY <1>5, LenProperties DEF Onward
  <2>2. Reads(Cbor!Grammar!ReadItem(s.text), o, TRUE, 0)
    BY <1>4, <1>7, <2>1, ItemFills
  <2>. QED
    BY <1>2, <2>2 DEF CborTakes
<1>. HIDE DEF x
<1>10. Onward(o, open, d) /\ o[d] = x /\ o \in Seq(Entries)
  BY <1>8, CutGoesOn
<1>. HIDE DEF o
<1>11. CborAt(u, s.stack, o, 0)
  BY <1>9, CborTexts
<1>. HIDE DEF t, u
<1>12. u.error = NoError
  BY <1>1, <1>3 DEF Leads, IsOpen
<1>13. Leads(u, s.stack) /\ Reads(u.text, o, TRUE, 0)
  BY <1>11, <1>12 DEF CborAt
<1>14. t.text = u.text
  BY <1>3, <1>12, <1>13 DEF Leads, IsOpen, IsWriter, Components
<1>15. Field(s.stack) = [s.stack EXCEPT ![Len(s.stack)] = g]
  BY DEF Field
<1>. HIDE DEF g
<1>16. Standing(Field(s.stack), FALSE, o)
  BY <1>5, <1>6, <1>7, <1>10, <1>15
<1>17. t.root_written = TRUE /\ t.stack = Field(s.stack)
  BY <1>1 DEF Leads, IsOpen, IsWriter
<1>. QED
  BY <1>10, <1>13, <1>14, <1>16, <1>17 DEF CborSpelled, t

\* Every event keeps the text the beginning of a CBOR item, or is refused.
LEMMA CborSpells ==
  ASSUME NEW s, IsOpen(s), CborSpelled(s), NEW e \in AnyEvents
  PROVE  CborResult(Cbor!Event(s, e))
<1>1. ~Latched(s) /\ ~Closed(s)
  BY DEF IsOpen
<1>2. CASE e.op \in Values
  BY <1>2, CborValuesText, CborDispatch DEF Values, Cbor!Put_Enumeration, Cbor!Put_Float_64
<1>3. CASE e.op \in Begins
  <2>1. e.op = "Begin_Optional" => CborResult(Cbor!Begin_Optional(s, e.present))
    BY CborBeginsFrames, EventShape
  <2>2. e.op \in {"Begin_Sequence", "Begin_Map"} =>
          CborResult(Cbor!Begin_Sequence(s, e.length)) /\ CborResult(Cbor!Begin_Map(s, e.length))
    BY CborBeginsFrames, EventShape
  <2>3. e.op = "Begin_Record" => CborResult(Cbor!Begin_Record(s, e.count))
    BY CborBeginsFrames, EventShape
  <2>4. e.op = "Begin_Variant" => CborResult(Cbor!Begin_Variant(s, e.text, e.count))
    BY CborBeginsFrames, EventShape
  <2>. QED
    BY <1>3, <2>1, <2>2, <2>3, <2>4, CborDispatch DEF Begins
<1>4. CASE e.op \in Ends
  <2>1. \A kind : CborResult(Cbor!Pop(s, kind))
    BY CborClosesText DEF CborResult
  <2>2. /\ CborResult(Cbor!End_Optional(s)) /\ CborResult(Cbor!End_Sequence(s))
        /\ CborResult(Cbor!End_Map(s)) /\ CborResult(Cbor!End_Record(s))
        /\ CborResult(Cbor!End_Variant(s))
    BY <2>1 DEF Cbor!End_Optional, Cbor!End_Sequence, Cbor!End_Map, Cbor!End_Record,
      Cbor!End_Variant
  <2>. QED
    BY <1>4, <2>2, CborDispatch DEF Ends
<1>5. CASE e.op = "Put_Field"
  <2>1. CASE Cbor!ValidText(e.text)
    BY <1>5, <2>1, CborNamesText, CborDispatch DEF CborResult
  <2>2. CASE ~Cbor!ValidText(e.text)
    <3>1. Latched(Cbor!Put_Field(s, e.text))
      BY <1>1, <2>2 DEF Cbor!Put_Field, Cbor!Fail, IsOpen, IsWriter, Components
    <3>. QED
      BY <1>5, <3>1, CborDispatch DEF CborResult
  <2>. QED
    BY <2>1, <2>2
<1>. QED
  BY <1>2, <1>3, <1>4, <1>5, EventShape

\* An entry is filled up when its frame has begun all it declared.
LEMMA EntryFull ==
  ASSUME NEW e \in Entries, NEW f \in Frames, NEW inner \in BOOLEAN, Mirrors(e, f, inner)
  PROVE  Filled_Up(e) = (/\ f.known
                         /\ f.expected = IF inner THEN f.observed + 1 ELSE f.observed
                         /\ inner /\ f.kind = "map" => f.child_is_value)
<1>. DEFINE left == f.expected - f.observed
<1>1. /\ f.waiting \in BOOLEAN /\ f.child_is_value \in BOOLEAN /\ f.known \in BOOLEAN
      /\ f.observed \in Nat /\ f.expected \in Nat /\ left \in Int
      /\ f.kind \in {"optional", "sequence", "map", "record", "variant"}
  BY FrameFields DEF Kinds
<1>2. \A k \in Int : 2 * k - 1 # 0 /\ (2 * k = 0 <=> k = 0) /\ (2 * k - 2 = 0 <=> k = 1)
  OBVIOUS
<1>3. 2 * left - 1 # 0 /\ (2 * left = 0 <=> left = 0) /\ (2 * left - 2 = 0 <=> left = 1)
      /\ (left - 1 = 0 <=> left = 1)
  BY <1>1, <1>2
<1>4. /\ left = 0 <=> f.expected = f.observed
      /\ left = 1 <=> f.expected = f.observed + 1
  BY <1>1
<1>. HIDE DEF left
<1>5. CASE f.known /\ inner
  <2>1. Slots(f, TRUE) = 0 <=> (left = 1 /\ (f.kind = "map" => f.child_is_value))
    BY <1>1, <1>3 DEF Slots, left
  <2>. QED
    BY <1>1, <1>4, <1>5, <2>1 DEF Mirrors, Filled_Up
<1>6. CASE f.known /\ ~inner
  <2>1. CASE f.kind \in {"optional", "sequence"}
    <3>1. Slots(f, FALSE) = left
      BY <2>1 DEF Slots, left
    <3>. QED
      BY <1>1, <1>4, <1>6, <3>1 DEF Mirrors, Filled_Up
  <2>2. CASE f.kind \notin {"optional", "sequence"} /\ ~f.waiting
    <3>1. Slots(f, FALSE) = 2 * left
      BY <2>2 DEF Slots, left
    <3>. QED
      BY <1>1, <1>3, <1>4, <1>6, <3>1 DEF Mirrors, Filled_Up
  <2>3. CASE f.kind \notin {"optional", "sequence"} /\ f.waiting
    <3>1. Slots(f, FALSE) = 2 * left - 1
      BY <2>3 DEF Slots, left
    <3>2. e.left \in Nat /\ e.left = 2 * left - 1
      BY <1>6, <3>1 DEF Mirrors, Entries
    <3>3. left # 0
      BY <1>1, <3>2 DEF left
    <3>. QED
      BY <1>1, <1>3, <1>4, <1>6, <3>1, <3>2, <3>3 DEF Mirrors, Filled_Up
  <2>. QED
    BY <2>1, <2>2, <2>3
<1>7. CASE ~f.known
  BY <1>7 DEF Mirrors, Filled_Up
<1>. QED
  BY <1>1, <1>5, <1>6, <1>7

\* What is spelled is what the writer's own state says of it.
LEMMA CborFollows ==
  ASSUME NEW w, w.stack \in Seq(Frames), w.root_written \in BOOLEAN, CborSpelled(w)
  PROVE  Cbor!Follows(w)
<1>. DEFINE n == Len(w.stack)
            Begun == \A i \in DOMAIN w.stack : Cbor!AllBegun(w, i)
            full == Cbor!Grammar!Incomplete(w.text) = {}
<1>1. PICK open \in Seq(Entries) :
        Standing(w.stack, FALSE, open) /\ Reads(w.text, open, w.root_written, 0)
  BY DEF CborSpelled
<1>2. PICK pos \in [1..n -> 1..Len(open)] :
        /\ \A i \in 1..n : Mirrors(open[pos[i]], w.stack[i], FALSE \/ i < n)
        /\ \A j \in 1..Len(open) : (\A i \in 1..n : pos[i] # j) => Filled_Up(open[j])
  BY <1>1 DEF Standing
<1>3. ASSUME NEW i \in 1..n
      PROVE  Filled_Up(open[pos[i]]) <=> Cbor!AllBegun(w, i)
  <2>. DEFINE e == open[pos[i]]
              f == w.stack[i]
              inner == i < n
  <2>1. pos[i] \in 1..Len(open)
    BY <1>2
  <2>2. e \in Entries /\ f \in Frames /\ inner \in BOOLEAN
    BY <2>1, ElementOfSeq
  <2>3. Mirrors(e, f, FALSE \/ i < n) /\ (FALSE \/ i < n) = inner
    BY <1>2
  <2>4. Mirrors(e, f, inner)
    BY <2>3
  <2>. HIDE DEF e, f, inner
  <2>5. Filled_Up(e) = (/\ f.known
                        /\ f.expected = IF inner THEN f.observed + 1 ELSE f.observed
                        /\ inner /\ f.kind = "map" => f.child_is_value)
    BY <2>2, <2>4, EntryFull
  <2>. QED
    BY <2>5, Zenon DEF Cbor!AllBegun, e, f, inner
<1>4. full <=> \A j \in 1..Len(open) : Filled_Up(open[j])
  <2>1. w.text.open = open
    BY <1>1 DEF Reads
  <2>2. ASSUME NEW j \in 1..Len(open)
        PROVE  open[j].left \in Nat
    <3>1. open[j] \in Entries
      BY ElementOfSeq
    <3>2. \A e \in Entries : e.left \in Nat
      BY DEF Entries
    <3>. QED
      BY <3>1, <3>2
  <2>3. \A j \in 1..Len(open) :
          Filled_Up(open[j]) <=> ~(open[j].indefinite \/ open[j].left > 0)
    BY <2>2 DEF Filled_Up
  <2>4. full <=> \A j \in 1..Len(open) : ~(open[j].indefinite \/ open[j].left > 0)
    BY <2>1 DEF Cbor!Grammar!Incomplete
  <2>. QED
    BY <2>3, <2>4
<1>5. (\A j \in 1..Len(open) : Filled_Up(open[j])) <=> \A i \in 1..n : Filled_Up(open[pos[i]])
  <2>1. \A i \in 1..n : pos[i] \in 1..Len(open)
    BY <1>2
  <2>. QED
    BY <1>2, <2>1
<1>6. full <=> Begun
  <2>. DEFINE m == 1..n
  <2>1. DOMAIN w.stack = m
    BY LenProperties
  <2>. HIDE DEF m
  <2>2. Begun <=> \A i \in m : Cbor!AllBegun(w, i)
    BY <2>1, Zenon
  <2>. HIDE DEF n, full, Begun
  <2>3. Begun <=> \A i \in 1..n : Cbor!AllBegun(w, i)
    BY <2>2 DEF m
  <2>. QED
    BY <1>3, <1>4, <1>5, <2>3
<1>. HIDE DEF Begun
<1>7. /\ w.text.bad = FALSE /\ w.text.started = w.root_written /\ w.text.body = 0
  BY <1>1 DEF Reads
<1>. QED
  BY <1>6, <1>7 DEF Cbor!Follows, Cbor!Grammar!Whole, Begun

-----------------------------------------------------------------------------
(* The output of a writer in any state. *)

Spelled(b, w) == IF b = "json" THEN JsonSpelled(w) ELSE CborSpelled(w)

\* Until it fails, the output of a writer is what its frames say, and all of them are closed
\* when it is published.
Faithful(b, w) ==
  ~w.failed => Spelled(b, w) /\ (w.finalized => w.root_written /\ w.stack = <<>>)

\* The rest of a writer has no part in it.
LEMMA FaithfulAside ==
  ASSUME NEW b, NEW s, NEW t, t.text = s.text, t.stack = s.stack,
         t.root_written = s.root_written, t.failed = s.failed, Faithful(b, s),
         t.finalized => s.finalized
  PROVE  Faithful(b, t)
<1>1. Spelled(b, s) => Spelled(b, t)
  BY DEF Spelled, JsonSpelled, CborSpelled
<1>. QED
  BY <1>1 DEF Faithful

\* Nothing written yet.
LEMMA StartIsSpelled ==
  ASSUME NEW b \in Backend, NEW w, w.stack = <<>>, w.root_written = FALSE, w.finalized = FALSE,
         w.text = IF b = "json" THEN Json!Grammar!Start ELSE Cbor!Grammar!Start
  PROVE  Faithful(b, w)
<1>1. CASE b = "json"
  <2>1. /\ <<>> \in Seq(Brackets) /\ Nested(w.stack, FALSE, <<>>)
        /\ JsonExpects(w.stack, w.root_written) = "value"
    BY EmptySeq, NestedEmpty DEF JsonExpects
  <2>2. w.text = Spot(<<>>, "value")
    BY <1>1 DEF Json!Grammar!Start, Spot
  <2>. QED
    BY <1>1, <2>1, <2>2 DEF Faithful, Spelled, JsonSpelled
<1>2. CASE b = "cbor"
  <2>1. <<>> \in Seq(Entries)
    BY EmptySeq
  <2>2. Standing(w.stack, FALSE, <<>>)
    <3>1. ASSUME NEW o \in Seq(Entries), o = <<>>
          PROVE  Standing(<<>>, FALSE, o)
      <4>1. \A j \in 1..Len(o) : Filled_Up(o[j])
        BY <3>1
      <4>. QED
        BY <4>1, StandingEmpty
    <3>. QED
      BY <2>1, <3>1
  <2>3. Reads(w.text, <<>>, FALSE, 0)
    BY <1>2 DEF Reads, Cbor!Grammar!Start
  <2>. QED
    BY <1>2, <2>1, <2>2, <2>3 DEF Faithful, Spelled, CborSpelled
<1>. QED
  BY <1>1, <1>2 DEF Backend

\* A writer nobody has used, and one that was reset.
LEMMA UnusedIsFaithful ==
  ASSUME NEW b \in Backend
  PROVE  /\ \A room, x : Faithful(b, Fresh(b, room, x))
         /\ \A s : IsWriter(s) => Faithful(b, WriterReset(b, s))
<1>1. ASSUME NEW room, NEW x
      PROVE  Faithful(b, Fresh(b, room, x))
  <2>. DEFINE w == Fresh(b, room, x)
  <2>1. /\ w.stack = <<>> /\ w.root_written = FALSE /\ w.finalized = FALSE
        /\ w.text = IF b = "json" THEN Json!Grammar!Start ELSE Cbor!Grammar!Start
    BY DEF Fresh, Json!Fresh, Cbor!Fresh
  <2>. HIDE DEF w
  <2>. QED
    BY <2>1, StartIsSpelled DEF w
<1>2. ASSUME NEW s, IsWriter(s)
      PROVE  Faithful(b, WriterReset(b, s))
  <2>. DEFINE w == WriterReset(b, s)
  <2>1. /\ w.stack = <<>> /\ w.root_written = FALSE /\ w.finalized = FALSE
        /\ w.text = IF b = "json" THEN Json!Grammar!Start ELSE Cbor!Grammar!Start
    BY <1>2 DEF WriterReset, Json!Reset_Writer, Cbor!Reset_Writer, IsWriter, Components
  <2>. HIDE DEF w
  <2>. QED
    BY <2>1, StartIsSpelled DEF w
<1>. QED
  BY <1>1, <1>2

\* A call that leaves a writer as the contract allows, and spells what it accepts.
LEMMA ServedIsFaithful ==
  ASSUME NEW b, NEW s, IsWriter(s), Faithful(b, s), NEW t, Served(s, t),
         IsOpen(s) => Latched(t) \/ Spelled(b, t)
  PROVE  Faithful(b, t)
<1>1. CASE Latched(s)
  BY <1>1 DEF Served
<1>2. CASE ~Latched(s) /\ Closed(s)
  <2>1. t = [s EXCEPT !.error = "Invalid_State"]
    BY <1>2 DEF Served
  <2>2. /\ t.text = s.text /\ t.stack = s.stack /\ t.root_written = s.root_written
        /\ t.failed = s.failed /\ t.finalized = s.finalized
    BY <2>1 DEF IsWriter, Components
  <2>. QED
    BY <2>2, FaithfulAside
<1>3. CASE ~Latched(s) /\ ~Closed(s)
  <2>1. IsOpen(s)
    BY <1>3 DEF IsOpen
  <2>2. Placed(t) /\ (Latched(t) \/ Spelled(b, t))
    BY <2>1 DEF Served
  <2>. QED
    BY <2>2 DEF Placed, Faithful
<1>. QED
  BY <1>1, <1>2, <1>3

\* Every event.
LEMMA EventIsFaithful ==
  ASSUME NEW b \in Backend, NEW s, IsWriter(s), Faithful(b, s), NEW e \in AnyEvents
  PROVE  Faithful(b, WriterEvent(b, s, e))
<1>. DEFINE t == WriterEvent(b, s, e)
<1>1. Served(s, t)
  BY EventServes
<1>2. ASSUME IsOpen(s)
      PROVE  Latched(t) \/ Spelled(b, t)
  <2>1. Spelled(b, s)
    BY <1>2 DEF Faithful, IsOpen
  <2>2. CASE b = "json"
    <3>1. JsonResult(Json!Event(s, e))
      BY <1>2, <2>1, <2>2, JsonSpells DEF Spelled
    <3>. QED
      BY <2>2, <3>1 DEF WriterEvent, Spelled, JsonResult
  <2>3. CASE b = "cbor"
    <3>1. CborResult(Cbor!Event(s, e))
      BY <1>2, <2>1, <2>3, CborSpells DEF Spelled
    <3>. QED
      BY <2>3, <3>1 DEF WriterEvent, Spelled, CborResult
  <2>. QED
    BY <2>2, <2>3 DEF Backend
<1>. HIDE DEF t
<1>3. Faithful(b, t)
  BY <1>1, <1>2, ServedIsFaithful
<1>. QED
  BY <1>3 DEF t

\* An empty byte string, in CBOR.
LEMMA EmptyBytesServe ==
  ASSUME NEW s, IsWriter(s), Faithful("cbor", s)
  PROVE  Served(s, Cbor!Put_Bytes(s, 0)) /\ Faithful("cbor", Cbor!Put_Bytes(s, 0))
<1>. DEFINE t == Cbor!Put_Bytes(s, 0)
            r == LatchCode(s, "Invalid_State")
<1>1. t = Cbor!After_Value(Cbor!Emit(Cbor!Before_Value(s), [head |-> "string", count |-> 0]))
  BY DEF Cbor!Put_Bytes, Cbor!Content, Cbor!Emit_Head
<1>. HIDE DEF t
<1>2. Served(s, t)
  <2>1. CASE Latched(s)
    BY <1>1, <2>1, CborIdle DEF Served, IsOpen
  <2>2. CASE ~Latched(s) /\ Closed(s)
    <3>1. r = [s EXCEPT !.error = "Invalid_State"] /\ Latched(r)
      BY <2>2 DEF IsWriter, Components
    <3>2. Cbor!Before_Value(s) = r
      BY <2>2 DEF Cbor!Before_Value
    <3>. HIDE DEF r
    <3>3. t = r
      BY <1>1, <3>1, <3>2, CborIdle
    <3>4. IsWriter(r)
      BY <3>1, ErrorIsAside
    <3>. QED
      BY <2>2, <3>1, <3>3, <3>4 DEF Served, IsOpen
  <2>3. CASE ~Latched(s) /\ ~Closed(s)
    <3>1. IsOpen(s)
      BY <2>3 DEF IsOpen
    <3>2. Placed(t)
      <4>1. \A o \in {s} : Placed(Cbor!Before_Value(o))
        BY <3>1, BeginsPlaced
      <4>. QED
        BY <1>1, <4>1, EmitsPlaced, CompletesPlaced, TextsPlaced DEF Cbor!Emit_Head
    <3>. QED
      BY <2>3, <3>2 DEF Served, Placed
  <2>. QED
    BY <2>1, <2>2, <2>3
<1>3. IsOpen(s) => Latched(t) \/ Spelled("cbor", t)
  BY CborValuesText DEF t, Faithful, Spelled, CborResult, IsOpen
<1>4. Faithful("cbor", t)
  BY <1>2, <1>3, ServedIsFaithful
<1>. QED
  BY <1>2, <1>4 DEF t

\* Finish_Document publishes nothing that is still open.
LEMMA FinishIsFaithful ==
  ASSUME NEW b \in Backend, NEW s, IsWriter(s), Faithful(b, s)
  PROVE  Faithful(b, WriterFinish(b, s))
<1>. DEFINE t == WriterFinish(b, s)
            r == LatchCode(s, "Invalid_State")
            p == [s EXCEPT !.finalized = TRUE]
            q == Json!Fail(s, "Invalid_State")
<1>1. t = IF Latched(s) THEN s ELSE IF Closed(s) THEN r
          ELSE IF ~s.root_written \/ s.stack # <<>> THEN q ELSE p
  BY DEF WriterFinish, Json!Finish_Document, Json!FinishWith, Json!Fail,
    Cbor!Finish_Document, Cbor!FinishWith, Cbor!Fail
<1>2. /\ p.stack = s.stack /\ p.root_written = s.root_written /\ p.text = s.text
      /\ r.stack = s.stack /\ r.root_written = s.root_written /\ r.text = s.text
      /\ r.failed = s.failed /\ r.finalized = s.finalized
  BY DEF IsWriter, Components
<1>3. ~Latched(s) => q.failed = TRUE
  BY DEF Json!Fail, IsWriter, Components
<1>4. Faithful(b, r)
  <2>. HIDE DEF r
  <2>. QED
    BY <1>2, FaithfulAside
<1>5. ~Latched(s) => Faithful(b, q)
  BY <1>3 DEF Faithful
<1>6. ASSUME ~Closed(s), s.root_written, s.stack = <<>>
      PROVE  Faithful(b, p)
  <2>1. Spelled(b, s)
    BY <1>6 DEF Faithful
  <2>. HIDE DEF p
  <2>2. Spelled(b, p)
    BY <1>2, <2>1 DEF Spelled, JsonSpelled, CborSpelled
  <2>. QED
    BY <1>2, <1>6, <2>2 DEF Faithful
<1>. HIDE DEF t, p, q, r
<1>7. Faithful(b, t)
  BY <1>1, <1>4, <1>5, <1>6
<1>. QED
  BY <1>7 DEF t

\* The client's part in it.
LEMMA ClientIsFaithful ==
  ASSUME NEW b, NEW s, IsWriter(s), Faithful(b, s)
  PROVE  /\ Faithful(b, Abort_Document(s)) /\ Faithful(b, Returned(s))
         /\ \A c : /\ Faithful(b, [s EXCEPT !.error = c]) /\ Faithful(b, LatchCode(s, c))
                   /\ Faithful(b, [Abort_Document(s) EXCEPT !.error = c])
<1>1. ASSUME NEW c
      PROVE  Faithful(b, [s EXCEPT !.error = c])
  <2>. DEFINE t == [s EXCEPT !.error = c]
  <2>1. /\ t.text = s.text /\ t.stack = s.stack /\ t.root_written = s.root_written
        /\ t.failed = s.failed /\ t.finalized = s.finalized
    BY DEF IsWriter, Components
  <2>. HIDE DEF t
  <2>2. Faithful(b, t)
    BY <2>1, FaithfulAside
  <2>. QED
    BY <2>2 DEF t
<1>2. ASSUME NEW c
      PROVE  Abort_Document(s).failed = TRUE /\ [Abort_Document(s) EXCEPT !.error = c].failed = TRUE
  BY DEF Abort_Document, IsWriter, Components
<1>3. \A c : LatchCode(s, c) = [s EXCEPT !.error = IF Latched(s) THEN s.error ELSE c]
  BY DEF IsWriter, Components
<1>. QED
  BY <1>1, <1>2, <1>3 DEF Faithful, Returned

\* What was emitted follows the grammar of the backend.
LEMMA FaithfulFollows ==
  ASSUME NEW b \in Backend, NEW s, IsWriter(s), Faithful(b, s), ~s.failed
  PROVE  IF b = "json" THEN Json!Follows(s) ELSE Cbor!Follows(s)
<1>1. /\ s.stack \in Seq(Frames) /\ s.root_written \in BOOLEAN
      /\ s.stack # <<>> => s.root_written
  BY DEF IsWriter
<1>. QED
  BY <1>1, JsonFollows, CborFollows DEF Faithful, Spelled

\* ... and what was published is whole.
LEMMA PublishedIsFaithful ==
  ASSUME NEW b \in Backend, NEW s, IsWriter(s), Faithful(b, s), NEW d \in Document(b, s)
  PROVE  Whole(b, d)
<1>1. d = s.text /\ s.finalized /\ ~s.failed
  BY DEF Document, Json!Document, Cbor!Document, Json!Complete, Cbor!Complete
<1>2. s.root_written /\ s.stack = <<>>
  BY <1>1 DEF Faithful
<1>3. IF b = "json" THEN Json!Follows(s) ELSE Cbor!Follows(s)
  BY <1>1, FaithfulFollows
<1>4. CASE b = "json"
  BY <1>1, <1>2, <1>3, <1>4 DEF Whole, Json!Follows
<1>5. CASE b # "json"
  <2>1. DOMAIN s.stack = {}
    BY <1>2
  <2>. QED
    BY <1>1, <1>2, <1>3, <1>5, <2>1 DEF Whole, Cbor!Follows
<1>. QED
  BY <1>4, <1>5


USE DEF NoError, Raised, Latched, LatchCode, Closed

-----------------------------------------------------------------------------
(* A writer and its client. *)

\* Between two calls the client has a writer whose output is what its frames say.
Sound ==
  /\ format \in Backend /\ IsWriter(writer) /\ writer.error # Raised
  /\ Faithful(format, writer)

\* ... and what it read back is whole.
Delivered == \A d \in delivered : Whole(format, d)

\* Every event of the client is one of the interface.
LEMMA EventsAreCalls == Events \subseteq AnyEvents
<1>. DEFINE Declared == [known : BOOLEAN, length : Nat]
            lengths == {Known_Length(n) : n \in 0..MaxItems} \cup {Unknown_Length}
            counts == 0..MaxItems
<1>1. counts \subseteq Nat
  BY BoundsAssumption, NaturalAssumption
<1>2. ASSUME NEW n \in Nat
      PROVE  Known_Length(n) \in Declared
  BY DEF Known_Length
<1>3. Unknown_Length \in Declared
  BY DEF Unknown_Length
<1>4. {"text"} \subseteq Texts
  BY DEF Texts
<1>. HIDE DEF Declared, counts
<1>5. lengths \subseteq Declared
  BY <1>1, <1>2, <1>3 DEF counts
<1>. HIDE DEF lengths
<1>6. EventsOver({"text"}, Texts, Floats, lengths, counts)
        \subseteq EventsOver(Texts, Texts, Floats, Declared, Nat)
  BY <1>1, <1>4, <1>5 DEF EventsOver
<1>. QED
  BY <1>6 DEF Events, AnyEvents, Declared, lengths, counts

\* A writer just declared.
LEMMA InitSound ==
  Init => /\ Sound /\ Delivered
          /\ State(writer) = "Ready" /\ writer.error = NoError /\ Document(format, writer) = {}
<1>. SUFFICES ASSUME Init
              PROVE  /\ Sound /\ Delivered
                     /\ State(writer) = "Ready" /\ writer.error = NoError
                     /\ Document(format, writer) = {}
  OBVIOUS
<1>1. PICK room \in Room(format), x \in Json!Exhaustions : writer = Fresh(format, room, x)
  BY DEF Init
<1>2. room \in Nat /\ format \in Backend
  BY BoundsAssumption, HeadsAssumption DEF Init, Room
<1>3. IsOpen(writer) /\ writer.root_written = FALSE
  BY <1>1, <1>2, FreshIsWriter
<1>4. Faithful(format, writer)
  BY <1>1, <1>2, UnusedIsFaithful
<1>5. State(writer) = "Ready" /\ Document(format, writer) = {}
  BY <1>3, StateFacts DEF IsOpen
<1>. QED
  BY <1>2, <1>3, <1>4, <1>5 DEF Init, Sound, Delivered, Nothing, IsOpen

\* A call that leaves a writer whose output is what its frames say.
LEMMA CallSound ==
  ASSUME Sound, NEW t, IsWriter(t), Faithful(format, t), Call(t)
  PROVE  Sound' /\ (Delivered => Delivered')
<1>1. writer' = Returned(t) /\ format' = format /\ delivered' = delivered
  BY DEF Call
<1>2. IsWriter(Returned(t)) /\ Returned(t).error # Raised /\ Faithful(format, Returned(t))
  BY ReturnedIsWriter, ClientIsFaithful
<1>. QED
  BY <1>1, <1>2 DEF Sound, Delivered, Faithful

\* Every step.
LEMMA StepSound == Sound /\ [Next]_vars => Sound' /\ (Delivered => Delivered')
<1>. SUFFICES ASSUME Sound, [Next]_vars PROVE Sound' /\ (Delivered => Delivered')
  OBVIOUS
<1>1. /\ format \in Backend /\ IsWriter(writer) /\ Faithful(format, writer)
      /\ writer.error # Raised
  BY DEF Sound
<1>2. CASE Put
  <2>1. PICK e \in Events : Call(WriterEvent(format, writer, e))
    BY <1>2 DEF Put
  <2>2. e \in AnyEvents
    BY EventsAreCalls
  <2>. DEFINE t == WriterEvent(format, writer, e)
  <2>3. IsWriter(t) /\ Faithful(format, t)
    BY <1>1, <2>2, EventServes, EventIsFaithful DEF Served
  <2>. QED
    BY <2>1, <2>3, CallSound
<1>3. CASE PutEmptyBytes
  <2>1. format = "cbor" /\ Call(Cbor!Put_Bytes(writer, 0))
    BY <1>3 DEF PutEmptyBytes
  <2>2. IsWriter(Cbor!Put_Bytes(writer, 0)) /\ Faithful(format, Cbor!Put_Bytes(writer, 0))
    BY <1>1, <2>1, EmptyBytesServe DEF Served
  <2>. QED
    BY <2>1, <2>2, CallSound
<1>4. CASE Finish
  <2>1. IsWriter(WriterFinish(format, writer)) /\ Faithful(format, WriterFinish(format, writer))
    BY <1>1, FinishServes, FinishIsFaithful
  <2>. QED
    BY <1>4, <2>1, CallSound DEF Finish
<1>5. CASE Abort
  <2>1. IsWriter(Abort_Document(writer)) /\ Faithful(format, Abort_Document(writer))
    BY <1>1, AbortPoisons, ClientIsFaithful
  <2>. QED
    BY <1>5, <2>1, CallSound DEF Abort
<1>6. CASE Reset
  <2>1. IsWriter(WriterReset(format, writer)) /\ Faithful(format, WriterReset(format, writer))
    BY <1>1, ResetReadies, UnusedIsFaithful
  <2>. QED
    BY <1>6, <2>1, CallSound DEF Reset
<1>7. CASE Copy_Output
  <2>1. ASSUME NEW c, ~Latched(writer), Call(LatchCode(writer, c))
        PROVE  Sound' /\ (Delivered => Delivered')
    <3>1. LatchCode(writer, c) = [writer EXCEPT !.error = c]
      BY <1>1, <2>1 DEF IsWriter, Components
    <3>2. IsWriter([writer EXCEPT !.error = c]) /\ Faithful(format, [writer EXCEPT !.error = c])
      BY <1>1, ErrorIsAside, ClientIsFaithful
    <3>. QED
      BY <2>1, <3>1, <3>2, CallSound
  <2>2. CASE delivered' = Document(format, writer) /\ UNCHANGED <<format, writer>>
    <3>1. \A d \in Document(format, writer) : Whole(format, d)
      BY <1>1, PublishedIsFaithful
    <3>2. Sound'
      BY <2>2 DEF Sound
    <3>. QED
      BY <2>2, <3>1, <3>2 DEF Delivered
  <2>. QED
    BY <1>7, <2>1, <2>2 DEF Copy_Output
<1>8. ASSUME NEW c \in {NoError, "Application_Error"}, SetError(c)
      PROVE  Sound' /\ (Delivered => Delivered')
  <2>1. /\ writer' = [writer EXCEPT !.error = c] /\ format' = format /\ delivered' = delivered
        /\ c # Raised
    BY <1>8 DEF SetError
  <2>2. /\ IsWriter([writer EXCEPT !.error = c]) /\ [writer EXCEPT !.error = c].error = c
        /\ Faithful(format, [writer EXCEPT !.error = c])
    BY <1>1, ErrorIsAside, ClientIsFaithful
  <2>. QED
    BY <1>1, <2>1, <2>2 DEF Sound, Delivered
<1>9. CASE UNCHANGED vars
  BY <1>9 DEF vars, Sound, Delivered
<1>. QED
  BY <1>2, <1>3, <1>4, <1>5, <1>6, <1>7, <1>8, <1>9 DEF Next

\* What holds between any two calls.
LEMMA AlwaysSound == Spec => [](Sound /\ Delivered)
<1>. QED
  BY InitSound, StepSound, PTL DEF Spec

\* Whatever a client read back from a JSON writer is one whole value, for every nesting and any
\* number of events: Before_Value, After_Value, Push and Pop put every comma and bracket in
\* its place.
THEOREM DeliveredIsJsonHolds == Spec => []DeliveredIsJson
<1>1. Sound /\ Delivered => DeliveredIsJson
  BY DEF Delivered, DeliveredIsJson, Whole
<1>. QED
  BY <1>1, AlwaysSound, PTL

\* Whatever a client read back from a CBOR writer is one whole item: every length that was
\* declared was filled, and every break closes what it was meant to close.
THEOREM DeliveredIsCborHolds == Spec => []DeliveredIsCbor
<1>1. Sound /\ Delivered => DeliveredIsCbor
  BY DEF Delivered, DeliveredIsCbor, Whole
<1>. QED
  BY <1>1, AlwaysSound, PTL

\* While a writer is open and unfailed its output is the beginning of a document, and a whole
\* one exactly when its stack says so.
THEOREM EmittedFollowsGrammarHolds == Spec => []EmittedFollowsGrammar
<1>1. Sound => EmittedFollowsGrammar
  <2>. SUFFICES ASSUME Sound, ~writer.failed
                PROVE  IF format = "json" THEN Json!Follows(writer) ELSE Cbor!Follows(writer)
    BY DEF EmittedFollowsGrammar
  <2>. QED
    BY FaithfulFollows DEF Sound
<1>. QED
  BY <1>1, AlwaysSound, PTL

\* Either writer implements the contract of the Serializer interface, step by step: it moves
\* between Ready, Active, Finished and Poisoned as SerializerLifecycle allows.
THEOREM ImplementsLifecycleHolds == Spec => ImplementsLifecycle
<1>1. Init => Lifecycle!Init
  BY InitSound DEF Lifecycle!Init, Nothing
<1>2. Sound /\ [Next]_vars => [Lifecycle!Next]_(Lifecycle!vars)
  <2>. SUFFICES ASSUME Sound, [Next]_vars PROVE [Lifecycle!Next]_(Lifecycle!vars)
    OBVIOUS
  <2>1. /\ format \in Backend /\ IsWriter(writer) /\ Faithful(format, writer)
        /\ writer.error # Raised
    BY DEF Sound
  <2>2. format' = format =>
          /\ Document(format, writer)' = Document(format, writer')
          /\ State(writer)' = State(writer')
    BY DEF Document, Json!Document, Cbor!Document, Json!Complete, Cbor!Complete, State
  <2>3. ASSUME format' = format, Obeys(format, writer, writer')
        PROVE  [Lifecycle!Next]_(Lifecycle!vars)
    BY <2>2, <2>3 DEF Obeys, Lifecycle!Next, Lifecycle!vars, Lifecycle!Open, Lifecycle!Misuse,
      Lifecycle!Accept, Lifecycle!Refuse, Lifecycle!Publish, Lifecycle!Abort, Lifecycle!Reset,
      Lifecycle!SetError, Nothing
  <2>4. CASE Put
    <3>1. PICK e \in Events : Call(WriterEvent(format, writer, e))
      BY <2>4 DEF Put
    <3>2. Served(writer, WriterEvent(format, writer, e))
      BY <2>1, EventsAreCalls, EventServes
    <3>. QED
      BY <2>1, <2>3, <3>1, <3>2, ServedObeys DEF Call
  <2>5. CASE PutEmptyBytes
    BY <2>1, <2>3, <2>5, EmptyBytesServe, ServedObeys DEF PutEmptyBytes, Call
  <2>6. CASE Finish
    BY <2>1, <2>3, <2>6, FinishObeys DEF Finish, Call
  <2>7. CASE Abort \/ Reset
    BY <2>1, <2>3, <2>7, ClientObeys DEF Abort, Reset, Call
  <2>8. CASE Copy_Output
    <3>1. ASSUME NEW c, ~Latched(writer), Call(LatchCode(writer, c)),
                 c = IF Document(format, writer) = {} THEN "Invalid_State" ELSE "Capacity_Exceeded"
          PROVE  Lifecycle!ReadBack
      <4>. DEFINE t == [writer EXCEPT !.error = c]
      <4>1. LatchCode(writer, c) = t
        BY <2>1, <3>1 DEF IsWriter, Components
      <4>2. /\ t.error = c /\ State(t) = State(writer) /\ Document(format, t) = Document(format, writer)
            /\ c # Raised
        BY <2>1, <3>1, ErrorIsAside
      <4>3. writer' = t /\ format' = format
        BY <3>1, <4>1, <4>2 DEF Call, Returned
      <4>. HIDE DEF t
      <4>. QED
        BY <2>2, <3>1, <4>2, <4>3 DEF Lifecycle!ReadBack, Nothing
    <3>2. CASE UNCHANGED <<format, writer>>
      BY <2>2, <3>2 DEF Lifecycle!vars
    <3>. QED
      BY <2>8, <3>1, <3>2 DEF Copy_Output, Nothing, Lifecycle!Next
  <2>9. ASSUME NEW c \in {NoError, "Application_Error"}, SetError(c)
        PROVE  [Lifecycle!Next]_(Lifecycle!vars)
    BY <2>1, <2>3, <2>9, ClientObeys DEF SetError
  <2>10. CASE UNCHANGED vars
    BY <2>2, <2>10 DEF vars, Lifecycle!vars
  <2>. QED
    BY <2>4, <2>5, <2>6, <2>7, <2>8, <2>9, <2>10 DEF Next
<1>. QED
  BY <1>1, <1>2, AlwaysSound, PTL DEF Spec, ImplementsLifecycle, Lifecycle!Spec

-----------------------------------------------------------------------------
(* The preflight and the writer. *)


\* The Counter is within the limits; while both go on they are alike; and when one has
\* stopped, what the properties say of the two errors.
ParityInvariant ==
  /\ encoding \in Backend
  /\ IsCounter(counter) /\ counter.profile = Capabilities(encoding)
  /\ Running => Alike(counter, emitter)
  /\ PreflightSuffices /\ PreflightIsNotStricter

\* What the traversal is made of, as the lemmas about events want it.
LEMMA TraversalIsKnown == Traversal \subseteq AnyEvents
<1>. DEFINE some == {Known_Length(n) : n \in 0..MaxItems} \cup {Unknown_Length}
            all == [known : BOOLEAN, length : Nat]
            counts == 0..MaxItems
<1>1. some \subseteq all /\ counts \subseteq Nat
  <2>1. 0..MaxItems \subseteq Nat
    BY BoundsAssumption, NaturalAssumption
  <2>2. \A n \in Nat : Known_Length(n) \in all
    BY DEF Known_Length
  <2>3. Unknown_Length \in all
    BY DEF Unknown_Length
  <2>. QED
    BY <2>1, <2>2, <2>3
<1>. HIDE DEF some, all, counts
<1>2. EventsOver(Texts, Texts, Floats, some, counts)
        \subseteq EventsOver(Texts, Texts, Floats, all, Nat)
  BY <1>1 DEF EventsOver
<1>. QED
  BY <1>2 DEF Traversal, AnyEvents, some, all, counts

\* Both begin empty.
LEMMA InitParity == ParityInit => ParityInvariant
<1>. SUFFICES ASSUME ParityInit PROVE ParityInvariant
  OBVIOUS
<1>1. PICK room \in {MaxRoom, 1}, x \in Json!Exhaustions : emitter = Fresh(encoding, room, x)
  BY DEF ParityInit
<1>2. encoding \in Backend /\ counter = Counting!Reset(Capabilities(encoding), NoError)
  BY DEF ParityInit
<1>3. room \in Nat
  BY BoundsAssumption
<1>4. IsOpen(emitter) /\ emitter.stack = <<>> /\ emitter.root_written = FALSE
  BY <1>1, <1>2, <1>3, FreshIsWriter
<1>5. /\ IsCounter(counter) /\ counter.profile = Capabilities(encoding)
      /\ counter.error = NoError
  BY <1>2, FreshCounter
<1>6. Alike(counter, emitter)
  BY <1>2, <1>4, FreshAlike
<1>. QED
  BY <1>2, <1>4, <1>5, <1>6
  DEF IsOpen, ParityInvariant, PreflightSuffices, PreflightIsNotStricter

\* Each event, and Finish_Document, keeps the two in step or ends the traversal.
LEMMA StepParity == ParityInvariant /\ [ParityNext]_parityVars => ParityInvariant'
<1>. SUFFICES ASSUME ParityInvariant, [ParityNext]_parityVars
              PROVE  ParityInvariant'
  OBVIOUS
<1>. USE DEF ParityInvariant
<1>1. ASSUME Running, UNCHANGED encoding, IsCounter(counter'), counter'.profile = counter.profile,
             Parity(counter', emitter')
      PROVE  ParityInvariant'
  <2>1. Running' => Alike(counter, emitter)'
    BY <1>1 DEF Running, Parity, Lost
  <2>2. PreflightSuffices'
    BY <1>1 DEF PreflightSuffices, Parity, Lost
  <2>3. PreflightIsNotStricter'
    BY <1>1 DEF PreflightIsNotStricter, Parity, OutOfRoom
  <2>. QED
    BY <1>1, <2>1, <2>2, <2>3 DEF IsCounter, SafeStack, Within
<1>2. ASSUME NEW e \in Traversal, GiveBoth(e)
      PROVE  ParityInvariant'
  BY <1>1, <1>2, EventParity, TraversalIsKnown DEF GiveBoth, Running
<1>3. ASSUME FinishBoth
      PROVE  ParityInvariant'
  BY <1>1, <1>3, FinishParity DEF FinishBoth, Running
<1>4. CASE UNCHANGED parityVars
  BY <1>4 DEF parityVars, Running, PreflightSuffices, PreflightIsNotStricter, IsCounter, SafeStack,
    Within, Alike, IsWriter, Tracks, Matches, OutOfRoom, Capabilities
<1>. QED
  BY <1>2, <1>3, <1>4 DEF ParityNext

\* Every state of every traversal.
LEMMA ParityHolds == ParitySpec => []ParityInvariant
  BY InitParity, StepParity, PTL DEF ParitySpec

\* After a successful preflight only a lack of room can make the writer fail
\* (serialization.ads, lines 26-30), whatever the traversal and the limits.
THEOREM PreflightSufficesHolds == ParitySpec => []PreflightSuffices
<1>1. ParityInvariant => PreflightSuffices
  BY DEF ParityInvariant
<1>. QED
  BY <1>1, ParityHolds, PTL

\* What the Counter refuses as misplaced or unsupported the writer refuses for that reason,
\* and no text the writer would refuse passes the Counter.
THEOREM PreflightIsNotStricterHolds == ParitySpec => []PreflightIsNotStricter
<1>1. ParityInvariant => PreflightIsNotStricter
  BY DEF ParityInvariant
<1>. QED
  BY <1>1, ParityHolds, PTL

\* The stacks of the two correspond at every depth, within the limits of the root.
THEOREM StacksAgreeHolds == ParitySpec => []StacksAgree
<1>1. ParityInvariant => StacksAgree
  <2>. SUFFICES ASSUME ParityInvariant PROVE StacksAgree
    OBVIOUS
  <2>1. counter.events <= Limits.events /\ Len(counter.stack) <= Limits.nesting
    BY DEF ParityInvariant, IsCounter, SafeStack
  <2>2. \A i \in DOMAIN counter.stack : counter.stack[i].observed <= Limits.items
    BY LenProperties DEF ParityInvariant, IsCounter, SafeStack, Within
  <2>3. ASSUME Running
        PROVE  /\ Len(counter.stack) = Len(emitter.stack)
               /\ \A i \in DOMAIN emitter.stack : Agree(i)
               /\ counter.root_written = emitter.root_written
               /\ counter.finalized = emitter.finalized
    <3>1. Alike(counter, emitter) /\ Tracks(counter.stack, emitter.stack)
      BY <2>3 DEF ParityInvariant, Alike
    <3>2. ASSUME NEW i \in DOMAIN emitter.stack
          PROVE  Agree(i)
      <4>1. i \in 1..Len(emitter.stack)
        BY <3>1, LenProperties DEF Alike, IsWriter
      <4>2. Matches(counter.stack[i], emitter.stack[i], i < Len(emitter.stack))
        BY <3>1, <4>1 DEF Tracks
      <4>. QED
        BY <4>2 DEF Agree, Matches
    <3>. QED
      BY <3>1, <3>2 DEF Alike, Tracks
  <2>. QED
    BY <2>1, <2>2, <2>3 DEF StacksAgree, LockStep
<1>. QED
  BY <1>1, ParityHolds, PTL

-----------------------------------------------------------------------------
(* Serialize. *)

(* Whatever the source does. *)

\* The validator has refused with a code, or goes on.
Validating ==
  /\ IsCounter(validator) /\ validator.profile = Capabilities(backend)
  /\ validator.error \in {NoError} \cup Codes
  /\ Latched(validator) \/ ~Closed(validator)

\* Nothing reaches the backend in the preflight; in the real pass nothing is published, and
\* the backend is poisoned no later than an Error of its own is latched.
RootSound ==
  /\ backend \in Backend /\ IsWriter(into) /\ into.error # Raised
  /\ pc \in {"idle", "preflight", "writing"}
  /\ pc = "idle" => script = <<>>
  /\ pc = "preflight" => State(into) = "Ready" /\ ~Latched(into) /\ Validating
  /\ pc = "writing" => ~into.finalized /\ (~Latched(into) => ~into.failed)

\* The code of a failure is never the mark of an exception.
LEMMA CodesAreReported == "No_Error" \notin Codes /\ Raised \notin Codes
  BY DEF Codes

\* How a call that failed or raised leaves the backend.
LEMMA EndsPoisoned ==
  ASSUME RootSound, NEW code
  PROVE  LET t == [Abort_Document(into) EXCEPT !.error = code] IN
         /\ IsWriter(t) /\ t.error = code /\ State(t) = "Poisoned"
         /\ Document(backend, t) = {}
<1>1. IsWriter(Abort_Document(into)) /\ State(Abort_Document(into)) = "Poisoned"
      /\ Document(backend, Abort_Document(into)) = {}
  BY AbortPoisons DEF RootSound
<1>. HIDE DEF Abort_Document
<1>. QED
  BY <1>1, ErrorIsAside

\* The call begins with an unused backend.
LEMMA RootInitSound == RootInit => RootSound
<1>. SUFFICES ASSUME RootInit PROVE RootSound
  OBVIOUS
<1>1. PICK room \in 1..MaxRoom, x \in Json!Exhaustions : into = Fresh(backend, room, x)
  BY DEF RootInit
<1>2. room \in Nat /\ backend \in Backend
  BY BoundsAssumption DEF RootInit
<1>3. IsOpen(into)
  BY <1>1, <1>2, FreshIsWriter
<1>. QED
  BY <1>2, <1>3 DEF RootInit, RootSound, IsOpen

\* A call that ends with a failure or an exception.
LEMMA FailureSettles ==
  ASSUME RootSound, NEW code, code # Raised, Settled,
         into' = [Abort_Document(into) EXCEPT !.error = code]
  PROVE  /\ RootSound' /\ pc' = "idle" /\ into'.error = code /\ State(into') = "Poisoned"
<1>1. IsWriter(into') /\ into'.error = code /\ State(into') = "Poisoned"
  BY EndsPoisoned
<1>. HIDE DEF Abort_Document
<1>2. RootSound'
  BY <1>1 DEF RootSound, Settled, IsWriter
<1>. QED
  BY <1>1, <1>2 DEF Settled

\* The end of the preflight.
LEMMA PreflightEnds ==
  ASSUME RootSound, EndPreflight
  PROVE  /\ RootSound'
         /\ \/ pc' = "writing" /\ into' = into /\ ~Latched(into)
            \/ /\ pc' = "idle" /\ ~raised' /\ Latched(into') /\ State(into') = "Poisoned"
<1>. DEFINE v == Counting!Finish_Document(validator)
<1>1. /\ pc = "preflight" /\ Validating /\ IsWriter(into) /\ State(into) = "Ready"
      /\ ~Latched(into)
  BY DEF EndPreflight, RootSound
<1>2. v.error # Raised
  BY <1>1, CounterFinishes, CodesAreReported DEF Validating, Codes
<1>. HIDE DEF v
<1>3. CASE Latched(v) /\ FailCall(v.error)
  BY <1>2, <1>3, FailureSettles DEF FailCall
<1>4. CASE pc' = "writing" /\ UNCHANGED <<backend, into, stable, script, raised>>
  BY <1>1, <1>4, StateFacts DEF RootSound, IsWriter
<1>. QED
  BY <1>1, <1>3, <1>4 DEF EndPreflight, v

\* A call made in the real pass.
LEMMA EmitEnds ==
  ASSUME RootSound, Emit
  PROVE  /\ RootSound'
         /\ \/ pc' = "writing"
            \/ pc' = "idle" /\ raised' /\ State(into') = "Poisoned"
<1>1. PICK e \in TraversalEvents :
        \E t \in {WriterEvent(backend, into, e)} :
          \/ t.error = Raised /\ RaiseCall(NoError)
          \/ /\ t.error # Raised /\ into' = t
             /\ UNCHANGED <<backend, validator, pc, stable, raised>>
  BY DEF Emit
<1>2. pc = "writing" /\ e \in AnyEvents /\ ~into.finalized /\ (~Latched(into) => ~into.failed)
  BY EventsAssumption DEF Emit, RootSound
<1>. DEFINE t == WriterEvent(backend, into, e)
<1>3. Served(into, t)
  BY <1>2, EventServes DEF RootSound
<1>4. IsWriter(t) /\ ~t.finalized /\ (~Latched(t) => ~t.failed)
  BY <1>2, <1>3 DEF Served, Placed, IsOpen, RootSound
<1>. HIDE DEF t
<1>5. CASE RaiseCall(NoError)
  BY <1>5, FailureSettles DEF RaiseCall
<1>6. CASE t.error # Raised /\ into' = t /\ UNCHANGED <<backend, validator, pc, stable, raised>>
  BY <1>2, <1>4, <1>6 DEF RootSound, IsWriter
<1>. QED
  BY <1>1, <1>5, <1>6 DEF t

\* The end of the real pass.
LEMMA WritingEnds ==
  ASSUME RootSound, EndWriting
  PROVE  /\ RootSound' /\ pc' = "idle" /\ ~raised'
         /\ \/ State(into') = "Finished" /\ ~Latched(into')
            \/ State(into') = "Poisoned" /\ Latched(into')
<1>. DEFINE t == WriterFinish(backend, into)
<1>1. /\ pc = "writing" /\ ~into.finalized /\ (~Latched(into) => ~into.failed)
      /\ IsWriter(into) /\ into.error # Raised
  BY DEF EndWriting, RootSound
<1>2. /\ IsWriter(t)
      /\ into.error # NoError => t = into
      /\ IsOpen(into) =>
           \/ t.failed /\ ~t.finalized /\ t.error = "Invalid_State"
           \/ t.finalized /\ ~t.failed /\ t.error = NoError
  BY FinishServes DEF RootSound
<1>. HIDE DEF t
<1>3. t.error # Raised /\ (~Latched(t) => t.finalized /\ ~t.failed)
  BY <1>1, <1>2 DEF IsOpen
<1>4. CASE Latched(t) /\ FailCall(t.error)
  BY <1>3, <1>4, FailureSettles DEF FailCall
<1>5. CASE ~Latched(t) /\ into' = t /\ raised' = FALSE /\ Settled
  BY <1>2, <1>3, <1>5 DEF RootSound, Settled, State, IsWriter
<1>. QED
  BY <1>4, <1>5 DEF EndWriting, t

\* The source fails or raises.
LEMMA SourceEnds ==
  ASSUME RootSound, SourceFails \/ SourceRaises
  PROVE  /\ RootSound'
         /\ \/ pc' = pc /\ pc # "idle"
            \/ pc' = "idle" /\ raised' /\ State(into') = "Poisoned"
<1>1. CASE SourceRaises
  <2>1. CASE pc = "preflight" /\ RaiseCall(validator.error)
    <3>1. validator.error # Raised
      BY <2>1, CodesAreReported DEF RootSound, Validating
    <3>. QED
      BY <2>1, <3>1, FailureSettles DEF RaiseCall
  <2>2. CASE pc = "writing" /\ RaiseCall(into.error)
    BY <2>2, FailureSettles DEF RaiseCall, RootSound
  <2>. QED
    BY <1>1, <2>1, <2>2 DEF SourceRaises
<1>2. CASE SourceFails /\ pc = "preflight"
  <2>. DEFINE v == LatchCode(validator, "Application_Error")
  <2>1. Validating /\ validator' = v
    BY <1>2 DEF RootSound, SourceFails
  <2>2. /\ v = [i \in CounterParts |-> v[i]]
        /\ v.stack = validator.stack /\ v.events = validator.events
        /\ v.root_written = validator.root_written /\ v.failed = validator.failed
        /\ v.finalized = validator.finalized /\ v.profile = validator.profile
        /\ v.error \in {"Application_Error", validator.error} /\ v.error # NoError
    BY <2>1 DEF Validating, IsCounter, CounterParts
  <2>. HIDE DEF v
  <2>3. IsCounter(v)
    BY <2>1, <2>2 DEF Validating, IsCounter
  <2>4. Validating'
    <3>1. UNCHANGED backend
      BY <1>2 DEF SourceFails
    <3>. QED
      BY <2>1, <2>2, <2>3, <3>1 DEF Validating, IsCounter, SafeStack, Within, Codes, Capabilities
  <2>. QED
    BY <1>2, <2>4 DEF RootSound, SourceFails
<1>3. CASE SourceFails /\ pc = "writing"
  <2>. DEFINE t == LatchCode(into, "Application_Error")
  <2>1. IsWriter(into) /\ into' = t
    BY <1>3 DEF RootSound, SourceFails
  <2>2. t = IF Latched(into) THEN into ELSE [into EXCEPT !.error = "Application_Error"]
    BY <2>1 DEF IsWriter, Components
  <2>. HIDE DEF t
  <2>3. IsWriter(t) /\ t.finalized = into.finalized /\ t.error \in {into.error, "Application_Error"}
        /\ Latched(t)
    BY <2>1, <2>2, ErrorIsAside
  <2>. QED
    BY <1>3, <2>1, <2>3 DEF RootSound, SourceFails
<1>. QED
  BY <1>1, <1>2, <1>3 DEF SourceFails

\* The call is entered, or refused on the spot.
LEMMA EntersSound ==
  ASSUME RootSound, Enter \/ Refuse
  PROVE  RootSound'
<1>1. pc = "idle" /\ backend \in Backend /\ IsWriter(into) /\ ~Latched(into) /\ script = <<>>
  BY DEF Enter, Refuse, RootSound
<1>2. CASE Enter
  <2>1. Validating'
    BY <1>1, <1>2, FreshCounter DEF Enter, Idle, Validating
  <2>. QED
    BY <1>1, <1>2, <2>1 DEF Enter, RootSound, IsWriter
<1>3. CASE Refuse
  <2>. DEFINE t == LatchCode(into, "Invalid_State")
  <2>1. t = [into EXCEPT !.error = "Invalid_State"]
    BY <1>1 DEF IsWriter, Components
  <2>. HIDE DEF t
  <2>2. IsWriter(t) /\ t.error = "Invalid_State"
    BY <1>1, <2>1, ErrorIsAside
  <2>3. IsWriter(Abort_Document(t)) /\ Abort_Document(t).error = "Invalid_State"
    BY <2>2, AbortPoisons
  <2>. HIDE DEF Abort_Document
  <2>4. IsWriter(into') /\ into'.error = "Invalid_State"
    BY <1>3, <2>2, <2>3 DEF Refuse, t
  <2>. QED
    BY <1>1, <1>3, <2>4 DEF Refuse, Settled, RootSound, IsWriter
<1>. QED
  BY <1>2, <1>3

\* Whatever a client's call leaves, the client can go on from it.
LEMMA ClientSound ==
  ASSUME RootSound, NEW t, IsWriter(t), Client(t)
  PROVE  RootSound'
<1>1. IsWriter(into') /\ into'.error # Raised
  BY ReturnedIsWriter DEF Client
<1>. QED
  BY <1>1 DEF Client, RootSound, IsWriter

\* What a client's call leaves is a writer.
LEMMA DriveServes ==
  ASSUME RootSound
  PROVE  /\ \A e \in ClientEvents : Served(into, WriterEvent(backend, into, e))
         /\ IsWriter(WriterFinish(backend, into))
         /\ IsWriter(Abort_Document(into)) /\ IsWriter(WriterReset(backend, into))
         /\ \A code : IsWriter([into EXCEPT !.error = code])
<1>1. backend \in Backend /\ IsWriter(into)
  BY DEF RootSound
<1>2. \A e \in ClientEvents : e \in AnyEvents
  BY EventsAssumption
<1>. QED
  BY <1>1, <1>2, EventServes, FinishServes, AbortPoisons, ResetReadies, ErrorIsAside

\* Every step.
LEMMA RootStepSound == RootSound /\ [RootNext]_rootVars => RootSound'
<1>. SUFFICES ASSUME RootSound, [RootNext]_rootVars PROVE RootSound'
  OBVIOUS
<1>1. CASE Drive
  <2>1. PICK t : IsWriter(t) /\ Client(t)
    <3>1. CASE \E e \in ClientEvents : Client(WriterEvent(backend, into, e))
      BY <3>1, DriveServes DEF Served
    <3>2. CASE Client(WriterFinish(backend, into)) \/ Client(Abort_Document(into))
               \/ Client(WriterReset(backend, into))
      BY <3>2, DriveServes
    <3>3. CASE \E c \in {NoError, "Application_Error"} : Client([into EXCEPT !.error = c])
      BY <3>3, DriveServes
    <3>. QED
      BY <1>1, <3>1, <3>2, <3>3 DEF Drive
  <2>. QED
    BY <2>1, ClientSound
<1>2. CASE Refuse \/ Enter
  BY <1>2, EntersSound
<1>3. CASE Observe
  <2>1. PICK e \in TraversalEvents : validator' = Counting!Event(validator, e)
    BY <1>3 DEF Observe
  <2>2. Validating /\ e \in AnyEvents /\ backend \in Backend
    BY <1>3, EventsAssumption DEF Observe, RootSound
  <2>. DEFINE t == Counting!Event(validator, e)
  <2>3. /\ IsCounter(t) /\ t.profile = validator.profile
        /\ t.error \in {validator.error} \cup Codes
        /\ Latched(t) \/ ~Closed(t)
    BY <2>2, CounterServes DEF Validating
  <2>. HIDE DEF t
  <2>4. Validating'
    <3>1. validator' = t /\ UNCHANGED backend
      BY <1>3, <2>1 DEF Observe, t
    <3>. QED
      BY <2>2, <2>3, <3>1 DEF Validating, IsCounter, SafeStack, Within, Capabilities
  <2>. QED
    BY <1>3, <2>4 DEF Observe, RootSound, IsWriter
<1>4. CASE EndPreflight
  BY <1>4, PreflightEnds
<1>5. CASE Emit
  BY <1>5, EmitEnds
<1>6. CASE EndWriting
  BY <1>6, WritingEnds
<1>7. CASE SourceFails \/ SourceRaises
  BY <1>7, SourceEnds
<1>8. CASE UNCHANGED rootVars
  BY <1>8 DEF rootVars, RootSound, Validating, IsWriter, IsCounter, SafeStack, Within, Capabilities
<1>. QED
  BY <1>1, <1>2, <1>3, <1>4, <1>5, <1>6, <1>7, <1>8 DEF RootNext, Serialize

\* Every call that started a traversal ends published and silent, or poisoned with the reason
\* latched or raised (serialization_adapters.adb), whatever the source does.
THEOREM OutcomeIsReportedHolds == RootSpec => OutcomeIsReported
<1>1. RootSound /\ [RootNext]_rootVars =>
        [pc # "idle" /\ pc' = "idle" =>
          \/ State(into') = "Finished" /\ ~Latched(into') /\ ~raised'
          \/ State(into') = "Poisoned" /\ (Latched(into') \/ raised')]_rootVars
  <2>. SUFFICES ASSUME RootSound, RootNext, pc # "idle", pc' = "idle"
                PROVE  \/ State(into') = "Finished" /\ ~Latched(into') /\ ~raised'
                       \/ State(into') = "Poisoned" /\ (Latched(into') \/ raised')
    BY DEF rootVars
  <2>1. CASE EndPreflight
    BY <2>1, PreflightEnds
  <2>2. CASE Emit
    BY <2>2, EmitEnds
  <2>3. CASE EndWriting
    BY <2>3, WritingEnds
  <2>4. CASE SourceFails \/ SourceRaises
    BY <2>4, SourceEnds
  <2>5. ~(Drive \/ Refuse \/ Enter \/ Observe)
    BY DEF Drive, Client, Refuse, Enter, Observe
  <2>. QED
    BY <2>1, <2>2, <2>3, <2>4, <2>5 DEF RootNext, Serialize
<1>. QED
  BY <1>1, RootInitSound, RootStepSound, PTL DEF RootSpec, OutcomeIsReported

-----------------------------------------------------------------------------
(* Seen between calls: Serialize is one step of the contract. *)

\* A client's call on the backend is a step of the contract of the interface.
LEMMA DriveRefines ==
  ASSUME RootSound, Drive
  PROVE  [Root!RootNext]_(Root!vars)
<1>1. pc = "idle" /\ pc' = "idle" /\ backend' = backend
  BY DEF Drive, Client
<1>2. backend \in Backend /\ IsWriter(into) /\ into.error # Raised
  BY DEF RootSound
<1>3. Document(backend, into)' = Document(backend, into')
  BY <1>1 DEF Document, Json!Document, Cbor!Document, Json!Complete, Cbor!Complete
<1>4. SUFFICES Obeys(backend, into, into')
  BY <1>1, <1>3 DEF Obeys, Root!RootNext, Root!Next, Root!vars, Root!Open, Root!Misuse,
    Root!Accept, Root!Refuse, Root!Publish, Root!Abort, Root!Reset, Root!SetError
<1>5. ASSUME NEW e \in ClientEvents, Client(WriterEvent(backend, into, e))
      PROVE  Obeys(backend, into, into')
  BY <1>2, <1>5, DriveServes, ServedObeys DEF Client
<1>6. CASE Client(WriterFinish(backend, into))
  BY <1>2, <1>6, FinishObeys DEF Client
<1>7. CASE Client(Abort_Document(into)) \/ Client(WriterReset(backend, into))
  BY <1>2, <1>7, ClientObeys DEF Client
<1>8. ASSUME NEW c \in {NoError, "Application_Error"}, Client([into EXCEPT !.error = c])
      PROVE  Obeys(backend, into, into')
  <2>1. [into EXCEPT !.error = c].error = c /\ c # Raised
    BY <1>2 DEF IsWriter, Components
  <2>2. into' = [into EXCEPT !.error = c]
    BY <1>8, <2>1 DEF Client, Returned
  <2>. QED
    BY <1>2, <2>2, ClientObeys
<1>. QED
  BY <1>5, <1>6, <1>7, <1>8 DEF Drive

\* So is a call of Serialize, all at once when it ends.
LEMMA CallRefines ==
  ASSUME RootSound, RootSound', Serialize
  PROVE  [Root!RootNext]_(Root!vars)
<1>1. backend \in Backend /\ IsWriter(into) /\ IsWriter(into')
  BY DEF RootSound
<1>2. backend' = backend
  BY DEF Serialize, Refuse, Enter, Observe, EndPreflight, Emit, EndWriting, SourceFails,
    SourceRaises, FailCall, RaiseCall, Settled
<1>3. pc # "idle" => Document(backend, into) = {}
  BY <1>1, StateFacts DEF RootSound, State
<1>4. pc' # "idle" => Document(backend, into') = {}
  <2>1. pc' # "idle" => State(into') # "Finished"
    BY DEF RootSound, State
  <2>. QED
    BY <1>1, <2>1, StateFacts
<1>5. CASE pc # "idle" /\ pc' # "idle"
  BY <1>2, <1>3, <1>4, <1>5 DEF Root!vars
<1>6. CASE pc # "idle" /\ pc' = "idle"
  <2>1. \/ State(into') = "Finished" /\ ~Latched(into')
        \/ State(into') = "Poisoned"
    <3>1. CASE EndPreflight
      BY <1>6, <3>1, PreflightEnds
    <3>2. CASE Emit
      BY <1>6, <3>2, EmitEnds
    <3>3. CASE EndWriting
      BY <3>3, WritingEnds
    <3>4. CASE SourceFails \/ SourceRaises
      BY <1>6, <3>4, SourceEnds
    <3>. QED
      BY <1>6, <3>1, <3>2, <3>3, <3>4 DEF Serialize, Refuse, Enter, Observe
  <2>2. /\ State(into') = "Finished" => Document(backend, into') # {}
        /\ State(into') = "Poisoned" => Document(backend, into') = {}
    BY <1>1, StateFacts
  <2>. QED
    BY <1>2, <1>3, <1>6, <2>1, <2>2 DEF Root!RootNext, Root!RootPublish, Root!RootFail
<1>7. CASE Enter
  BY <1>7 DEF Enter, Root!vars
<1>8. CASE Refuse
  <2>. DEFINE t == LatchCode(into, "Invalid_State")
  <2>1. /\ pc = "idle" /\ pc' = "idle" /\ State(into) # "Ready" /\ into.error = NoError
        /\ into' = IF State(into) = "Active" THEN Abort_Document(t) ELSE t
    BY <1>8 DEF Refuse, Settled
  <2>2. t = [into EXCEPT !.error = "Invalid_State"]
    BY <2>1 DEF IsWriter, Components
  <2>. HIDE DEF t
  <2>3. /\ IsWriter(t) /\ t.error = "Invalid_State" /\ State(t) = State(into)
        /\ Document(backend, t) = Document(backend, into)
    BY <1>1, <2>2, ErrorIsAside
  <2>4. LET u == Abort_Document(t) IN
        /\ u.error = "Invalid_State" /\ State(u) = "Poisoned" /\ Document(backend, u) = {}
    BY <2>3, AbortPoisons
  <2>. HIDE DEF Abort_Document
  <2>5. State(into) = "Active" => Document(backend, into) = {}
    BY <1>1, StateFacts
  <2>. QED
    BY <1>2, <2>1, <2>3, <2>4, <2>5 DEF Root!RootNext, Root!RootRefuse
<1>. QED
  BY <1>5, <1>6, <1>7, <1>8
  DEF Serialize, Observe, EndPreflight, Emit, EndWriting, SourceFails, SourceRaises

\* Serialize is atomic (serialization_adapters.ads, lines 17-28): on a Ready serializer it
\* publishes a document or poisons, on any other it refuses; nothing of a traversal shows.
THEOREM SerializeIsAtomicHolds == RootSpec => SerializeIsAtomic
<1>1. RootInit => Root!Init
  <2>. SUFFICES ASSUME RootInit PROVE Root!Init
    OBVIOUS
  <2>1. PICK room \in 1..MaxRoom, x \in Json!Exhaustions : into = Fresh(backend, room, x)
    BY DEF RootInit
  <2>2. room \in Nat /\ backend \in Backend /\ pc = "idle"
    BY BoundsAssumption DEF RootInit
  <2>3. IsOpen(into) /\ into.root_written = FALSE
    BY <2>1, <2>2, FreshIsWriter
  <2>4. State(into) = "Ready" /\ into.error = NoError /\ IsWriter(into)
    BY <2>3 DEF IsOpen, State
  <2>. QED
    BY <2>2, <2>4, StateFacts DEF Root!Init
<1>2. RootSound /\ RootSound' /\ [RootNext]_rootVars => [Root!RootNext]_(Root!vars)
  <2>1. CASE UNCHANGED rootVars
    BY <2>1 DEF rootVars, Root!vars, State, Document, Json!Document, Cbor!Document, Json!Complete,
      Cbor!Complete
  <2>. QED
    BY <2>1, DriveRefines, CallRefines DEF RootNext
<1>. QED
  BY <1>1, <1>2, RootInitSound, RootStepSound, PTL DEF RootSpec, SerializeIsAtomic, Root!RootSpec

-----------------------------------------------------------------------------
(* A source that repeats itself. *)

\* The states of the Counter along a traversal it accepts, from `first`.
Run(run, events, first) ==
  /\ run[0] = first /\ run[0].error = NoError
  /\ \A i \in 1..Len(events) :
       run[i] = Counting!Event(run[i - 1], events[i]) /\ run[i].error = NoError

Accepts(events, first, last) ==
  \E run : Run(run, events, first) /\ run[Len(events)] = last

\* In the preflight the Counter has accepted the calls noted so far; in the real pass it has
\* accepted what is left of them from a state like the writer's, and the end of the document.
Repeats ==
  /\ script \in Seq(AnyEvents) /\ stable \in BOOLEAN
  /\ pc = "preflight" /\ stable = TRUE /\ ~Latched(validator) =>
       Accepts(script, Idle(NoError), validator)
  /\ pc = "writing" /\ stable = TRUE /\ ~Latched(into) =>
       \E c, d : /\ IsCounter(c) /\ c.profile = Capabilities(backend) /\ Alike(c, into)
                 /\ Accepts(script, c, d) /\ ~Latched(Counting!Finish_Document(d))
  /\ pc = "writing" /\ stable = TRUE =>
       into.error = NoError \/ (into.error = "Capacity_Exceeded" /\ into.length = into.room)

\* Nothing has been called yet.
LEMMA AcceptsNothing ==
  ASSUME NEW c, c.error = NoError
  PROVE  Accepts(<<>>, c, c)
<1>. DEFINE run == [i \in {0} |-> c]
<1>1. Run(run, <<>>, c) /\ run[Len(<<>>)] = c
  BY EmptySeq DEF Run
<1>. QED
  BY <1>1 DEF Accepts

\* One more call was accepted.
LEMMA AcceptsMore ==
  ASSUME NEW events \in Seq(AnyEvents), NEW e \in AnyEvents, NEW c, NEW d,
         Accepts(events, c, d), Counting!Event(d, e).error = NoError
  PROVE  Accepts(Append(events, e), c, Counting!Event(d, e))
<1>. DEFINE n == Len(events)
            more == Append(events, e)
            last == Counting!Event(d, e)
<1>1. PICK run : Run(run, events, c) /\ run[n] = d
  BY DEF Accepts
<1>2. /\ n \in Nat /\ Len(more) = n + 1 /\ more[n + 1] = e
      /\ \A i \in 1..n : more[i] = events[i]
  BY LenProperties, AppendProperties
<1>. DEFINE longer == [i \in 0..(n + 1) |-> IF i = n + 1 THEN last ELSE run[i]]
<1>3. /\ longer[n + 1] = last /\ longer[n] = d /\ longer[0] = c
      /\ \A i \in 1..n : longer[i] = run[i] /\ longer[i - 1] = run[i - 1]
  BY <1>1, <1>2 DEF Run
<1>. HIDE DEF n, more, last, longer
<1>4. ASSUME NEW i \in 1..(n + 1)
      PROVE  longer[i] = Counting!Event(longer[i - 1], more[i]) /\ longer[i].error = NoError
  <2>1. CASE i = n + 1
    BY <1>2, <1>3, <2>1 DEF last
  <2>2. CASE i # n + 1
    <3>1. i \in 1..n
      BY <1>2, <2>2
    <3>. QED
      BY <1>1, <1>2, <1>3, <3>1 DEF Run, n
  <2>. QED
    BY <2>1, <2>2
<1>5. Run(longer, more, c)
  BY <1>1, <1>2, <1>3, <1>4 DEF Run
<1>. QED
  BY <1>2, <1>3, <1>5 DEF Accepts, more, last

\* The first call is made again.
LEMMA AcceptsLess ==
  ASSUME NEW events \in Seq(AnyEvents), events # <<>>, NEW c, NEW d, Accepts(events, c, d)
  PROVE  LET t == Counting!Event(c, Head(events)) IN
         t.error = NoError /\ Accepts(Tail(events), t, d)
<1>. DEFINE n == Len(events)
            less == Tail(events)
            t == Counting!Event(c, Head(events))
<1>1. PICK run : Run(run, events, c) /\ run[n] = d
  BY DEF Accepts
<1>2. /\ n \in Nat \ {0} /\ Len(less) = n - 1 /\ Head(events) = events[1]
      /\ \A i \in 1..(n - 1) : less[i] = events[i + 1]
  BY EmptySeq, LenProperties, HeadTailProperties
<1>3. run[1] = t /\ t.error = NoError
  <2>1. 1 \in 1..n /\ 1 - 1 = 0
    BY <1>2
  <2>2. run[1] = Counting!Event(run[1 - 1], events[1]) /\ run[1].error = NoError
    BY <1>1, <2>1 DEF Run
  <2>. QED
    BY <1>1, <1>2, <2>1, <2>2 DEF Run
<1>. DEFINE shorter == [i \in 0..(n - 1) |-> run[i + 1]]
<1>4. /\ shorter[0] = t /\ shorter[n - 1] = d
      /\ \A i \in 1..(n - 1) : shorter[i] = run[i + 1] /\ shorter[i - 1] = run[i]
  BY <1>1, <1>2, <1>3
<1>. HIDE DEF n, less, t, shorter
<1>5. ASSUME NEW i \in 1..(n - 1)
      PROVE  shorter[i] = Counting!Event(shorter[i - 1], less[i]) /\ shorter[i].error = NoError
  <2>1. i + 1 \in 1..n /\ (i + 1) - 1 = i
    BY <1>2
  <2>2. run[i + 1] = Counting!Event(run[i], events[i + 1]) /\ run[i + 1].error = NoError
    BY <1>1, <2>1 DEF Run, n
  <2>. QED
    BY <1>2, <1>4, <2>2
<1>6. Run(shorter, less, t)
  BY <1>2, <1>3, <1>4, <1>5 DEF Run
<1>. QED
  BY <1>2, <1>3, <1>4, <1>6 DEF Accepts, less, t

\* All have been made.
LEMMA AcceptsEnd ==
  ASSUME NEW c, NEW d, NEW events, Accepts(events, c, d)
  PROVE  c.error = NoError /\ (events = <<>> => c = d)
  BY EmptySeq DEF Accepts, Run

\* Nothing is being repeated between two calls.
LEMMA SettledRepeats ==
  ASSUME pc' = "idle", script' = <<>>, stable' \in BOOLEAN
  PROVE  Repeats'
  BY EmptySeq DEF Repeats

\* A call noted in the preflight.
LEMMA ObserveRepeats ==
  ASSUME RootSound, Repeats, Observe
  PROVE  Repeats'
<1>1. PICK e \in TraversalEvents :
        /\ validator' = Counting!Event(validator, e)
        /\ script' = IF stable /\ ~Latched(validator) THEN Append(script, e) ELSE script
  BY DEF Observe
<1>2. /\ pc = "preflight" /\ pc' = pc /\ stable' = stable /\ backend' = backend
      /\ e \in AnyEvents /\ backend \in Backend /\ Validating
  BY EventsAssumption DEF Observe, RootSound
<1>3. script \in Seq(AnyEvents) /\ stable \in BOOLEAN
  BY DEF Repeats
<1>4. script' \in Seq(AnyEvents)
  BY <1>1, <1>2, <1>3, AppendProperties
<1>5. ASSUME stable = TRUE, ~Latched(validator')
      PROVE  Accepts(script', Idle(NoError), validator')
  <2>1. ~Latched(validator)
    BY <1>1, <1>2, <1>5, CounterServes DEF Validating
  <2>2. Accepts(script, Idle(NoError), validator)
    BY <1>2, <1>5, <2>1 DEF Repeats
  <2>3. script' = Append(script, e)
    BY <1>1, <1>5, <2>1
  <2>. QED
    BY <1>1, <1>2, <1>3, <1>5, <2>2, <2>3, AcceptsMore
<1>6. Idle(NoError)' = Idle(NoError)
  BY <1>2 DEF Idle, Capabilities
<1>. QED
  BY <1>2, <1>3, <1>4, <1>5, <1>6 DEF Repeats

\* The preflight succeeds: the real pass begins where the Counter did.
LEMMA EndPreflightRepeats ==
  ASSUME RootSound, Repeats, EndPreflight
  PROVE  Repeats'
<1>. DEFINE v == Counting!Finish_Document(validator)
            c == Idle(NoError)
<1>1. CASE Latched(v) /\ FailCall(v.error)
  BY <1>1, SettledRepeats DEF FailCall, Settled
<1>2. CASE ~Latched(v) /\ pc' = "writing" /\ UNCHANGED <<backend, into, stable, script, raised>>
  <2>1. /\ pc = "preflight" /\ State(into) = "Ready" /\ into.error = NoError
        /\ backend \in Backend /\ IsWriter(into)
    BY DEF EndPreflight, RootSound
  <2>2. ~Latched(validator)
    BY <1>2 DEF Counting!Finish_Document, Counting!FinishWith, Counting!Guarded,
      Counting!Latched, Counting!NoError
  <2>3. IsOpen(into) /\ into.stack = <<>> /\ ~into.root_written
    BY <2>1, StateFacts DEF IsOpen
  <2>4. Alike(c, into)
    BY <2>1, <2>3, FreshAlike DEF Idle
  <2>5. IsCounter(c) /\ c.profile = Capabilities(backend)
    BY <2>1, FreshCounter DEF Idle
  <2>6. stable = TRUE => Accepts(script, c, validator)
    BY <2>1, <2>2 DEF Repeats
  <2>. HIDE DEF c
  <2>7. Capabilities(backend)' = Capabilities(backend)
    BY <1>2 DEF Capabilities
  <2>8. stable = TRUE =>
          \E f, d : /\ IsCounter(f) /\ f.profile = Capabilities(backend) /\ Alike(f, into)
                    /\ Accepts(script, f, d) /\ ~Latched(Counting!Finish_Document(d))
    BY <1>2, <2>4, <2>5, <2>6
  <2>. QED
    BY <1>2, <2>1, <2>7, <2>8 DEF Repeats
<1>. QED
  BY <1>1, <1>2 DEF EndPreflight

\* A call made again in the real pass: the Counter accepted it, so the writer has no reason
\* to refuse it but its room.
LEMMA EmitRepeats ==
  ASSUME RootSound, Repeats, Emit
  PROVE  Repeats'
<1>1. PICK e \in TraversalEvents :
        /\ stable => script # <<>> /\ e = Head(script)
        /\ \E t \in {WriterEvent(backend, into, e)} :
             \/ t.error = Raised /\ RaiseCall(NoError)
             \/ /\ t.error # Raised /\ into' = t
                /\ script' = IF stable THEN Tail(script) ELSE <<>>
                /\ UNCHANGED <<backend, validator, pc, stable, raised>>
  BY DEF Emit
<1>2. /\ pc = "writing" /\ e \in AnyEvents /\ backend \in Backend
      /\ script \in Seq(AnyEvents) /\ stable \in BOOLEAN
  BY EventsAssumption DEF Emit, RootSound, Repeats
<1>. DEFINE t == WriterEvent(backend, into, e)
<1>3. CASE RaiseCall(NoError)
  BY <1>3, SettledRepeats DEF RaiseCall, Settled
<1>4. CASE /\ t.error # Raised /\ into' = t
           /\ script' = IF stable THEN Tail(script) ELSE <<>>
           /\ UNCHANGED <<backend, validator, pc, stable, raised>>
  <2>1. CASE stable = FALSE
    <3>1. script' = <<>> /\ stable' = FALSE /\ pc' = "writing"
      BY <1>2, <1>4, <2>1
    <3>. QED
      BY <3>1, EmptySeq DEF Repeats
  <2>2. CASE stable = TRUE
    <3>1. /\ script # <<>> /\ e = Head(script) /\ script' = Tail(script)
          /\ script' \in Seq(AnyEvents) /\ stable' = TRUE /\ pc' = "writing"
          /\ Capabilities(backend)' = Capabilities(backend)
      BY <1>1, <1>2, <1>4, <2>2, HeadTailProperties DEF Capabilities
    <3>2. CASE Latched(into)
      <4>1. t = into
        BY <1>2, <3>2, EventServes DEF RootSound, Served
      <4>. QED
        BY <1>2, <1>4, <2>2, <3>1, <3>2, <4>1 DEF Repeats
    <3>3. CASE ~Latched(into)
      <4>1. PICK c, d : /\ IsCounter(c) /\ c.profile = Capabilities(backend) /\ Alike(c, into)
                        /\ Accepts(script, c, d) /\ ~Latched(Counting!Finish_Document(d))
        BY <1>2, <2>2, <3>3 DEF Repeats
      <4>. DEFINE f == Counting!Event(c, e)
      <4>2. f.error = NoError /\ Accepts(script', f, d) /\ c.error = NoError
        BY <1>2, <3>1, <4>1, AcceptsLess, AcceptsEnd
      <4>3. IsCounter(f) /\ f.profile = c.profile /\ Parity(f, t)
        BY <1>2, <3>3, <4>1, <4>2, EventParity
      <4>4. Lost(t) \/ (t.error = NoError /\ Alike(f, t))
        BY <4>2, <4>3 DEF Parity
      <4>. HIDE DEF f, t
      <4>5. t.error = NoError \/ (t.error = "Capacity_Exceeded" /\ t.length = t.room)
        BY <1>4, <4>4 DEF Lost, OutOfRoom
      <4>6. ~Latched(t) =>
              \E g, h : /\ IsCounter(g) /\ g.profile = Capabilities(backend) /\ Alike(g, t)
                        /\ Accepts(script', g, h) /\ ~Latched(Counting!Finish_Document(h))
        BY <4>1, <4>2, <4>3, <4>4 DEF Lost
      <4>. QED
        BY <1>4, <3>1, <4>5, <4>6 DEF Repeats
    <3>. QED
      BY <3>2, <3>3
  <2>. QED
    BY <1>2, <2>1, <2>2
<1>. QED
  BY <1>1, <1>3, <1>4

\* Every step.
LEMMA StepRepeats == RootSound /\ Repeats /\ [RootNext]_rootVars => Repeats'
<1>. SUFFICES ASSUME RootSound, Repeats, [RootNext]_rootVars PROVE Repeats'
  OBVIOUS
<1>1. stable \in BOOLEAN /\ (pc = "idle" => script = <<>>)
  BY DEF RootSound, Repeats
<1>2. CASE Drive \/ Refuse
  BY <1>1, <1>2, SettledRepeats DEF Drive, Client, Refuse, Settled
<1>3. CASE Enter
  <2>1. /\ pc' = "preflight" /\ script' = <<>> /\ stable' \in BOOLEAN
        /\ validator' = Idle(NoError) /\ backend' = backend /\ backend \in Backend
    BY <1>1, <1>3 DEF Enter, RootSound
  <2>2. Idle(NoError)' = Idle(NoError) /\ Idle(NoError).error = NoError
    BY <2>1, FreshCounter DEF Idle, Capabilities
  <2>. QED
    BY <2>1, <2>2, AcceptsNothing, EmptySeq DEF Repeats
<1>4. CASE Observe
  BY <1>4, ObserveRepeats
<1>5. CASE EndPreflight
  BY <1>5, EndPreflightRepeats
<1>6. CASE Emit
  BY <1>6, EmitRepeats
<1>7. CASE EndWriting \/ SourceRaises
  <2>1. CASE pc' = "idle" /\ script' = <<>> /\ stable' = TRUE
    BY <2>1, SettledRepeats
  <2>. QED
    BY <1>7, <2>1 DEF EndWriting, SourceRaises, FailCall, RaiseCall, Settled
<1>8. CASE SourceFails
  <2>1. CASE pc = "preflight"
    <3>1. /\ validator' = LatchCode(validator, "Application_Error") /\ pc' = pc
          /\ UNCHANGED <<script, stable>>
      BY <1>8, <2>1 DEF SourceFails
    <3>2. Latched(validator')
      BY <2>1, <3>1 DEF RootSound, Validating, IsCounter, CounterParts
    <3>. QED
      BY <2>1, <3>1, <3>2 DEF Repeats
  <2>2. CASE pc = "writing" /\ stable = FALSE /\ UNCHANGED <<pc, stable, script>>
    BY <2>2 DEF Repeats
  <2>. QED
    BY <1>1, <1>8, <2>1, <2>2 DEF SourceFails
<1>9. CASE UNCHANGED rootVars
  BY <1>9 DEF rootVars, Repeats, Idle, Capabilities
<1>. QED
  BY <1>2, <1>3, <1>4, <1>5, <1>6, <1>7, <1>8, <1>9 DEF RootNext, Serialize

\* What holds of every call.
LEMMA CallsHold == RootSpec => [](RootSound /\ Repeats)
<1>1. RootInit => RootSound /\ Repeats
  BY RootInitSound, EmptySeq DEF RootInit, Repeats
<1>. QED
  BY <1>1, RootStepSound, StepRepeats, PTL DEF RootSpec

\* Once a source that repeats itself passed the preflight, the real pass fails for want of room
\* only (serialization.ads, lines 28-30), however long the traversal.
THEOREM OnlyStorageFailsHolds == RootSpec => []OnlyStorageFails
<1>1. RootSound /\ Repeats => OnlyStorageFails
  <2>. SUFFICES ASSUME Repeats, pc = "writing", stable PROVE
         into.error = NoError \/ (into.error = "Capacity_Exceeded" /\ into.length = into.room)
    BY DEF OnlyStorageFails
  <2>1. stable = TRUE
    BY DEF Repeats
  <2>. QED
    BY <2>1 DEF Repeats
<1>. QED
  BY <1>1, CallsHold, PTL

\* ... and if nothing failed, Finish_Document publishes its document: what the Counter found
\* balanced, the writer finds balanced.
THEOREM AcceptedIsPublishedHolds == RootSpec => AcceptedIsPublished
<1>1. RootSound /\ Repeats /\ [RootNext]_rootVars =>
        [EndWriting /\ stable /\ ~Latched(into) => State(into') = "Finished"]_rootVars
  <2>. SUFFICES ASSUME RootSound, Repeats, EndWriting, stable, ~Latched(into)
                PROVE  State(into') = "Finished"
    BY DEF rootVars
  <2>. DEFINE t == WriterFinish(backend, into)
  <2>1. /\ pc = "writing" /\ script = <<>> /\ stable = TRUE /\ backend \in Backend
        /\ IsWriter(into)
    BY DEF EndWriting, RootSound, Repeats
  <2>2. PICK c, d : /\ IsCounter(c) /\ c.profile = Capabilities(backend) /\ Alike(c, into)
                    /\ Accepts(script, c, d) /\ ~Latched(Counting!Finish_Document(d))
    BY <2>1 DEF Repeats
  <2>3. c.error = NoError /\ c = d
    BY <2>1, <2>2, AcceptsEnd
  <2>4. State(t) = "Finished"
    <3>. HIDE DEF t
    <3>. QED
      BY <2>1, <2>2, <2>3, FinishParity DEF t
  <2>5. /\ IsWriter(t)
        /\ IsOpen(into) =>
             \/ t.failed /\ ~t.finalized /\ t.error = "Invalid_State"
             \/ t.finalized /\ ~t.failed /\ t.error = NoError
    BY <2>1, FinishServes
  <2>. HIDE DEF t
  <2>6. IsOpen(into)
    BY <2>1 DEF IsOpen, RootSound
  <2>7. ~Latched(t)
    BY <2>4, <2>5, <2>6 DEF State
  <2>. QED
    BY <2>4, <2>7 DEF EndWriting, t
<1>. QED
  BY <1>1, CallsHold, PTL DEF RootSpec, AcceptedIsPublished

-----------------------------------------------------------------------------
(* What is published. *)

\* Whatever a step makes of the backend, its output is what its frames say.
LEMMA StepFaithful ==
  RootSound /\ Faithful(backend, into) /\ [RootNext]_rootVars => Faithful(backend, into)'
<1>. SUFFICES ASSUME RootSound, Faithful(backend, into), [RootNext]_rootVars
              PROVE  Faithful(backend, into)'
  OBVIOUS
<1>1. backend \in Backend /\ IsWriter(into)
  BY DEF RootSound
<1>2. /\ \A e \in AnyEvents : Faithful(backend, WriterEvent(backend, into, e))
      /\ Faithful(backend, WriterFinish(backend, into))
      /\ Faithful(backend, WriterReset(backend, into))
      /\ Faithful(backend, Abort_Document(into))
      /\ \A c : /\ Faithful(backend, LatchCode(into, c))
                /\ Faithful(backend, [into EXCEPT !.error = c])
                /\ Faithful(backend, [Abort_Document(into) EXCEPT !.error = c])
  BY <1>1, EventIsFaithful, FinishIsFaithful, UnusedIsFaithful, ClientIsFaithful
<1>3. SUFFICES backend' = backend /\ Faithful(backend, into')
  BY DEF Faithful, Spelled
<1>4. \A e \in TraversalEvents \cup ClientEvents : e \in AnyEvents
  BY EventsAssumption
<1>5. CASE Drive
  <2>1. ASSUME NEW t, IsWriter(t), Faithful(backend, t), Client(t)
        PROVE  backend' = backend /\ Faithful(backend, into')
    BY <2>1, ClientIsFaithful DEF Client
  <2>2. CASE \E e \in ClientEvents : Client(WriterEvent(backend, into, e))
    BY <1>2, <1>4, <2>1, <2>2, DriveServes DEF Served
  <2>3. CASE Client(WriterFinish(backend, into)) \/ Client(Abort_Document(into))
             \/ Client(WriterReset(backend, into))
    BY <1>2, <2>1, <2>3, DriveServes
  <2>4. CASE \E c \in {NoError, "Application_Error"} : Client([into EXCEPT !.error = c])
    BY <1>2, <2>1, <2>4, DriveServes
  <2>. QED
    BY <1>5, <2>2, <2>3, <2>4 DEF Drive
<1>6. CASE Refuse
  <2>. DEFINE t == LatchCode(into, "Invalid_State")
  <2>1. backend' = backend /\ into' \in {t, Abort_Document(t)} /\ ~Latched(into)
    BY <1>6 DEF Refuse, Settled
  <2>2. t = [into EXCEPT !.error = "Invalid_State"]
    BY <1>1, <2>1 DEF IsWriter, Components
  <2>3. IsWriter(t)
    BY <1>1, <2>2, ErrorIsAside
  <2>4. Faithful(backend, t)
    BY <1>2
  <2>. HIDE DEF t
  <2>5. Faithful(backend, Abort_Document(t))
    BY <2>3, <2>4, ClientIsFaithful
  <2>. QED
    BY <2>1, <2>4, <2>5
<1>7. CASE UNCHANGED <<backend, into>>
  BY <1>7
<1>8. ASSUME NEW c, FailCall(c) \/ RaiseCall(c)
      PROVE  backend' = backend /\ Faithful(backend, into')
  BY <1>2, <1>8 DEF FailCall, RaiseCall, Settled
<1>9. CASE Enter \/ Observe \/ EndPreflight
  BY <1>7, <1>8, <1>9 DEF Enter, Observe, EndPreflight
<1>10. CASE Emit
  <2>1. PICK e \in TraversalEvents :
          \/ RaiseCall(NoError)
          \/ into' = WriterEvent(backend, into, e) /\ backend' = backend
    BY <1>10 DEF Emit
  <2>. QED
    BY <1>2, <1>4, <1>8, <2>1
<1>11. CASE EndWriting
  <2>1. \/ FailCall(WriterFinish(backend, into).error)
        \/ into' = WriterFinish(backend, into) /\ backend' = backend
    BY <1>11 DEF EndWriting, Settled
  <2>. QED
    BY <1>2, <1>8, <2>1
<1>12. CASE SourceFails \/ SourceRaises
  BY <1>2, <1>7, <1>8, <1>12 DEF SourceFails, SourceRaises
<1>13. CASE UNCHANGED rootVars
  BY <1>7, <1>13 DEF rootVars
<1>. QED
  BY <1>5, <1>6, <1>9, <1>10, <1>11, <1>12, <1>13 DEF RootNext, Serialize

\* Whatever the source does, however the calls of the client and of Serialize follow each other,
\* a published document is one whole value of its format, and nothing is published while a call
\* is under way.
THEOREM PublishedIsWholeHolds == RootSpec => []PublishedIsWhole
<1>1. RootInit => Faithful(backend, into)
  BY UnusedIsFaithful DEF RootInit
<1>2. RootSound /\ Faithful(backend, into) => PublishedIsWhole
  <2>. SUFFICES ASSUME RootSound, Faithful(backend, into), NEW d \in Document(backend, into)
                PROVE  Whole(backend, d) /\ pc = "idle"
    BY DEF PublishedIsWhole
  <2>1. backend \in Backend /\ IsWriter(into)
    BY DEF RootSound
  <2>2. State(into) = "Finished"
    BY <2>1, StateFacts
  <2>3. pc = "idle"
    BY <2>2 DEF RootSound, State
  <2>. QED
    BY <2>1, <2>3, PublishedIsFaithful
<1>. QED
  BY <1>1, <1>2, RootInitSound, RootStepSound, StepFaithful, PTL DEF RootSpec
=============================================================================
