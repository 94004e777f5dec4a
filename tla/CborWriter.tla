------------------------------ MODULE CborWriter ------------------------------
(***************************************************************************)
(* Flyology_Serde.Serializers.CBOR: the bounded and the allocating writer. *)
(*                                                                         *)
(* The buffer is abstracted to its length, counted in Emit calls, and to   *)
(* the state it leaves the reference reader of CborGrammar in.  `room` and *)
(* `exhaustion` are those of JsonWriter; a Constraint_Error of the         *)
(* allocating buffer is reported as the bounded writer reports its limit.  *)
(***************************************************************************)
EXTENDS SerializerTypes

Grammar == INSTANCE CborGrammar

Exhaustions == {"Capacity_Exceeded", "Storage_Error"}

Fresh(room, exhaustion, error) ==
  [stack |-> <<>>, root_written |-> FALSE, failed |-> FALSE, finalized |-> FALSE,
   length |-> 0, text |-> Grammar!Start, room |-> room, exhaustion |-> exhaustion,
   error |-> error]

Capabilities ==
  [unknown_container_lengths |-> TRUE, byte_values |-> TRUE, nonfinite_float_64 |-> TRUE,
   signed_float_zero |-> TRUE, arbitrary_map_keys |-> TRUE, lossless_optionals |-> TRUE]

-----------------------------------------------------------------------------
(* Helpers of the writer. *)

Fail(s, c) == [LatchCode(s, c) EXCEPT !.failed = TRUE, !.finalized = FALSE]

EmitBounded(s) == Fail(s, "Capacity_Exceeded")

EmitAllocating(s) == [s EXCEPT !.failed = TRUE, !.error = Raised]

\* Emit appends one head, or one piece of a string's content.
Emit(s, token) ==
  IF Latched(s) \/ s.failed THEN s
  ELSE IF s.length < s.room
       THEN [s EXCEPT !.length = @ + 1, !.text = Grammar!ReadToken(@, token)]
       ELSE IF s.exhaustion = "Capacity_Exceeded" THEN EmitBounded(s) ELSE EmitAllocating(s)

Emit_Head(s, head, count) == Emit(s, [head |-> head, count |-> count])

Content(s, pieces) ==
  LET one == Emit_Head(s, "content", 0)
  IN  IF pieces = 0 THEN s
      ELSE IF pieces = 1 THEN one ELSE Emit_Head(one, "content", 0)

\* Content goes out through a buffer of 256 bytes: a longer text takes two pieces.
Emit_Text(s, text) ==
  LET pieces == IF text = "long" THEN 2 ELSE 1
  IN  IF ValidText(text)
      THEN Content(Emit_Head(s, "string", pieces), pieces)
      ELSE Fail(s, "Invalid_Text")

BeginsKey(f) == f.kind = "map" /\ ~f.waiting

Before_Value(s) ==
  LET f == Top(s) IN
  Guarded(s,
    IF s.stack = <<>>
    THEN IF s.root_written THEN Fail(s, "Invalid_State") ELSE [s EXCEPT !.root_written = TRUE]
    ELSE IF f.kind \in {"record", "variant"}
    THEN IF f.waiting THEN s ELSE Fail(s, "Invalid_State")
    ELSE IF (f.kind # "map" \/ BeginsKey(f)) /\ Full(f) THEN Fail(s, "Invalid_State")
    ELSE IF f.kind = "map" THEN SetTop(s, [f EXCEPT !.child_is_value = f.waiting]) ELSE s)

\* The item is complete: Increment, which fails at Natural'Last.
Counted(s) ==
  LET f == [Top(s) EXCEPT !.waiting = FALSE]
  IN  IF f.observed = NaturalLast
      THEN Fail(SetTop(s, f), "Capacity_Exceeded")
      ELSE SetTop(s, [f EXCEPT !.observed = @ + 1])

\* A slip: every child of a map counts as an entry.
After_ValueOfAnyChild(s) ==
  IF Latched(s) \/ s.failed \/ s.stack = <<>> THEN s ELSE Counted(s)

After_Value(s) ==
  LET f == Top(s) IN
  IF Latched(s) \/ s.failed \/ s.stack = <<>> THEN s
  ELSE IF f.kind = "map" /\ ~f.child_is_value THEN SetTop(s, [f EXCEPT !.waiting = TRUE])
  ELSE Counted(s)

Push(s, kind, length) ==
  IF Latched(s) THEN s
  ELSE IF Len(s.stack) = MaxSupportedNesting THEN Fail(s, "Depth_Exceeded")
  ELSE PushFrame(s, Frame(kind, length))

\* A slip: the break goes out whatever was declared.
PopWithBreak(s, kind) ==
  Guarded(s,
    IF s.stack = <<>> \/ Unclosable(Top(s), kind)
    THEN Fail(s, "Invalid_State")
    ELSE LET t == Emit_Head(s, "break", 0)
         IN  IF Latched(t) THEN t ELSE After_Value(PopFrame(t)))

\* Only a container of unknown length needs its break.
Pop(s, kind) ==
  Guarded(s,
    IF s.stack = <<>> \/ Unclosable(Top(s), kind)
    THEN Fail(s, "Invalid_State")
    ELSE LET t == IF Top(s).known THEN s ELSE Emit_Head(s, "break", 0)
         IN  IF Latched(t) THEN t ELSE After_Value(PopFrame(t)))

Complete(s) == s.finalized /\ ~s.failed

-----------------------------------------------------------------------------
(* The events. *)

\* Put_Null, Put_Boolean, Put_Signed and Put_Unsigned.
Put_Scalar(s) == After_Value(Emit_Head(Before_Value(s), "scalar", 0))

\* Every category of float has its own bits.
Put_Float_64(s, value) == Put_Scalar(s)

Put_Text(s, text) ==
  Guarded(s, IF ValidText(text)
             THEN After_Value(Emit_Text(Before_Value(s), text))
             ELSE Fail(s, "Invalid_Text"))

\* The content of a byte string is one piece, or none when it is empty.
Put_Bytes(s, pieces) ==
  After_Value(Content(Emit_Head(Before_Value(s), "string", pieces), pieces))

\* The presence marker is the first element of an array.
Begin_Optional(s, present) ==
  LET p == IF present THEN 1 ELSE 0
      opened == Emit_Head(Before_Value(s), "array", 1 + p)
  IN  Push(Emit_Head(opened, "scalar", 0), "optional", Known_Length(p))
End_Optional(s) == Pop(s, "optional")

\* The head of a sequence or a map gives its length, or says that a break will follow.
Opened(s, head, start, length) ==
  IF length.known THEN Emit_Head(s, head, length.length) ELSE Emit_Head(s, start, 0)

Begin_Sequence(s, length) ==
  Push(Opened(Before_Value(s), "array", "array_start", length), "sequence", length)
End_Sequence(s) == Pop(s, "sequence")

Begin_Map(s, length) ==
  Push(Opened(Before_Value(s), "map", "map_start", length), "map", length)
End_Map(s) == Pop(s, "map")

Begin_Record(s, count) ==
  Push(Emit_Head(Before_Value(s), "map", count), "record", Known_Length(count))
End_Record(s) == Pop(s, "record")

Put_Field(s, name) ==
  Guarded(s,
    IF ~ValidText(name) THEN Fail(s, "Invalid_Text")
    ELSE IF s.stack = <<>> \/ ~TakesField(Top(s)) THEN Fail(s, "Invalid_State")
    ELSE LET t == Emit_Text(s, name)
         IN  IF Latched(t) THEN t ELSE SetTop(t, [Top(t) EXCEPT !.waiting = TRUE]))

Put_Enumeration(s, literal) == Put_Text(s, literal)

\* An array of the alternative's name and the map of its fields.
Begin_Variant(s, alternative, count) ==
  Guarded(s,
    IF ~ValidText(alternative)
    THEN Fail(s, "Invalid_Text")
    ELSE LET named == Emit_Text(Emit_Head(Before_Value(s), "array", 2), alternative)
         IN  Push(Emit_Head(named, "map", count), "variant", Known_Length(count)))
End_Variant(s) == Pop(s, "variant")

Finish_Document(s) == FinishWith(s, Fail)

\* The event `e` of a traversal, for the modules that compose a writer with its source.
Event(s, e) ==
  CASE e.op = "Put_Scalar" -> Put_Scalar(s)
    [] e.op = "Put_Float_64" -> Put_Float_64(s, e.value)
    [] e.op = "Put_Text" -> Put_Text(s, e.text)
    [] e.op = "Put_Bytes" -> Put_Bytes(s, 1)
    [] e.op = "Put_Enumeration" -> Put_Enumeration(s, e.text)
    [] e.op = "Put_Field" -> Put_Field(s, e.text)
    [] e.op = "Begin_Optional" -> Begin_Optional(s, e.present)
    [] e.op = "Begin_Sequence" -> Begin_Sequence(s, e.length)
    [] e.op = "Begin_Map" -> Begin_Map(s, e.length)
    [] e.op = "Begin_Record" -> Begin_Record(s, e.count)
    [] e.op = "Begin_Variant" -> Begin_Variant(s, e.text, e.count)
    [] e.op = "End_Optional" -> End_Optional(s)
    [] e.op = "End_Sequence" -> End_Sequence(s)
    [] e.op = "End_Map" -> End_Map(s)
    [] e.op = "End_Record" -> End_Record(s)
    [] e.op = "End_Variant" -> End_Variant(s)

-----------------------------------------------------------------------------
(* Between two documents. *)

Reset_Writer(s) ==
  [s EXCEPT !.stack = <<>>, !.root_written = FALSE, !.failed = FALSE, !.finalized = FALSE,
            !.length = 0, !.text = Grammar!Start]

\* What Copy_Output and Output hand out: nothing before publication, then the buffer.
Document(s) == IF Complete(s) THEN {s.text} ELSE {}

-----------------------------------------------------------------------------
(* The output. *)

\* Frame i has emitted, or has in the frame above it, the last item it declared.
AllBegun(s, i) ==
  LET f == s.stack[i]
      inner == i < Len(s.stack)
  IN  /\ f.known
      /\ f.expected = IF inner THEN f.observed + 1 ELSE f.observed
      /\ inner /\ f.kind = "map" => f.child_is_value

\* What was emitted is the beginning of a CBOR item, and it is a whole one exactly when
\* every open container has begun all the items it declared.
Follows(s) ==
  /\ ~s.text.bad
  /\ Grammar!Whole(s.text) = (s.root_written /\ \A i \in DOMAIN s.stack : AllBegun(s, i))
=============================================================================
