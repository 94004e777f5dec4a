----------------------------- MODULE JsonWriter -----------------------------
(***************************************************************************)
(* Flyology_Serde.Serializers.JSON: the bounded and the allocating writer. *)
(*                                                                         *)
(* The buffer is abstracted to its length, counted in Emit calls, and to   *)
(* the state it leaves the reference reader of JsonGrammar in.  `room` is  *)
(* the Capacity of the bounded writer or the memory the allocating one can *)
(* still get, and `exhaustion` what Emit does when it runs out.            *)
(***************************************************************************)
EXTENDS SerializerTypes

Grammar == INSTANCE JsonGrammar

Exhaustions == {"Capacity_Exceeded", "Storage_Error"}

Fresh(room, exhaustion, error) ==
  [stack |-> <<>>, root_written |-> FALSE, failed |-> FALSE, finalized |-> FALSE,
   length |-> 0, text |-> Grammar!Start, room |-> room, exhaustion |-> exhaustion,
   error |-> error]

Capabilities ==
  [unknown_container_lengths |-> TRUE, byte_values |-> TRUE, nonfinite_float_64 |-> FALSE,
   signed_float_zero |-> TRUE, arbitrary_map_keys |-> TRUE, lossless_optionals |-> TRUE]

-----------------------------------------------------------------------------
(* Helpers of the writer. *)

\* A slip: a failure is latched and the writer goes on.
FailUnpoisoned(s, c) == LatchCode(s, c)

Fail(s, c) == [LatchCode(s, c) EXCEPT !.failed = TRUE, !.finalized = FALSE]

\* The bounded Emit refuses what does not fit.
EmitBounded(s) == Fail(s, "Capacity_Exceeded")

\* The allocating Emit poisons the writer and lets Storage_Error through.
EmitAllocating(s) == [s EXCEPT !.failed = TRUE, !.error = Raised]

\* Emit appends one string, given by its JSON tokens, or nothing of it.
Emit(s, tokens) ==
  IF Latched(s) \/ s.failed THEN s
  ELSE IF s.length < s.room
       THEN [s EXCEPT !.length = @ + 1, !.text = Grammar!ReadTokens(@, tokens)]
       ELSE IF s.exhaustion = "Capacity_Exceeded" THEN EmitBounded(s) ELSE EmitAllocating(s)

\* A slip of Before_Value: the separator is chosen as for a sequence.
CommaBeforeOptional(s) ==
  IF Top(s).observed > 0 THEN Emit(s, <<",">>) ELSE s

\* The child of an optional follows the presence marker.
SeparateOptional(s) == Emit(s, <<",">>)

SeparateItem(s) == IF Top(s).observed > 0 THEN Emit(s, <<",">>) ELSE s

\* A map entry is an array: it opens with the key and separates the value.
OpenEntry(s) ==
  LET t == Emit(SeparateItem(s), <<"[">>)
  IN  IF t.error = Raised THEN t ELSE SetTop(t, [Top(t) EXCEPT !.child_is_value = FALSE])

ContinueEntry(s) ==
  LET t == Emit(s, <<",">>)
  IN  IF t.error = Raised THEN t ELSE SetTop(t, [Top(t) EXCEPT !.child_is_value = TRUE])

Before_Value(s) ==
  LET f == Top(s) IN
  Guarded(s,
    IF s.stack = <<>>
    THEN IF s.root_written THEN Fail(s, "Invalid_State") ELSE [s EXCEPT !.root_written = TRUE]
    ELSE IF f.kind \in {"record", "variant"}
    THEN IF f.waiting THEN s ELSE Fail(s, "Invalid_State")
    ELSE IF f.kind = "map" /\ f.waiting THEN ContinueEntry(s)
    ELSE IF Full(f) THEN Fail(s, "Invalid_State")
    ELSE IF f.kind = "map" THEN OpenEntry(s)
    ELSE IF f.kind = "sequence" THEN SeparateItem(s) ELSE SeparateOptional(s))

\* The item is complete: Increment, which fails at Natural'Last.
Counted(s) ==
  LET f == [Top(s) EXCEPT !.waiting = FALSE]
  IN  IF f.observed = NaturalLast
      THEN Fail(SetTop(s, f), "Capacity_Exceeded")
      ELSE SetTop(s, [f EXCEPT !.observed = @ + 1])

CloseEntry(s) ==
  LET t == Emit(s, <<"]">>)
  IN  IF Latched(t) THEN t ELSE Counted(t)

After_Value(s) ==
  LET f == Top(s) IN
  IF Latched(s) \/ s.failed \/ s.stack = <<>> THEN s
  ELSE IF f.kind # "map" THEN Counted(s)
  ELSE IF f.child_is_value THEN CloseEntry(s) ELSE SetTop(s, [f EXCEPT !.waiting = TRUE])

Push(s, kind, length) ==
  IF Latched(s) THEN s
  ELSE IF Len(s.stack) = MaxSupportedNesting THEN Fail(s, "Depth_Exceeded")
  ELSE PushFrame(s, Frame(kind, length))

Pop(s, kind, close) ==
  Guarded(s,
    IF s.stack = <<>> \/ Unclosable(Top(s), kind)
    THEN Fail(s, "Invalid_State")
    ELSE LET t == Emit(s, close)
         IN  IF Latched(t) THEN t ELSE After_Value(PopFrame(t)))

\* A quoted, escaped string; its characters are one token.
Emit_Quoted(s, text) ==
  IF ValidText(text) THEN Emit(s, <<"string">>) ELSE Fail(s, "Invalid_Text")

Complete(s) == s.finalized /\ ~s.failed

-----------------------------------------------------------------------------
(* The events. *)

\* Put_Null, Put_Boolean, Put_Signed and Put_Unsigned.
Put_Scalar(s) == After_Value(Emit(Before_Value(s), <<"scalar">>))

Put_Float_64(s, value) ==
  Guarded(s, IF value = "nonfinite"
             THEN Fail(s, "Unsupported_Value")
             ELSE After_Value(Emit(Before_Value(s), <<"scalar">>)))

Put_Text(s, text) ==
  Guarded(s, IF ValidText(text)
             THEN After_Value(Emit_Quoted(Before_Value(s), text))
             ELSE Fail(s, "Invalid_Text"))

\* An object of one member, {"$bytes":"..."}, in two strings.
Put_Bytes(s) ==
  LET opened == Emit(Before_Value(s), <<"{", "string", ":">>)
  IN  After_Value(Emit(opened, <<"string", "}">>))

\* The presence marker is the first element of an array.
Begin_Optional(s, present) ==
  Push(Emit(Before_Value(s), <<"[", "scalar">>),
       "optional", Known_Length(IF present THEN 1 ELSE 0))
End_Optional(s) == Pop(s, "optional", <<"]">>)

Begin_Sequence(s, length) == Push(Emit(Before_Value(s), <<"[">>), "sequence", length)
End_Sequence(s) == Pop(s, "sequence", <<"]">>)

Begin_Map(s, length) == Push(Emit(Before_Value(s), <<"[">>), "map", length)
End_Map(s) == Pop(s, "map", <<"]">>)

Begin_Record(s, count) ==
  Push(Emit(Before_Value(s), <<"{">>), "record", Known_Length(count))
End_Record(s) == Pop(s, "record", <<"}">>)

Put_Field(s, name) ==
  Guarded(s,
    IF ~ValidText(name) THEN Fail(s, "Invalid_Text")
    ELSE IF s.stack = <<>> \/ ~TakesField(Top(s)) THEN Fail(s, "Invalid_State")
    ELSE LET t == Emit(Emit_Quoted(SeparateItem(s), name), <<":">>)
         IN  IF Latched(t) THEN t ELSE SetTop(t, [Top(t) EXCEPT !.waiting = TRUE]))

Put_Enumeration(s, literal) == Put_Text(s, literal)

\* ["Alternative",{...}]
Begin_Variant(s, alternative, count) ==
  Guarded(s,
    IF ~ValidText(alternative)
    THEN Fail(s, "Invalid_Text")
    ELSE Push(Emit(Emit_Quoted(Emit(Before_Value(s), <<"[">>), alternative), <<",", "{">>),
              "variant", Known_Length(count)))
End_Variant(s) == Pop(s, "variant", <<"}", "]">>)

Finish_Document(s) == FinishWith(s, Fail)

\* The event `e` of a traversal, for the modules that compose a writer with its source.
Event(s, e) ==
  CASE e.op = "Put_Scalar" -> Put_Scalar(s)
    [] e.op = "Put_Float_64" -> Put_Float_64(s, e.value)
    [] e.op = "Put_Text" -> Put_Text(s, e.text)
    [] e.op = "Put_Bytes" -> Put_Bytes(s)
    [] e.op = "Put_Enumeration" -> Put_Enumeration(s, e.text)
    [] e.op = "Put_Field" -> Put_Field(s, e.text)
    [] e.op = "Begin_Optional" -> Begin_Optional(s, e.present)
    [] e.op = "Begin_Sequence" -> Begin_Sequence(s, e.length)
    [] e.op = "Begin_Map" -> Begin_Map(s, e.length)
    [] e.op = "Begin_Record" -> Begin_Record(s, e.count)
    [] e.op = "Begin_Variant" -> Begin_Variant(s, e.text, e.count)
    [] e.op = "End_Optional" -> End_Optional(s)
    [] e.op = "End_Sequence" -> End_Sequence(s)
    [] e.op = "End_Map" -> End_Map(s)
    [] e.op = "End_Record" -> End_Record(s)
    [] e.op = "End_Variant" -> End_Variant(s)

-----------------------------------------------------------------------------
(* Between two documents. *)

Reset_Writer(s) ==
  [s EXCEPT !.stack = <<>>, !.root_written = FALSE, !.failed = FALSE, !.finalized = FALSE,
            !.length = 0, !.text = Grammar!Start]

\* What Copy_Output and Output hand out: nothing before publication, then the buffer.
Document(s) == IF Complete(s) THEN {s.text} ELSE {}

-----------------------------------------------------------------------------
(* The output. *)

\* What was emitted is the beginning of a JSON value, and it is a whole one exactly when
\* Finish_Document would accept it.
Follows(s) ==
  /\ s.text.expect # "error"
  /\ Grammar!Whole(s.text) = (s.root_written /\ s.stack = <<>>)
=============================================================================
