-------------------------- MODULE CountingSerializer --------------------------
(***************************************************************************)
(* Flyology_Serde.Serializers.Counting: the serializer that emits nothing  *)
(* and only decides, from the capabilities of a backend and the limits of  *)
(* the root adapter, whether a traversal is acceptable.                    *)
(*                                                                         *)
(* A Counter is a record with the fields of SerializerTypes, `profile` and *)
(* `events`.  Its frames count a container in its parent when it opens.    *)
(***************************************************************************)
EXTENDS SerializerTypes

\* A Counter after Reset, called with `error` in hand.
Reset(capabilities, error) ==
  [profile |-> capabilities, events |-> 0, stack |-> <<>>, root_written |-> FALSE,
   failed |-> FALSE, finalized |-> FALSE, error |-> error]

-----------------------------------------------------------------------------
(* Helpers. *)

Reject(s, c) ==
  IF Latched(s) THEN s ELSE [s EXCEPT !.failed = TRUE, !.finalized = FALSE, !.error = c]

Note_Event(s) ==
  IF Latched(s) THEN s
  ELSE IF s.events = NaturalLast \/ s.events >= Limits.events
  THEN Reject(s, "Capacity_Exceeded")
  ELSE [s EXCEPT !.events = @ + 1]

\* A slip: the field or key that was waiting for this child still is.
ObservedWaiting(s) == SetTop(s, [Top(s) EXCEPT !.observed = @ + 1])

Observed(s) == SetTop(s, [Top(s) EXCEPT !.waiting = FALSE, !.observed = @ + 1])

\* One more child of an optional or a sequence.
Note_Item(s) ==
  LET f == Top(s) IN
  IF Full(f) THEN Reject(s, "Invalid_State")
  ELSE IF f.observed = NaturalLast \/ f.observed >= Limits.items
  THEN Reject(s, "Capacity_Exceeded")
  ELSE Note_Event(Observed(s))

\* A slip: a key is admitted to a map that is full.
Note_KeyOfFullMap(s, isText) ==
  IF ~s.profile.arbitrary_map_keys /\ ~isText
  THEN Reject(s, "Unsupported_Value")
  ELSE Note_Event(SetTop(s, [Top(s) EXCEPT !.waiting = TRUE]))

Note_Key(s, isText) ==
  LET f == Top(s) IN
  IF ~s.profile.arbitrary_map_keys /\ ~isText THEN Reject(s, "Unsupported_Value")
  ELSE IF f.observed >= Limits.items THEN Reject(s, "Capacity_Exceeded")
  ELSE IF Full(f) THEN Reject(s, "Invalid_State")
  ELSE Note_Event(SetTop(s, [f EXCEPT !.waiting = TRUE]))

\* The value of a map entry, or of a field.
Note_Awaited(s) ==
  IF ~Top(s).waiting THEN Reject(s, "Invalid_State")
  ELSE IF Top(s).observed = NaturalLast THEN Reject(s, "Capacity_Exceeded")
  ELSE Note_Event(Observed(s))

Note_Value(s, isText) ==
  LET f == Top(s) IN
  Guarded(s,
    IF s.stack = <<>>
    THEN IF s.root_written
         THEN Reject(s, "Invalid_State")
         ELSE Note_Event([s EXCEPT !.root_written = TRUE])
    ELSE IF f.kind \in {"optional", "sequence"} THEN Note_Item(s)
    ELSE IF f.kind = "map" /\ ~f.waiting THEN Note_Key(s, isText) ELSE Note_Awaited(s))

Open_Container(s, kind, length) ==
  LET t == Note_Value(s, FALSE) IN
  IF Latched(s) THEN s
  ELSE IF Len(s.stack) = MaxSupportedNesting \/ Len(s.stack) >= Limits.nesting
  THEN Reject(s, "Depth_Exceeded")
  ELSE IF length.known /\ length.length > Limits.items
  THEN Reject(s, "Capacity_Exceeded")
  ELSE IF Latched(t) THEN t ELSE PushFrame(t, Frame(kind, length))

Close_Container(s, kind) ==
  Guarded(s,
    IF s.stack = <<>> \/ Unclosable(Top(s), kind)
    THEN Reject(s, "Invalid_State")
    ELSE Note_Event(PopFrame(s)))

\* Every text of an event is validated, then measured.
WithTexts(s, texts, then) ==
  Guarded(s,
    IF "invalid" \in texts THEN Reject(s, "Invalid_Text")
    ELSE IF "long" \in texts THEN Reject(s, "Capacity_Exceeded") ELSE then)

\* What the backend has no representation for.
WithCapability(s, capable, then) ==
  Guarded(s, IF capable THEN then ELSE Reject(s, "Unsupported_Value"))

-----------------------------------------------------------------------------
(* The events. *)

Put_Scalar(s) == Note_Value(s, FALSE)

\* A slip: minus zero is refused wherever infinities are.
Put_Float_64Signed(s, value) ==
  WithCapability(s, value # "finite" => s.profile.nonfinite_float_64, Note_Value(s, FALSE))

Put_Float_64(s, value) ==
  WithCapability(s,
    /\ value = "nonfinite" => s.profile.nonfinite_float_64
    /\ value = "negative_zero" => s.profile.signed_float_zero,
    Note_Value(s, FALSE))

Put_Text(s, text) == WithTexts(s, {text}, Note_Value(s, TRUE))

\* Bytes are measured but need not be valid text.
Put_Bytes(s, bytes) ==
  WithCapability(s, s.profile.byte_values,
    IF bytes = "long" THEN Reject(s, "Capacity_Exceeded") ELSE Note_Value(s, FALSE))

Begin_Optional(s, present) ==
  WithCapability(s, s.profile.lossless_optionals,
    Open_Container(s, "optional", Known_Length(IF present THEN 1 ELSE 0)))
End_Optional(s) == Close_Container(s, "optional")

Begin_Sequence(s, length) ==
  WithCapability(s, length.known \/ s.profile.unknown_container_lengths,
    Open_Container(s, "sequence", length))
End_Sequence(s) == Close_Container(s, "sequence")

Begin_Map(s, length) ==
  WithCapability(s, length.known \/ s.profile.unknown_container_lengths,
    Open_Container(s, "map", length))
End_Map(s) == Close_Container(s, "map")

Begin_Record(s, type_name, count) ==
  WithTexts(s, {type_name}, Open_Container(s, "record", Known_Length(count)))

Put_Field(s, name) ==
  WithTexts(s, {name},
    IF s.stack = <<>> \/ ~TakesField(Top(s))
    THEN Reject(s, "Invalid_State")
    ELSE Note_Event(SetTop(s, [Top(s) EXCEPT !.waiting = TRUE])))
End_Record(s) == Close_Container(s, "record")

Put_Enumeration(s, type_name, literal) ==
  WithTexts(s, {type_name, literal}, Note_Value(s, TRUE))

Begin_Variant(s, type_name, alternative, count) ==
  WithTexts(s, {type_name, alternative}, Open_Container(s, "variant", Known_Length(count)))
End_Variant(s) == Close_Container(s, "variant")

\* A slip: open containers are no obstacle.
Finish_DocumentOpen(s) ==
  Guarded(s, IF s.root_written THEN [s EXCEPT !.finalized = TRUE] ELSE Reject(s, "Invalid_State"))

Finish_Document(s) == FinishWith(s, Reject)

\* The event `e` of a traversal.
Event(s, e) ==
  CASE e.op = "Put_Scalar" -> Put_Scalar(s)
    [] e.op = "Put_Float_64" -> Put_Float_64(s, e.value)
    [] e.op = "Put_Text" -> Put_Text(s, e.text)
    [] e.op = "Put_Bytes" -> Put_Bytes(s, e.text)
    [] e.op = "Put_Enumeration" -> Put_Enumeration(s, e.name, e.text)
    [] e.op = "Put_Field" -> Put_Field(s, e.text)
    [] e.op = "Begin_Optional" -> Begin_Optional(s, e.present)
    [] e.op = "Begin_Sequence" -> Begin_Sequence(s, e.length)
    [] e.op = "Begin_Map" -> Begin_Map(s, e.length)
    [] e.op = "Begin_Record" -> Begin_Record(s, e.name, e.count)
    [] e.op = "Begin_Variant" -> Begin_Variant(s, e.name, e.text, e.count)
    [] e.op = "End_Optional" -> End_Optional(s)
    [] e.op = "End_Sequence" -> End_Sequence(s)
    [] e.op = "End_Map" -> End_Map(s)
    [] e.op = "End_Record" -> End_Record(s)
    [] e.op = "End_Variant" -> End_Variant(s)
=============================================================================
