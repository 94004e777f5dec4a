------------------------------ MODULE CborReader ------------------------------
(***************************************************************************)
(* Flyology_Serde.Deserializers.CBOR: the bounded pull reader.             *)
(*                                                                         *)
(* The source is a sequence of tokens, one per head with its payload, and  *)
(* costs one input unit each.  What it holds is decided when the reader    *)
(* first inspects it: `ahead` is the part inspected but not consumed, and  *)
(* `read` the state the consumed part leaves the reference decoder of      *)
(* CborGrammar in.  A handler that would inspect past `ahead` is Starved   *)
(* and runs again when the source has shown one more token.                *)
(***************************************************************************)
EXTENDS DecodeBudget

CONSTANTS
  MaxCount,   \* bound on the counts a definite head declares
  Names       \* the texts a source holds

ASSUME MaxCountAssumption == MaxCount \in Nat

Grammar == INSTANCE CborGrammar

Starved == "Starved"

Codes == {"Capacity_Exceeded", "Depth_Exceeded", "Unsupported_Value", "Invalid_State",
          "Invalid_Text", "Invalid_Value", "Out_Of_Range", "Syntax_Error",
          "Unexpected_Kind", "Application_Error"}

\* "zero" and "one" are the unsigned integers a presence marker may be, "huge" one beyond
\* Integer_64; "chunked" an indefinite text; "simple" a value outside the surface of the
\* reader; "reserved" a head that is not well-formed; "end" the end of the source.
Plain == {"zero", "one", "huge", "null", "bad_text", "long_text", "chunked", "tag",
          "simple", "reserved", "break", "array_start", "map_start", "end"}

NoName == "none"

Tokens ==
  [head : Plain, count : {0}, name : {NoName}]
    \cup [head : {"text"}, count : {0}, name : Names]
    \cup [head : {"array", "map"}, count : 0..MaxCount, name : {NoName}]

EndToken == [head |-> "end", count |-> 0, name |-> NoName]

IsText(t) == t.head \in {"text", "bad_text", "long_text", "chunked"}
IsArray(t) == t.head \in {"array", "array_start"}
IsMap(t) == t.head \in {"map", "map_start"}
Indefinite(t) == t.head \in {"array_start", "map_start"}

\* The token as the reference decoder sees it; a tag takes one item, as an array of one.
Structure(t) ==
  IF t.head \in {"array", "map", "array_start", "map_start", "break"} THEN t
  ELSE IF t.head = "tag" THEN [head |-> "array", count |-> 1]
  ELSE [head |-> IF IsText(t) THEN "string" ELSE "scalar", count |-> 0]

Frame(kind, t) ==
  [kind |-> kind, child |-> "none", phase |-> "needs_entry", known |-> ~Indefinite(t),
   declared |-> t.count, observed |-> 0, exhausted |-> FALSE, indefinite |-> Indefinite(t),
   envelope |-> FALSE]

Fresh ==
  [stack |-> <<>>, root |-> "ready", failed |-> FALSE, complete |-> FALSE, error |-> NoError,
   scopes |-> <<>>, values |-> 0, input |-> 0, raw |-> <<>>, ahead |-> <<>>,
   read |-> Grammar!Start]

-----------------------------------------------------------------------------
(* Helpers. *)

\* A slip: the budget keeps the containers of an operation that failed.
LatchOpen(r) == IF Latched(r) THEN [r EXCEPT !.failed = TRUE] ELSE r

Latch(r) == IF Latched(r) THEN [Unwind(r) EXCEPT !.failed = TRUE] ELSE r

Fail(r, c) == Latch(LatchCode(r, c))

\* What an operation of the budget left of r; it is not attempted with an Error latched.
Charged(r, b) == IF Latched(r) THEN r ELSE Latch(b)

\* Every check below is made with a clear Error only: `refused` may be about what is certain
\* as long as r did not fail.
Unless(r, refused, c) == IF ~Latched(r) /\ refused THEN Fail(r, c) ELSE r

Next_Token(r) == Head(r.ahead)

\* Inspect_Head at the cursor: within the source and the budget, and well-formed.
Inspect_Head(r) ==
  LET shown == Unless(r, r.ahead = <<>>, Starved)
      inside == Unless(shown, Next_Token(r).head = "end", "Syntax_Error")
      allowed == Unless(inside, Input_Remaining(r) = 0, "Capacity_Exceeded")
  IN  Unless(allowed, Next_Token(r).head = "reserved", "Syntax_Error")

At_Break(r) == ~Latched(r) /\ Next_Token(r).head = "break"

Inspect_Surface_Head(r) ==
  LET t == Unless(Inspect_Head(r), Next_Token(r).head = "break", "Syntax_Error")
  IN  Unless(t, Next_Token(r).head \in {"tag", "simple"}, "Unsupported_Value")

\* The cursor passes the token, once it is charged.
Consumed(r) ==
  IF Latched(r)
  THEN r
  ELSE [r EXCEPT !.ahead = Tail(@), !.read = Grammar!ReadToken(@, Structure(Next_Token(r)))]

Charge_Input(r) == Charged(r, Consume_Input(r, 1))

\* Read_Head, or a break, or a whole string: inspected, charged, consumed.
Advance(r) == Consumed(Charge_Input(Inspect_Head(r)))

Require_Ready(r) == Unless(r, r.failed, "Invalid_State")

Top(r) == r.stack[Len(r.stack)]
SetTop(r, f) == [r EXCEPT !.stack[Len(r.stack)] = f]

\* Whether the next call may read a value.
Expects(r) ==
  IF r.stack = <<>>
  THEN r.root = "ready"
  ELSE IF Top(r).kind = "map"
       THEN Top(r).phase \in {"key_ready", "value_ready"}
       ELSE Top(r).child = "ready"

\* The child of an optional in an indefinite envelope may turn out to be missing.
MayBeMissing(r) == r.stack # <<>> /\ Top(r).kind = "optional" /\ Top(r).envelope

Check_Value_Ready(r) ==
  LET t == Unless(Require_Ready(r), ~Expects(r), "Invalid_State")
  IN  IF MayBeMissing(r)
      THEN Unless(Inspect_Head(t), Next_Token(r).head = "break", "Invalid_Value")
      ELSE t

\* The value the top of the stack, or the root, was waiting for is under way.
Started(r) ==
  LET f == Top(r) IN
  IF Latched(r) THEN r
  ELSE IF r.stack = <<>> THEN [r EXCEPT !.root = "progress"]
  ELSE IF f.kind = "map"
  THEN SetTop(r, [f EXCEPT !.phase = IF f.phase = "key_ready" THEN "key" ELSE "value"])
  ELSE SetTop(r, [f EXCEPT !.child = "progress"])

Charge_Value(r) == Charged(r, Consume_Value(r))

Prepare_Value(r) == Started(Charge_Value(Check_Value_Ready(r)))

\* A break may not stand where a child has been announced.
Require_Child_Start(r) ==
  Unless(Inspect_Head(r), Next_Token(r).head = "break", "Syntax_Error")

\* A slip: a key may be the last thing in a map.
Finish_Key_Alone(r) == SetTop(r, [Top(r) EXCEPT !.phase = "needs_entry"])

Finish_Key(r) ==
  LET t == Require_Child_Start(r)
  IN  IF Latched(t) THEN t ELSE SetTop(t, [Top(t) EXCEPT !.phase = "value_ready"])

\* Whether a value of the top of the stack, or of the root, is under way.
InProgress(r) ==
  IF r.stack = <<>> THEN r.root = "progress"
  ELSE IF Top(r).kind = "map" THEN Top(r).phase \in {"key", "value"}
  ELSE Top(r).child = "progress"

Finish_Value(r) ==
  LET t == Unless(r, ~InProgress(r), "Invalid_State") IN
  IF Latched(t) \/ r.failed THEN t
  ELSE IF r.stack = <<>> THEN [r EXCEPT !.root = "complete"]
  ELSE IF Top(r).kind # "map" THEN SetTop(r, [Top(r) EXCEPT !.child = "none"])
  ELSE IF Top(r).phase = "key" THEN Finish_Key(r)
  ELSE SetTop(r, [Top(r) EXCEPT !.phase = "needs_entry"])

Require_Kind(r, Is(_)) ==
  Unless(Inspect_Surface_Head(Check_Value_Ready(r)), ~Is(Next_Token(r)), "Unexpected_Kind")

\* The value was inspected and is acceptable: it is charged, consumed and finished.
Take_Value(r) == Finish_Value(Advance(Prepare_Value(r)))

\* The reader's own bound of 256 frames never refuses: Maximum_Nesting is at most 256.
Push(r, frame) ==
  LET t == Charged(r, Enter_Container(r, frame.known, frame.declared))
  IN  IF Latched(t) THEN t ELSE [t EXCEPT !.stack = Append(@, frame)]

Finish_Container(r) ==
  IF Latched(r) \/ r.failed
  THEN r
  ELSE Finish_Value([Leave_Container(r) EXCEPT !.stack = SubSeq(@, 1, Len(@) - 1)])

Consume_Break(r, c) == Advance(Unless(Inspect_Head(r), Next_Token(r).head # "break", c))

\* Scan_String: every chunk is valid text within the limit and within the target.
Scan_Text(r, fits) ==
  LET t == Next_Token(r)
      kind == Unless(Inspect_Surface_Head(r), ~IsText(t), "Unexpected_Kind")
      utf8 == Unless(kind, t.head = "bad_text", "Invalid_Text")
  IN  Unless(utf8, t.head = "long_text" \/ ~fits, "Capacity_Exceeded")

-----------------------------------------------------------------------------
(* Skip_Value: Skip_Raw calls itself for every item inside the one skipped.  `raw` holds *)
(* the items each of those calls still has to skip, outermost first; one step reads one  *)
(* head, and no other call runs before the last step.                                    *)

RawItems(n) == [left |-> n, indefinite |-> FALSE, isMap |-> FALSE, odd |-> FALSE, count |-> 0]
RawRun(isMap) == [left |-> 0, indefinite |-> TRUE, isMap |-> isMap, odd |-> FALSE, count |-> 0]

Skip_Value(r) ==
  LET t == Prepare_Value(r) IN IF Latched(t) THEN t ELSE [t EXCEPT !.raw = <<RawItems(1)>>]

\* The caller's containers and the skipped ones share the nesting limit.
Check_Raw_Depth(r) ==
  Unless(r, Len(r.raw) > DecodeLimits.nesting - Len(r.scopes), "Depth_Exceeded")

Enter_Raw(r, entry) ==
  LET t == Check_Raw_Depth(r) IN IF Latched(t) THEN t ELSE [t EXCEPT !.raw = Append(@, entry)]

Unskippable ==
  [break |-> "Syntax_Error", bad_text |-> "Invalid_Text", long_text |-> "Capacity_Exceeded"]

\* What the head h, now consumed, says is inside.
Enter_Skipped(r, h) ==
  LET t == Unless(Check_Raw_Depth(r), h.count > DecodeLimits.items, "Capacity_Exceeded") IN
  IF Latched(r) THEN r
  ELSE IF h.head \in DOMAIN Unskippable THEN Fail(r, Unskippable[h.head])
  ELSE IF h.head = "chunked" THEN Check_Raw_Depth(r)
  ELSE IF h.head = "tag" THEN Enter_Raw(r, RawItems(1))
  ELSE IF Indefinite(h) THEN Enter_Raw(r, RawRun(IsMap(h)))
  ELSE IF h.head \in {"array", "map"}
  THEN Enter_Raw(t, RawItems(IF IsMap(h) THEN 2 * h.count ELSE h.count))
  ELSE r

\* One Skip_Raw: the head, then what it says is inside.
Skip_Head(r) == Enter_Skipped(Advance(r), Next_Token(r))

\* A slip: the value of an entry leaves the key standing.
CountedOdd(f) == [f EXCEPT !.odd = f.isMap, !.count = @ + 1]

\* One more entry begins with a key or an element, and ends with the value of a key.
Counted(f) == [f EXCEPT !.odd = f.isMap /\ ~f.odd, !.count = IF f.odd THEN @ ELSE @ + 1]

\* The next item of an indefinite container, or its break.
Skip_Run(r) ==
  LET f == r.raw[Len(r.raw)]
      i == Inspect_Head(r)
      whole == Unless(i, At_Break(i) /\ f.odd, "Syntax_Error")
      counted == Unless(whole, ~At_Break(i) /\ ~f.odd /\ f.count = DecodeLimits.items,
                        "Capacity_Exceeded")
  IN  IF Latched(counted) THEN counted
      ELSE IF At_Break(i) THEN [Advance(i) EXCEPT !.raw = SubSeq(@, 1, Len(@) - 1)]
      ELSE Skip_Head([i EXCEPT !.raw[Len(r.raw)] = Counted(f)])

Skip_Step(r) ==
  LET f == r.raw[Len(r.raw)]
      closed == [r EXCEPT !.raw = SubSeq(@, 1, Len(@) - 1)]
  IN  IF f.indefinite THEN Skip_Run(r)
      ELSE IF f.left > 0 THEN Skip_Head([r EXCEPT !.raw[Len(r.raw)] = [f EXCEPT !.left = @ - 1]])
      ELSE IF closed.raw = <<>> THEN Finish_Value(closed) ELSE closed

-----------------------------------------------------------------------------
(* The operations. *)

IsUnsigned(t) == t.head \in {"zero", "one", "huge"}
IsNull(t) == t.head = "null"

Peek_Kind(r) == Inspect_Surface_Head(Check_Value_Ready(r))

\* Read_Null; Read_Boolean and Read_Float_64 differ in the simple values they take.
Read_Null(r) == Take_Value(Require_Kind(r, IsNull))
Read_Unsigned(r) == Take_Value(Require_Kind(r, IsUnsigned))
Read_Signed(r) ==
  Take_Value(Unless(Require_Kind(r, IsUnsigned), Next_Token(r).head = "huge", "Out_Of_Range"))

\* Read_Text, Read_Bytes and Read_Enumeration, into a target that is large enough or not.
Read_Text(r, fits) == Take_Value(Scan_Text(Check_Value_Ready(r), fits))

Begin_Container(r, kind, Is(_)) ==
  Push(Advance(Prepare_Value(Require_Kind(r, Is))), Frame(kind, Next_Token(r)))

\* What may not follow inside the envelope of an optional or a variant.
Refuse_Inner(r, envelope, Is(_)) ==
  LET t == Next_Token(r)
      untagged == Unless(Inspect_Head(r), t.head = "tag", "Unsupported_Value")
      present == Unless(untagged, t.head = "break",
                        IF Indefinite(envelope) THEN "Invalid_Value" ELSE "Syntax_Error")
  IN  Unless(present, ~Is(t), "Invalid_Value")

IsAny(t) == TRUE
IsMarker(t) == t.head \in {"zero", "one"}

\* The envelope of an optional or a variant: an array, of a length in `counts` if definite.
Envelope(r, counts) ==
  LET t == Next_Token(r)
  IN  Unless(Require_Kind(r, IsArray), ~Indefinite(t) /\ t.count \notin counts, "Invalid_Value")

Charge_Item(r) == Charged(r, Consume_Container_Item(r))

Push_Optional(r, envelope, present) ==
  LET p == IF present THEN 1 ELSE 0
      t == Push(r, [Frame("optional", [head |-> "array", count |-> p]) EXCEPT
                      !.child = IF present THEN "ready" ELSE "none", !.exhausted = TRUE,
                      !.indefinite = Indefinite(envelope), !.envelope = Indefinite(envelope)])
  IN  IF present THEN Charge_Item(t) ELSE t

\* The marker was inspected: it says whether one more item follows in the envelope.
Take_Marker(r, envelope) ==
  LET present == Next_Token(r).head = "one"
      t == Unless(Advance(r), ~Indefinite(envelope) /\ envelope.count # (IF present THEN 2 ELSE 1),
                  "Invalid_Value")
  IN  IF Latched(r) THEN r
      ELSE IF present THEN Push_Optional(Refuse_Inner(t, envelope, IsAny), envelope, TRUE)
      ELSE Push_Optional(t, envelope, FALSE)

Begin_Optional(r) ==
  LET e == Next_Token(r)
  IN  Take_Marker(Refuse_Inner(Advance(Prepare_Value(Envelope(r, {1, 2}))), e, IsMarker), e)

End_Optional(r) ==
  LET t == Require_Ready(r)
      misplaced == r.stack = <<>> \/ Top(r).kind # "optional" \/ Top(r).child # "none"
      u == Unless(t, misplaced, "Invalid_State")
  IN  IF Latched(u) THEN u
      ELSE IF Top(u).envelope THEN Finish_Container(Consume_Break(u, "Invalid_Value"))
      ELSE Finish_Container(u)

Begin_Sequence(r) == Begin_Container(r, "sequence", IsArray)
Begin_Map(r) == Begin_Container(r, "map", IsMap)
Begin_Record(r) == Begin_Container(r, "record", IsMap)

\* No child of the top is announced or under way.
Idle(f) == IF f.kind = "map" THEN f.phase = "needs_entry" ELSE f.child = "none"

Exhausted(r) == SetTop(r, [Top(r) EXCEPT !.exhausted = TRUE])

\* A child was found, and charged to its container.
Announced(r) ==
  LET f == Top(r) IN
  IF Latched(r) THEN r
  ELSE IF f.kind = "map" THEN SetTop(r, [f EXCEPT !.observed = @ + 1, !.phase = "key_ready"])
  ELSE SetTop(r, [f EXCEPT !.observed = @ + 1, !.child = "ready"])

\* Next_Element, Next_Map_Entry and Next_Field; `Found` reads what comes before the child.
Next_Child(r, kinds, Found(_)) ==
  LET misplaced == r.stack = <<>> \/ Top(r).kind \notin kinds \/ ~Idle(Top(r)) \/ Top(r).exhausted
      t == Unless(Require_Ready(r), misplaced, "Invalid_State")
      f == Top(r)
      v == Inspect_Head(t)
  IN  IF Latched(t) THEN t
      ELSE IF f.known /\ f.observed = f.declared THEN Exhausted(t)
      ELSE IF f.indefinite /\ Latched(v) THEN v
      ELSE IF f.indefinite /\ At_Break(v) THEN Exhausted(v)
      ELSE Announced(Charge_Item(Found(Require_Child_Start(t))))

Itself(r) == r
Next_Element(r) == Next_Child(r, {"sequence"}, Itself)
Next_Map_Entry(r) == Next_Child(r, {"map"}, Itself)

\* The name of a field, and at least the beginning of its value.
Next_Field(r, fits) ==
  LET Named(s) == Require_Child_Start(Advance(Scan_Text(s, fits)))
  IN  Next_Child(r, {"record", "variant"}, Named)

\* End_Item_Container and End_Map; `Closed` consumes the breaks.
End_Item(r, kind, Closed(_)) ==
  LET t == Require_Ready(r)
      misplaced == \/ r.stack = <<>> \/ Top(r).kind # kind
                   \/ ~Idle(Top(r)) \/ ~Top(r).exhausted
      u == Unless(t, misplaced, "Invalid_State")
  IN  IF Latched(u) THEN u ELSE Finish_Container(Closed(u))

Closed_Item(r) == IF Top(r).indefinite THEN Consume_Break(r, "Syntax_Error") ELSE r
Closed_Variant(r) ==
  IF Top(r).envelope THEN Consume_Break(Closed_Item(r), "Invalid_Value") ELSE Closed_Item(r)

End_Sequence(r) == End_Item(r, "sequence", Closed_Item)
End_Map(r) == End_Item(r, "map", Closed_Item)
End_Record(r) == End_Item(r, "record", Closed_Item)
End_Variant(r) == End_Item(r, "variant", Closed_Variant)

\* The alternative's name, then the head of the map of its fields.
Take_Head(r, envelope) ==
  Push(Advance(r), [Frame("variant", Next_Token(r)) EXCEPT !.envelope = Indefinite(envelope)])

Begin_Variant(r, fits) ==
  LET e == Next_Token(r)
      entered == Refuse_Inner(Advance(Prepare_Value(Envelope(r, {2}))), e, IsText)
  IN  Take_Head(Refuse_Inner(Advance(Scan_Text(entered, fits)), e, IsMap), e)

\* A slip: what follows the item is not looked at.
Finish_DocumentEarly(r) ==
  LET t == Unless(Require_Ready(r), r.root # "complete" \/ r.stack # <<>>, "Invalid_State")
  IN  IF Latched(t) THEN t ELSE [t EXCEPT !.complete = TRUE]

Finish_Document(r) ==
  LET t == Unless(Require_Ready(r), r.root # "complete" \/ r.stack # <<>>, "Invalid_State")
  IN  IF Latched(t) THEN t
      ELSE IF t.ahead = <<>> THEN [t EXCEPT !.error = Starved]
      ELSE IF Next_Token(t).head # "end" THEN Fail(t, "Syntax_Error")
      ELSE [t EXCEPT !.complete = TRUE]

Abort_Document(r) ==
  [Unwind(Latch(r)) EXCEPT !.stack = <<>>, !.failed = TRUE, !.complete = FALSE]

-----------------------------------------------------------------------------
(* A call by its name. *)

NoCall == [op |-> "none"]

Calls ==
  [op : {"Peek_Kind", "Read_Null", "Read_Unsigned", "Read_Signed", "Skip_Value",
         "Begin_Optional", "Begin_Sequence", "Begin_Map", "Begin_Record", "Next_Element",
         "Next_Map_Entry", "End_Optional", "End_Sequence", "End_Map", "End_Record",
         "End_Variant", "Finish_Document"}]
    \cup [op : {"Read_Text", "Next_Field", "Begin_Variant"}, fits : BOOLEAN]

Event(r, c) ==
  CASE c.op = "Peek_Kind" -> Peek_Kind(r)
    [] c.op = "Read_Null" -> Read_Null(r)
    [] c.op = "Read_Unsigned" -> Read_Unsigned(r)
    [] c.op = "Read_Signed" -> Read_Signed(r)
    [] c.op = "Read_Text" -> Read_Text(r, c.fits)
    [] c.op = "Skip_Value" -> Skip_Value(r)
    [] c.op = "Skip_Step" -> Skip_Step(r)
    [] c.op = "Begin_Optional" -> Begin_Optional(r)
    [] c.op = "Begin_Sequence" -> Begin_Sequence(r)
    [] c.op = "Begin_Map" -> Begin_Map(r)
    [] c.op = "Begin_Record" -> Begin_Record(r)
    [] c.op = "Begin_Variant" -> Begin_Variant(r, c.fits)
    [] c.op = "Next_Element" -> Next_Element(r)
    [] c.op = "Next_Map_Entry" -> Next_Map_Entry(r)
    [] c.op = "Next_Field" -> Next_Field(r, c.fits)
    [] c.op = "End_Optional" -> End_Optional(r)
    [] c.op = "End_Sequence" -> End_Sequence(r)
    [] c.op = "End_Map" -> End_Map(r)
    [] c.op = "End_Record" -> End_Record(r)
    [] c.op = "End_Variant" -> End_Variant(r)
    [] c.op = "Finish_Document" -> Finish_Document(r)
=============================================================================
