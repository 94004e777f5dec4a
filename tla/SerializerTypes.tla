--------------------------- MODULE SerializerTypes ---------------------------
(***************************************************************************)
(* What the three serializers (Counting, JSON, CBOR) have in common: error *)
(* latch, container frames, lifecycle, and the events of the Serializer    *)
(* interface (flyology_serde-serialization.ads).                           *)
(*                                                                         *)
(* A serializer is a record with at least the fields                       *)
(*   stack, root_written, failed, finalized   the Ada components,          *)
(*   error                                    the caller's Error.Code.     *)
(* A handler is a function from that record to the one it leaves behind,   *)
(* composed as the Ada statements are.  Stack (1 .. Depth) is a sequence.  *)
(***************************************************************************)
EXTENDS Integers, Sequences

CONSTANTS
  MaxSupportedNesting,  \* Policies.Maximum_Supported_Nesting (256)
  NaturalLast,          \* Natural'Last, where the item counts stop
  Limits,               \* Serialization_Limits of the root adapter
  MaxRoom,              \* bound on the room of a writer
  MaxItems              \* bound on the lengths clients declare

ASSUME NestingAssumption == MaxSupportedNesting \in Nat \ {0}

ASSUME NaturalAssumption == NaturalLast \in Nat \ {0}

ASSUME LimitsAssumption ==
  Limits \in [nesting : Nat, items : Nat, events : Nat]

ASSUME BoundsAssumption == MaxRoom \in Nat /\ MaxItems \in 0..NaturalLast

NoError == "No_Error"

Codes == {"Invalid_Text", "Capacity_Exceeded", "Depth_Exceeded", "Unsupported_Value",
          "Invalid_State", "Application_Error"}

\* The error of a call that ended with an exception: no later statement of it runs.
Raised == "Raised"

Latched(s) == s.error # NoError

LatchCode(s, c) == [s EXCEPT !.error = IF Latched(s) THEN @ ELSE c]

\* Data_Model.Length_Information.
Known_Length(n) == [known |-> TRUE, length |-> n]
Unknown_Length == [known |-> FALSE, length |-> 0]

\* Text is what its validation tells apart: valid UTF-8 within
\* Maximum_Text_Length, valid but longer, and not valid UTF-8.
Texts == {"text", "long", "invalid"}
ValidText(t) == t # "invalid"

Floats == {"finite", "negative_zero", "nonfinite"}

\* The calls a traversal may make; `name` is a Type_Name, `text` any other text.
EventsOver(names, texts, floats, lengths, counts) ==
  [op : {"Put_Scalar", "End_Optional", "End_Sequence", "End_Map", "End_Record", "End_Variant"}]
    \cup [op : {"Put_Float_64"}, value : floats]
    \cup [op : {"Put_Text", "Put_Field"}, text : texts]
    \cup [op : {"Put_Bytes"}, text : texts \ {"invalid"}]
    \cup [op : {"Put_Enumeration"}, name : names, text : texts]
    \cup [op : {"Begin_Optional"}, present : BOOLEAN]
    \cup [op : {"Begin_Sequence", "Begin_Map"}, length : lengths]
    \cup [op : {"Begin_Record"}, name : names, count : counts]
    \cup [op : {"Begin_Variant"}, name : names, text : texts, count : counts]

Kinds == {"optional", "sequence", "map", "record", "variant"}

Frame(kind, length) ==
  [kind |-> kind, known |-> length.known, expected |-> length.length, observed |-> 0,
   waiting |-> FALSE, child_is_value |-> FALSE]

Frames == [kind : Kinds, known : BOOLEAN, expected : Nat, observed : Nat,
           waiting : BOOLEAN, child_is_value : BOOLEAN]

Full(f) == f.known /\ f.observed = f.expected

\* What every serializer refuses to close.
Unclosable(f, kind) == f.kind # kind \/ f.waiting \/ (f.known /\ f.observed # f.expected)

\* Where Put_Field may stand.
TakesField(f) == f.kind \in {"record", "variant"} /\ ~f.waiting /\ ~Full(f)

Top(s) == s.stack[Len(s.stack)]
SetTop(s, f) == [s EXCEPT !.stack[Len(s.stack)] = f]
PushFrame(s, f) == [s EXCEPT !.stack = Append(@, f)]
PopFrame(s) == [s EXCEPT !.stack = SubSeq(@, 1, Len(@) - 1)]

\* Serialization.Serializer_State, as all three State functions compute it.
State(s) ==
  IF s.failed THEN "Poisoned"
  ELSE IF s.finalized THEN "Finished"
  ELSE IF s.root_written THEN "Active" ELSE "Ready"

Closed(s) == s.failed \/ s.finalized

\* Guard_Event: `then` is the rest of a handler, entered only when Allowed.
Guarded(s, then) ==
  IF Latched(s) THEN s
  ELSE IF Closed(s) THEN LatchCode(s, "Invalid_State") ELSE then

\* Finish_Document; `Refuse` is the Fail or Reject of the serializer.
FinishWith(s, Refuse(_, _)) ==
  Guarded(s, IF ~s.root_written \/ s.stack # <<>>
             THEN Refuse(s, "Invalid_State")
             ELSE [s EXCEPT !.finalized = TRUE])

Abort_Document(s) ==
  [s EXCEPT !.stack = <<>>, !.finalized = FALSE, !.failed = TRUE]

\* The caller after the call: an exception leaves Error as it was, clear.
Returned(s) == IF s.error = Raised THEN [s EXCEPT !.error = NoError] ELSE s
=============================================================================
