----------------------------- MODULE DecodeBudget -----------------------------
(***************************************************************************)
(* Flyology_Serde.Budgets: what one decode operation may still consume.    *)
(*                                                                         *)
(* A budget is part of a reader record: `scopes` holds Container_Items     *)
(* (1 .. Current_Depth), `values` and `input` the other two counts, and    *)
(* `error` is the caller's Error.Code.                                     *)
(***************************************************************************)
EXTENDS Integers, Sequences

CONSTANT DecodeLimits   \* Policies.Decode_Limits

ASSUME DecodeLimitsAssumption ==
  DecodeLimits \in [nesting : Nat, items : Nat, input : Nat, values : Nat]

NoError == "No_Error"

Latched(b) == b.error # NoError

LatchCode(b, c) == [b EXCEPT !.error = IF Latched(b) THEN @ ELSE c]

Initialize(b) == [b EXCEPT !.scopes = <<>>, !.values = 0, !.input = 0]

Consume_Input(b, units) ==
  IF Latched(b) \/ b.input + units > DecodeLimits.input
  THEN LatchCode(b, "Capacity_Exceeded")
  ELSE [b EXCEPT !.input = @ + units]

Input_Remaining(b) == IF b.input >= DecodeLimits.input THEN 0 ELSE DecodeLimits.input - b.input

Consume_Value(b) ==
  IF Latched(b) \/ b.values >= DecodeLimits.values
  THEN LatchCode(b, "Capacity_Exceeded")
  ELSE [b EXCEPT !.values = @ + 1]

Enter_Container(b, known, length) ==
  IF Latched(b) \/ Len(b.scopes) = DecodeLimits.nesting
  THEN LatchCode(b, "Depth_Exceeded")
  ELSE IF known /\ length > DecodeLimits.items
  THEN LatchCode(b, "Capacity_Exceeded")
  ELSE [b EXCEPT !.scopes = Append(@, 0)]

Consume_Container_Item(b) ==
  LET d == Len(b.scopes) IN
  IF Latched(b) \/ d = 0
  THEN LatchCode(b, "Invalid_State")
  ELSE IF b.scopes[d] >= DecodeLimits.items
  THEN LatchCode(b, "Capacity_Exceeded")
  ELSE [b EXCEPT !.scopes[d] = @ + 1]

\* Unwinds whether or not an error is latched.
Leave_Container(b) ==
  IF b.scopes = <<>>
  THEN LatchCode(b, "Invalid_State")
  ELSE [b EXCEPT !.scopes = SubSeq(@, 1, Len(@) - 1)]

\* Leave_Container until no container is left.
Unwind(b) == [b EXCEPT !.scopes = <<>>]
=============================================================================
