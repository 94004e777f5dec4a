----------------------------- MODULE JsonGrammar -----------------------------
(***************************************************************************)
(* Reference reader of RFC 8259 structure, one token at a time: the state  *)
(* of a parser that has read what a writer emitted so far.  The writer's   *)
(* buffer is abstracted to this state and to its length.                   *)
(***************************************************************************)
EXTENDS Integers, Sequences

\* open: the brackets not yet closed, outermost first.
\* expect: "value", "first" (a value or the close of an empty array), "next" (a comma or
\* a close), "member" (a name or the close of an empty object), "name", "colon",
\* "end" (one whole value was read) or "error".
Start == [open |-> <<>>, expect |-> "value"]

Malformed == [open |-> <<>>, expect |-> "error"]

Whole(g) == g.expect = "end"

\* A value was completed inside the brackets `o`.
ValueRead(o) == [open |-> o, expect |-> IF o = <<>> THEN "end" ELSE "next"]

Outer(o) == SubSeq(o, 1, Len(o) - 1)

Inside(g, bracket) == g.open # <<>> /\ g.open[Len(g.open)] = bracket

ReadToken(g, t) ==
  CASE t \in {"scalar", "string"} /\ g.expect \in {"value", "first"} -> ValueRead(g.open)
    [] t = "string" /\ g.expect \in {"member", "name"} -> [g EXCEPT !.expect = "colon"]
    [] t = "[" /\ g.expect \in {"value", "first"} ->
         [open |-> Append(g.open, "array"), expect |-> "first"]
    [] t = "{" /\ g.expect \in {"value", "first"} ->
         [open |-> Append(g.open, "object"), expect |-> "member"]
    [] t = "]" /\ Inside(g, "array") /\ g.expect \in {"first", "next"} ->
         ValueRead(Outer(g.open))
    [] t = "}" /\ Inside(g, "object") /\ g.expect \in {"member", "next"} ->
         ValueRead(Outer(g.open))
    [] t = "," /\ g.expect = "next" ->
         [g EXCEPT !.expect = IF Inside(g, "array") THEN "value" ELSE "name"]
    [] t = ":" /\ g.expect = "colon" -> [g EXCEPT !.expect = "value"]
    [] OTHER -> Malformed

\* One string written at once: up to three tokens.
ReadTokens(g, ts) ==
  LET one == ReadToken(g, ts[1])
      two == ReadToken(one, ts[2])
  IN  CASE Len(ts) = 1 -> one
        [] Len(ts) = 2 -> two
        [] Len(ts) = 3 -> ReadToken(two, ts[3])
=============================================================================
