----------------------------- MODULE CborGrammar -----------------------------
(***************************************************************************)
(* Reference reader of RFC 8949 structure, one item head at a time: the    *)
(* state of a decoder that has read what a writer emitted so far.          *)
(***************************************************************************)
EXTENDS Integers, Sequences, FiniteSetsExt

\* open: one entry per array or map head read and not known to be complete: the data
\* items it still needs, or that it is indefinite, and for an indefinite map whether a
\* key stands without its value.  Complete definite entries stay until the next item.
\* body: the pieces of a string's content still to come after its head.
Start == [open |-> <<>>, started |-> FALSE, body |-> 0, bad |-> FALSE]

Malformed == [open |-> <<>>, started |-> TRUE, body |-> 0, bad |-> TRUE]

Definite(n) == [left |-> n, indefinite |-> FALSE, pairs |-> FALSE, odd |-> FALSE]
Indefinite(isMap) == [left |-> 0, indefinite |-> TRUE, pairs |-> isMap, odd |-> FALSE]

Incomplete(g) == {i \in 1..Len(g.open) : g.open[i].indefinite \/ g.open[i].left > 0}

Whole(g) == g.started /\ ~g.bad /\ g.body = 0 /\ Incomplete(g) = {}

\* One item fills a slot of the entry it stands in.
Filled(f) ==
  CASE f.indefinite /\ f.pairs -> [f EXCEPT !.odd = ~@]
    [] f.indefinite /\ ~f.pairs -> f
    [] OTHER -> [f EXCEPT !.left = @ - 1]

\* The entry in place d becomes e; those inside it were complete.
Until(g, d, e) == [g EXCEPT !.open = [SubSeq(g.open, 1, d) EXCEPT ![d] = e]]

ReadItem(g) ==
  LET in == Incomplete(g)
      d == Max(in)
  IN  CASE g.bad \/ g.body > 0 \/ (in = {} /\ g.started) -> Malformed
        [] ~g.bad /\ g.body = 0 /\ in = {} /\ ~g.started -> [g EXCEPT !.started = TRUE]
        [] OTHER -> Until(g, d, Filled(g.open[d]))

ReadHead(g, entry) ==
  LET h == ReadItem(g) IN IF h.bad THEN h ELSE [h EXCEPT !.open = Append(@, entry)]

ReadBreak(g) ==
  LET in == Incomplete(g)
      d == Max(in)
  IN  IF g.bad \/ g.body > 0 \/ in = {} \/ ~g.open[d].indefinite \/ g.open[d].odd
      THEN Malformed
      ELSE Until(g, d, Definite(0))

ReadToken(g, t) ==
  CASE t.head = "scalar" -> ReadItem(g)
    [] t.head = "string" -> LET h == ReadItem(g) IN IF h.bad THEN h ELSE [h EXCEPT !.body = t.count]
    [] t.head = "content" -> IF g.body > 0 THEN [g EXCEPT !.body = @ - 1] ELSE Malformed
    [] t.head = "array" -> ReadHead(g, Definite(t.count))
    [] t.head = "map" -> ReadHead(g, Definite(2 * t.count))
    [] t.head = "array_start" -> ReadHead(g, Indefinite(FALSE))
    [] t.head = "map_start" -> ReadHead(g, Indefinite(TRUE))
    [] t.head = "break" -> ReadBreak(g)
=============================================================================
