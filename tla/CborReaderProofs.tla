--------------------------- MODULE CborReaderProofs ---------------------------
(***************************************************************************)
(* Proofs about the CBOR reader and its client.                            *)
(***************************************************************************)
EXTENDS CborClient, SequenceTheorems, TLAPS

Ended(r) == \E i \in 1..Len(r.ahead) : r.ahead[i].head = "end"

Entries == [left : Nat, indefinite : BOOLEAN, pairs : BOOLEAN, odd : BOOLEAN]

Decoders == [open : Seq(Entries), started : BOOLEAN, body : Nat, bad : BOOLEAN]

Frames ==
  [kind : {"sequence", "map", "record", "variant", "optional"},
   child : {"none", "ready", "progress"},
   phase : {"needs_entry", "key_ready", "key", "value_ready", "value"},
   known : BOOLEAN, declared : Nat, observed : Nat, exhausted : BOOLEAN,
   indefinite : BOOLEAN, envelope : BOOLEAN]

Skips == [left : Nat, indefinite : BOOLEAN, isMap : BOOLEAN, odd : BOOLEAN, count : Nat]

\* The codes an Error may hold, those of the record adapter included.
Errors ==
  Codes \cup {NoError, Starved, "Application_Error", "Unknown_Field", "Duplicate_Field", "Missing_Field"}

Readers ==
  [stack : Seq(Frames), root : {"ready", "progress", "complete"}, failed : BOOLEAN,
   complete : BOOLEAN, error : Errors, scopes : Seq(Nat), values : Nat, input : Nat,
   raw : Seq(Skips), ahead : Seq(Tokens), read : Decoders]

-----------------------------------------------------------------------------
(* What the reference decoder is owed.  `o` lists entries, from the outermost; an entry of *)
(* the decoder that is filled up may be missing from it, or one of it from the decoder.    *)

Pending(e) == e.indefinite \/ e.left > 0

Owing(s) == {i \in 1..Len(s) : Pending(s[i])}

Same(p, o) ==
  \E m \in [Owing(o) -> Owing(p)] :
    /\ \A i \in Owing(o) : p[m[i]] = o[i]
    /\ \A i, j \in Owing(o) : i < j => m[i] < m[j]
    /\ \A k \in Owing(p) : \E i \in Owing(o) : m[i] = k

\* The decoder has begun an item, and owes what o says.
Stands(g, o) == ~g.bad /\ g.body = 0 /\ g.started /\ Same(g.open, o)

\* The next token may be an item: the first, or one of the innermost entry of o.
Takes(g, o) ==
  IF o = <<>> THEN g = Grammar!Start ELSE Stands(g, o) /\ Pending(o[Len(o)])

FillLast(o) == IF o = <<>> THEN o ELSE [o EXCEPT ![Len(o)] = Grammar!Filled(o[Len(o)])]

-----------------------------------------------------------------------------
(* What the frames of a reader owe. *)

\* A child was announced, and its first token is not consumed.
Ready(f) == IF f.kind = "map" THEN f.phase \in {"key_ready", "value_ready"} ELSE f.child = "ready"

\* A value of the frame is under way.
Busy(f) ==
  IF f.kind = "map" THEN f.phase \in {"key", "value"} ELSE f.child = "progress"

Env(f) ==
  IF f.kind = "variant" /\ f.envelope THEN Grammar!Indefinite(FALSE) ELSE Grammar!Definite(0)

Odd(f) ==
  IF f.kind = "map" THEN f.phase \in {"key", "value_ready"}
  ELSE f.kind # "sequence" /\ f.child = "ready"

Slots(f) ==
  IF f.kind = "optional" THEN IF f.child = "ready" THEN 1 ELSE 0
  ELSE IF f.kind = "sequence"
  THEN f.declared - f.observed + IF f.child = "ready" THEN 1 ELSE 0
  ELSE IF f.kind = "map"
  THEN 2 * (f.declared - f.observed)
         + IF f.phase = "key_ready" THEN 2 ELSE IF Odd(f) THEN 1 ELSE 0
  ELSE 2 * (f.declared - f.observed) + IF f.child = "ready" THEN 1 ELSE 0

Run_Of(isMap, odd) == [left |-> 0, indefinite |-> TRUE, pairs |-> isMap, odd |-> odd]

Main(f) ==
  IF ~f.indefinite THEN Grammar!Definite(Slots(f))
  ELSE IF f.kind = "optional" THEN Run_Of(FALSE, FALSE)
  ELSE Run_Of(f.kind # "sequence", Odd(f))

FrameOK(f) ==
  /\ IF f.kind = "optional"
     THEN f.exhausted /\ f.known /\ f.declared <= 1 /\ f.indefinite = f.envelope
     ELSE /\ f.known = ~f.indefinite
          /\ f.known => f.observed <= f.declared
          /\ f.exhausted => Idle(f) /\ (f.known => f.observed = f.declared)
  /\ f.envelope => f.kind \in {"optional", "variant"}

Charge(f) == IF f.kind = "optional" THEN f.declared ELSE f.observed

\* Two entries for each frame: what encloses it, and its own.
Owes(stack, o) ==
  /\ Len(o) = 2 * Len(stack)
  /\ \A i \in 1..Len(stack) : o[2 * i - 1] = Env(stack[i]) /\ o[2 * i] = Main(stack[i])

\* The skipped value was announced and its head is not consumed.
Waiting(r) == r.raw[1].left = 1

RawEntry(f) == IF f.indefinite THEN Run_Of(f.isMap, f.odd) ELSE Grammar!Definite(f.left)

\* The frames and, inside them, what is being skipped.
OwesRaw(r, o) ==
  LET n == Len(r.stack) IN
  /\ Len(o) = 2 * n + Len(r.raw) - 1
  /\ \A i \in 1..n :
       /\ o[2 * i - 1] = Env(r.stack[i])
       /\ i < n \/ ~Waiting(r) => o[2 * i] = Main(r.stack[i])
  /\ Waiting(r) /\ n > 0 => Pending(o[2 * n]) /\ Grammar!Filled(o[2 * n]) = Main(r.stack[n])
  /\ \A j \in 2..Len(r.raw) : o[2 * n + j - 1] = RawEntry(r.raw[j])

-----------------------------------------------------------------------------
(* The invariant. *)

\* What holds of a reader at any point of a call, failed or not.
Bounded(r) ==
  /\ r \in Readers
  /\ r.values <= DecodeLimits.values
  /\ r.input <= DecodeLimits.input
  /\ Len(r.scopes) <= DecodeLimits.nesting
  /\ \A i \in 1..Len(r.scopes) : r.scopes[i] <= DecodeLimits.items
  /\ \A i \in 1..Len(r.ahead) : i < Len(r.ahead) => r.ahead[i].head # "end"

\* The next token is known, and is a break or is none.
NextIsBreak(r) == r.ahead # <<>> /\ Next_Token(r).head = "break"
NextIsItem(r) == r.ahead # <<>> /\ Next_Token(r).head # "break"

Charged_As(r) ==
  /\ Len(r.scopes) = Len(r.stack)
  /\ \A i \in 1..Len(r.stack) : r.scopes[i] = Charge(r.stack[i])

RawOK(r) ==
  /\ r.raw[1] \in {RawItems(0), RawItems(1)}
  /\ Waiting(r) => Len(r.raw) = 1
  /\ \A j \in 1..Len(r.raw) : r.raw[j].odd => r.raw[j].isMap
  /\ Len(r.scopes) + Len(r.raw) <= DecodeLimits.nesting + 1
  /\ r.stack # <<>> => Busy(Top(r))

Rooted(r) ==
  /\ r.root # "progress" => r.stack = <<>> /\ r.raw = <<>>
  /\ r.complete => r.root = "complete" /\ r.ahead = <<EndToken>>

\* What the next token is, for a frame that has looked at it.
Foreseen(r) ==
  r.stack # <<>> =>
    /\ (IF r.raw = <<>> THEN Ready(Top(r)) ELSE Waiting(r)) => NextIsItem(r)
    /\ Top(r).kind # "optional" /\ Top(r).exhausted /\ Top(r).indefinite => NextIsBreak(r)

Read_Right(r, o) ==
  IF r.raw = <<>>
  THEN Owes(r.stack, o) /\ IF r.root = "ready" THEN Takes(r.read, o) ELSE Stands(r.read, o)
  ELSE OwesRaw(r, o) /\ IF Waiting(r) THEN Takes(r.read, o) ELSE Stands(r.read, o)

Live(r) ==
  /\ Bounded(r)
  /\ ~r.failed
  /\ \A i \in 1..Len(r.stack) : FrameOK(r.stack[i])
  /\ Charged_As(r)
  /\ r.raw # <<>> => RawOK(r)
  /\ Rooted(r)
  /\ Foreseen(r)
  /\ \E o \in Seq(Entries) : Read_Right(r, o)

Dead(r) == Bounded(r) /\ r.failed /\ r.scopes = <<>> /\ r.raw = <<>>

Waits(r, c) ==
  c # NoCall =>
    /\ ~Latched(r) /\ ~r.failed /\ ~Ended(r)
    /\ IF r.raw = <<>> THEN c \in Calls ELSE c = [op |-> "Skip_Step"]

Kept(r, c) ==
  /\ Live(r) \/ Dead(r)
  /\ r.error # Starved
  /\ r.raw # <<>> => ~Latched(r)
  /\ Waits(r, c)

IInv == Kept(reader, call)

-----------------------------------------------------------------------------
(* The reference decoder. *)

\* The largest member of a set is what the grammar's Max picks.
LEMMA MaxIs ==
  ASSUME NEW S, S \subseteq Nat, NEW d \in S, \A y \in S : d >= y
  PROVE  S # {} /\ Grammar!Max(S) = d
<1>1. \A x \in S : (\A y \in S : x >= y) => x = d
  OBVIOUS
<1>. QED
  BY <1>1 DEF Grammar!Max

\* The decoder's innermost entry that is not filled up is the last of o, if that is not.
LEMMA LastPlace ==
  ASSUME NEW p \in Seq(Entries), NEW o \in Seq(Entries), Same(p, o), o # <<>>,
         Pending(o[Len(o)])
  PROVE  \E d \in Owing(p) : (\A y \in Owing(p) : d >= y) /\ p[d] = o[Len(o)]
<1>1. PICK m \in [Owing(o) -> Owing(p)] :
        /\ \A i \in Owing(o) : p[m[i]] = o[i]
        /\ \A i, j \in Owing(o) : i < j => m[i] < m[j]
        /\ \A k \in Owing(p) : \E i \in Owing(o) : m[i] = k
  BY DEF Same
<1>2. Len(o) \in Nat /\ Len(o) > 0 /\ Len(p) \in Nat
  BY EmptySeq, LenProperties
<1>3. Len(o) \in Owing(o) /\ Owing(o) \subseteq 1..Len(o) /\ Owing(p) \subseteq 1..Len(p)
  BY <1>2 DEF Owing
<1>4. ASSUME NEW y \in Owing(p)
      PROVE  m[Len(o)] >= y
  <2>1. PICK i \in Owing(o) : m[i] = y
    BY <1>1
  <2>2. m[i] \in 1..Len(p) /\ m[Len(o)] \in 1..Len(p)
    BY <1>1, <1>3
  <2>3. i = Len(o) \/ i < Len(o)
    BY <1>2, <1>3
  <2>. QED
    BY <1>1, <1>2, <1>3, <2>1, <2>2, <2>3
<1>. QED
  BY <1>1, <1>3, <1>4

\* The innermost entry becomes e, and what was inside it is forgotten.
LEMMA CutIsSame ==
  ASSUME NEW p \in Seq(Entries), NEW o \in Seq(Entries), Same(p, o), o # <<>>,
         Pending(o[Len(o)]), NEW d \in Owing(p), \A y \in Owing(p) : d >= y, NEW e \in Entries
  PROVE  /\ [SubSeq(p, 1, d) EXCEPT ![d] = e] \in Seq(Entries)
         /\ [o EXCEPT ![Len(o)] = e] \in Seq(Entries)
         /\ Same([SubSeq(p, 1, d) EXCEPT ![d] = e], [o EXCEPT ![Len(o)] = e])
<1>. DEFINE q == [SubSeq(p, 1, d) EXCEPT ![d] = e]
            w == [o EXCEPT ![Len(o)] = e]
<1>1. PICK m \in [Owing(o) -> Owing(p)] :
        /\ \A i \in Owing(o) : p[m[i]] = o[i]
        /\ \A i, j \in Owing(o) : i < j => m[i] < m[j]
        /\ \A k \in Owing(p) : \E i \in Owing(o) : m[i] = k
  BY DEF Same
<1>2. Len(o) \in Nat /\ Len(o) > 0 /\ Len(p) \in Nat
  BY EmptySeq, LenProperties
<1>3. Len(o) \in Owing(o) /\ Owing(o) \subseteq 1..Len(o) /\ Owing(p) \subseteq 1..Len(p)
  BY <1>2 DEF Owing
<1>4. d \in 1..Len(p)
  BY <1>3
<1>5. m[Len(o)] = d
  <2>1. PICK i \in Owing(o) : m[i] = d
    BY <1>1
  <2>2. m[Len(o)] \in 1..Len(p) /\ d >= m[Len(o)]
    BY <1>1, <1>3
  <2>3. i = Len(o) \/ i < Len(o)
    BY <1>2, <1>3
  <2>. QED
    BY <1>1, <1>3, <1>4, <2>1, <2>2, <2>3
<1>6. q \in Seq(Entries) /\ Len(q) = d /\ \A i \in 1..d : q[i] = IF i = d THEN e ELSE p[i]
  <2>. DEFINE c == SubSeq(p, 1, d)
  <2>1. c \in Seq(Entries) /\ Len(c) = d /\ \A i \in 1..d : c[i] = p[i]
    BY <1>2, <1>4, SubSeqProperties
  <2>2. q = [c EXCEPT ![d] = e]
    OBVIOUS
  <2>. HIDE DEF c, q
  <2>3. d \in 1..Len(c)
    BY <1>4, <2>1
  <2>4. /\ [c EXCEPT ![d] = e] \in Seq(Entries) /\ Len([c EXCEPT ![d] = e]) = Len(c)
        /\ \A i \in 1..Len(c) : [c EXCEPT ![d] = e][i] = IF i = d THEN e ELSE c[i]
    BY <2>1, <2>3, ExceptSeq
  <2>. QED
    BY <2>1, <2>2, <2>4
<1>7. w \in Seq(Entries) /\ Len(w) = Len(o)
      /\ \A i \in 1..Len(o) : w[i] = IF i = Len(o) THEN e ELSE o[i]
  BY <1>2, ExceptSeq
<1>. HIDE DEF q, w
<1>8. \A i \in 1..d : i \in Owing(q) <=> IF i = d THEN Pending(e) ELSE i \in Owing(p)
  BY <1>3, <1>4, <1>6 DEF Owing
<1>9. \A i \in 1..Len(o) : i \in Owing(w) <=> IF i = Len(o) THEN Pending(e) ELSE i \in Owing(o)
  BY <1>2, <1>7 DEF Owing
<1>10. Owing(q) \subseteq 1..d /\ Owing(w) \subseteq 1..Len(o) /\ Owing(w) \subseteq Owing(o)
  BY <1>3, <1>6, <1>7, <1>9 DEF Owing
<1>. DEFINE n == [i \in Owing(w) |-> m[i]]
<1>11. ASSUME NEW i \in Owing(w)
       PROVE  /\ n[i] = m[i] /\ m[i] \in Owing(q) /\ q[m[i]] = w[i]
  <2>1. i \in Owing(o) /\ m[i] \in Owing(p) /\ p[m[i]] = o[i] /\ i \in 1..Len(o)
    BY <1>1, <1>10
  <2>2. CASE i = Len(o)
    BY <1>2, <1>4, <1>5, <1>6, <1>7, <1>8, <1>9, <2>2
  <2>3. CASE i # Len(o)
    <3>1. m[i] < d
      BY <1>1, <1>3, <1>5, <2>1, <2>3
    <3>2. m[i] \in 1..d /\ m[i] # d
      BY <1>3, <1>4, <2>1, <3>1
    <3>. QED
      BY <1>6, <1>7, <1>8, <2>1, <2>3, <3>2
  <2>. QED
    BY <2>2, <2>3
<1>12. n \in [Owing(w) -> Owing(q)]
  BY <1>11
<1>13. \A i, j \in Owing(w) : i < j => n[i] < n[j]
  BY <1>1, <1>10, <1>11
<1>14. ASSUME NEW k \in Owing(q)
       PROVE  \E i \in Owing(w) : n[i] = k
  <2>1. CASE k = d
    BY <1>2, <1>4, <1>5, <1>8, <1>9, <1>11, <2>1
  <2>2. CASE k # d
    <3>1. k \in Owing(p) /\ k \in 1..d
      BY <1>8, <1>10, <2>2
    <3>2. PICK i \in Owing(o) : m[i] = k
      BY <1>1, <3>1
    <3>3. i # Len(o)
      BY <1>5, <2>2, <3>2
    <3>4. i \in Owing(w)
      BY <1>3, <1>9, <3>3
    <3>. QED
      BY <1>11, <3>2, <3>4
  <2>. QED
    BY <2>1, <2>2
<1>15. \A i \in Owing(w) : q[n[i]] = w[i]
  BY <1>11
<1>. HIDE DEF n
<1>16. Same(q, w)
  BY <1>12, <1>13, <1>14, <1>15 DEF Same
<1>. QED
  BY <1>6, <1>7, <1>16 DEF q, w

\* Entries that are filled up can be dropped in two steps.
LEMMA SameTransitive ==
  ASSUME NEW p, NEW o, NEW w, Same(p, o), Same(o, w)
  PROVE  Same(p, w)
<1>1. PICK m \in [Owing(o) -> Owing(p)] :
        /\ \A i \in Owing(o) : p[m[i]] = o[i]
        /\ \A i, j \in Owing(o) : i < j => m[i] < m[j]
        /\ \A k \in Owing(p) : \E i \in Owing(o) : m[i] = k
  BY DEF Same
<1>2. PICK n \in [Owing(w) -> Owing(o)] :
        /\ \A i \in Owing(w) : o[n[i]] = w[i]
        /\ \A i, j \in Owing(w) : i < j => n[i] < n[j]
        /\ \A k \in Owing(o) : \E i \in Owing(w) : n[i] = k
  BY DEF Same
<1>. DEFINE c == [i \in Owing(w) |-> m[n[i]]]
<1>3. c \in [Owing(w) -> Owing(p)]
  OBVIOUS
<1>4. \A i \in Owing(w) : p[c[i]] = w[i]
  BY <1>1, <1>2
<1>5. \A i, j \in Owing(w) : i < j => c[i] < c[j]
  BY <1>1, <1>2
<1>6. \A k \in Owing(p) : \E i \in Owing(w) : c[i] = k
  BY <1>1, <1>2
<1>. HIDE DEF c
<1>. QED
  BY <1>3, <1>4, <1>5, <1>6 DEF Same

\* Entries that are filled up make no difference at the end,
LEMMA DropFilled ==
  ASSUME NEW o \in Seq(Entries), NEW w \in Seq(Entries), Len(w) <= Len(o),
         \A i \in 1..Len(w) : w[i] = o[i],
         \A i \in 1..Len(o) : i > Len(w) => ~Pending(o[i])
  PROVE  Same(o, w)
<1>1. Len(o) \in Nat /\ Len(w) \in Nat
  BY LenProperties
<1>2. Owing(o) = Owing(w)
  BY <1>1 DEF Owing
<1>. DEFINE m == [i \in Owing(w) |-> i]
<1>3. m \in [Owing(w) -> Owing(o)]
  BY <1>2
<1>4. \A i \in Owing(w) : o[m[i]] = w[i]
  <2>1. \A i \in Owing(w) : i \in 1..Len(w)
    BY DEF Owing
  <2>. QED
    BY <2>1
<1>5. \A k \in Owing(o) : \E i \in Owing(w) : m[i] = k
  BY <1>2
<1>6. \A i, j \in Owing(w) : i < j => m[i] < m[j]
  OBVIOUS
<1>. HIDE DEF m
<1>. QED
  BY <1>3, <1>4, <1>5, <1>6 DEF Same

\* nor before it.
LEMMA InsertFilled ==
  ASSUME NEW o \in Seq(Entries), NEW d \in Entries, NEW e \in Entries, ~Pending(d)
  PROVE  Same(Append(o, e), Append(Append(o, d), e))
<1>. DEFINE p == Append(o, e)
            w == Append(Append(o, d), e)
            l == Len(o)
<1>1. /\ l \in Nat /\ Len(p) = l + 1 /\ Len(w) = l + 2
      /\ \A i \in 1..l : p[i] = o[i] /\ w[i] = o[i]
      /\ p[l + 1] = e /\ w[l + 1] = d /\ w[l + 2] = e
  <2>. DEFINE v == Append(o, d)
  <2>1. l \in Nat /\ v \in Seq(Entries) /\ Len(v) = l + 1
        /\ (\A i \in 1..l : v[i] = o[i]) /\ v[l + 1] = d
    BY LenProperties, AppendProperties
  <2>2. Len(p) = l + 1 /\ (\A i \in 1..l : p[i] = o[i]) /\ p[l + 1] = e
    BY AppendProperties
  <2>3. w = Append(v, e)
    OBVIOUS
  <2>. HIDE DEF v, w, p, l
  <2>4. Len(w) = Len(v) + 1 /\ (\A i \in 1..Len(v) : w[i] = v[i]) /\ w[Len(v) + 1] = e
    BY <2>1, <2>3, AppendProperties
  <2>. QED
    BY <2>1, <2>2, <2>4
<1>. HIDE DEF p, w, l
<1>2. \A i \in 1..l : i \in Owing(w) <=> i \in Owing(p)
  BY <1>1 DEF Owing
<1>3. l + 1 \notin Owing(w) /\ (l + 2 \in Owing(w) <=> l + 1 \in Owing(p))
  BY <1>1 DEF Owing
<1>4. Owing(w) \subseteq 1..(l + 2) /\ Owing(p) \subseteq 1..(l + 1)
  BY <1>1 DEF Owing
<1>. DEFINE m == [i \in Owing(w) |-> IF i = l + 2 THEN l + 1 ELSE i]
<1>5. ASSUME NEW i \in Owing(w)
      PROVE  m[i] \in Owing(p) /\ p[m[i]] = w[i]
  <2>1. i = l + 2 \/ i \in 1..l
    BY <1>1, <1>3, <1>4
  <2>2. CASE i = l + 2
    BY <1>1, <1>3, <2>2
  <2>3. CASE i \in 1..l
    <3>1. m[i] = i
      BY <1>1, <2>3
    <3>. QED
      BY <1>1, <1>2, <2>3, <3>1
  <2>. QED
    BY <2>1, <2>2, <2>3
<1>6. m \in [Owing(w) -> Owing(p)]
  BY <1>5
<1>7. ASSUME NEW i \in Owing(w), NEW j \in Owing(w), i < j
      PROVE  m[i] < m[j]
  <2>1. i \in Int /\ j \in Int /\ i # l + 1 /\ j # l + 1 /\ i <= l + 2 /\ j <= l + 2
    BY <1>1, <1>3, <1>4
  <2>2. /\ m[i] = IF i = l + 2 THEN l + 1 ELSE i
        /\ m[j] = IF j = l + 2 THEN l + 1 ELSE j
    OBVIOUS
  <2>. HIDE DEF m
  <2>. QED
    BY <1>1, <1>7, <2>1, <2>2
<1>8. \A k \in Owing(p) : \E i \in Owing(w) : m[i] = k
  <2>1. \A k \in Owing(p) : k # l + 1 => k \in Owing(w) /\ m[k] = k
    BY <1>1, <1>2, <1>4
  <2>2. l + 1 \in Owing(p) => l + 2 \in Owing(w) /\ m[l + 2] = l + 1
    BY <1>1, <1>3
  <2>. QED
    BY <2>1, <2>2
<1>. HIDE DEF m
<1>9. Same(p, w)
  BY <1>5, <1>6, <1>7, <1>8 DEF Same
<1>. QED
  BY <1>9 DEF p, w

\* The same entry opened on both sides keeps them the same.
LEMMA AppendIsSame ==
  ASSUME NEW p \in Seq(Entries), NEW o \in Seq(Entries), Same(p, o), NEW e \in Entries
  PROVE  Same(Append(p, e), Append(o, e))
<1>. DEFINE q == Append(p, e)
            w == Append(o, e)
            a == Len(p)
            l == Len(o)
<1>1. PICK m \in [Owing(o) -> Owing(p)] :
        /\ \A i \in Owing(o) : p[m[i]] = o[i]
        /\ \A i, j \in Owing(o) : i < j => m[i] < m[j]
        /\ \A k \in Owing(p) : \E i \in Owing(o) : m[i] = k
  BY DEF Same
<1>2. a \in Nat /\ Len(q) = a + 1 /\ (\A i \in 1..a : q[i] = p[i]) /\ q[a + 1] = e
  BY LenProperties, AppendProperties
<1>3. l \in Nat /\ Len(w) = l + 1 /\ (\A i \in 1..l : w[i] = o[i]) /\ w[l + 1] = e
  BY LenProperties, AppendProperties
<1>4. Owing(o) \subseteq 1..l /\ Owing(p) \subseteq 1..a
  BY DEF Owing
<1>. HIDE DEF q, w, a, l
<1>5. \A i \in 1..a : i \in Owing(q) <=> i \in Owing(p)
  <2>1. a = Len(p)
    BY DEF a
  <2>. QED
    BY <1>2, <2>1 DEF Owing
<1>6. \A i \in 1..l : i \in Owing(w) <=> i \in Owing(o)
  <2>1. l = Len(o)
    BY DEF l
  <2>. QED
    BY <1>3, <2>1 DEF Owing
<1>7. (a + 1 \in Owing(q) <=> Pending(e)) /\ (l + 1 \in Owing(w) <=> Pending(e))
  BY <1>2, <1>3 DEF Owing
<1>8. Owing(q) \subseteq 1..(a + 1) /\ Owing(w) \subseteq 1..(l + 1)
  BY <1>2, <1>3 DEF Owing
<1>. DEFINE n == [i \in Owing(w) |-> IF i = l + 1 THEN a + 1 ELSE m[i]]
<1>9. ASSUME NEW i \in Owing(w)
      PROVE  /\ n[i] \in Owing(q) /\ q[n[i]] = w[i]
             /\ IF i = l + 1 THEN n[i] = a + 1
                ELSE i \in Owing(o) /\ n[i] = m[i] /\ n[i] \in Owing(p) /\ n[i] \in 1..a
  <2>1. CASE i = l + 1
    BY <1>2, <1>3, <1>7, <2>1
  <2>2. CASE i # l + 1
    <3>1. i \in 1..l
      BY <1>3, <1>8, <2>2
    <3>2. i \in Owing(o)
      BY <1>6, <3>1
    <3>3. n[i] = m[i] /\ m[i] \in Owing(p) /\ m[i] \in 1..a
      BY <1>4, <2>2, <3>2
    <3>. QED
      BY <1>1, <1>2, <1>3, <1>5, <2>2, <3>1, <3>2, <3>3
  <2>. QED
    BY <2>1, <2>2
<1>10. n \in [Owing(w) -> Owing(q)]
  BY <1>9
<1>11. \A i, j \in Owing(w) : i < j => n[i] < n[j]
  <2>1. ASSUME NEW i \in Owing(w), NEW j \in Owing(w), i < j
        PROVE  n[i] < n[j]
    <3>1. i \in 1..(l + 1) /\ j \in 1..(l + 1) /\ i # l + 1
      BY <1>3, <1>8, <2>1
    <3>2. i \in Owing(o) /\ n[i] = m[i] /\ n[i] \in 1..a
      BY <1>9, <3>1
    <3>3. CASE j = l + 1
      BY <1>2, <1>9, <3>2, <3>3
    <3>4. CASE j # l + 1
      BY <1>1, <1>9, <2>1, <3>2, <3>4
    <3>. QED
      BY <3>3, <3>4
  <2>. QED
    BY <2>1
<1>12. ASSUME NEW k \in Owing(q)
       PROVE  \E i \in Owing(w) : n[i] = k
  <2>1. CASE k = a + 1
    BY <1>7, <2>1
  <2>2. CASE k # a + 1
    <3>1. k \in Owing(p)
      BY <1>2, <1>5, <1>8, <2>2
    <3>2. PICK i \in Owing(o) : m[i] = k
      BY <1>1, <3>1
    <3>3. i \in 1..l /\ i # l + 1
      BY <1>3, <1>4, <3>2
    <3>4. i \in Owing(w)
      BY <1>6, <3>2, <3>3
    <3>. QED
      BY <3>2, <3>3, <3>4
  <2>. QED
    BY <2>1, <2>2
<1>. HIDE DEF n
<1>13. Same(q, w)
  BY <1>9, <1>10, <1>11, <1>12 DEF Same
<1>. QED
  BY <1>13 DEF q, w

\* One more item fills up the innermost entry.
LEMMA FilledIs ==
  ASSUME NEW e \in Entries, Pending(e)
  PROVE  Grammar!Filled(e) \in Entries
<1>1. CASE e.indefinite /\ e.pairs
  BY <1>1 DEF Grammar!Filled, Entries
<1>2. CASE e.indefinite /\ ~e.pairs
  BY <1>2 DEF Grammar!Filled, Entries
<1>3. CASE ~e.indefinite
  <2>1. Grammar!Filled(e) = [e EXCEPT !.left = @ - 1]
    BY <1>3 DEF Grammar!Filled
  <2>. QED
    BY <1>3, <2>1 DEF Entries, Pending
<1>. QED
  BY <1>1, <1>2, <1>3

\* The innermost entry, where there is one, is an entry.
LEMMA LastIs ==
  ASSUME NEW o \in Seq(Entries), o # <<>>
  PROVE  Len(o) \in Nat /\ Len(o) > 0 /\ o[Len(o)] \in Entries
<1>1. Len(o) \in Nat /\ Len(o) > 0
  BY EmptySeq, LenProperties
<1>. QED
  BY <1>1, ElementOfSeq

\* A decoder with nothing open is owed nothing.
LEMMA SameEmpty == Same(<<>>, <<>>)
<1>1. Owing(<<>>) = {}
  BY DEF Owing
<1>. DEFINE m == [i \in {} |-> 0]
<1>2. m \in [{} -> {}]
  OBVIOUS
<1>. HIDE DEF m
<1>. QED
  BY <1>1, <1>2 DEF Same

\* The decoder takes an item where one may come, and its innermost entry is filled by one.
LEMMA ItemTaken ==
  ASSUME NEW g \in Decoders, NEW o \in Seq(Entries), Takes(g, o)
  PROVE  /\ Grammar!ReadItem(g) \in Decoders
         /\ FillLast(o) \in Seq(Entries)
         /\ Stands(Grammar!ReadItem(g), FillLast(o))
<1>1. CASE o = <<>>
  <2>1. g = Grammar!Start /\ FillLast(o) = <<>>
    BY <1>1 DEF Takes, FillLast
  <2>2. Grammar!Incomplete(g) = {}
    BY <2>1 DEF Grammar!Start, Grammar!Incomplete
  <2>3. Grammar!ReadItem(g) = [Grammar!Start EXCEPT !.started = TRUE]
    BY <2>1, <2>2 DEF Grammar!ReadItem, Grammar!Start
  <2>4. <<>> \in Seq(Entries)
    BY EmptySeq
  <2>. QED
    BY <2>1, <2>3, <2>4, SameEmpty DEF Stands, Grammar!Start, Decoders
<1>2. CASE o # <<>>
  <2>. DEFINE in == Owing(g.open)
              e == Grammar!Filled(o[Len(o)])
  <2>1. Stands(g, o) /\ Pending(o[Len(o)])
    BY <1>2 DEF Takes
  <2>2. g.open \in Seq(Entries) /\ Same(g.open, o) /\ ~g.bad /\ g.body = 0 /\ g.started = TRUE
    BY <2>1 DEF Stands, Decoders
  <2>3. PICK d \in in : (\A y \in in : d >= y) /\ g.open[d] = o[Len(o)]
    BY <1>2, <2>1, <2>2, LastPlace
  <2>4. in \subseteq 1..Len(g.open) /\ Len(g.open) \in Nat
    BY <2>2, LenProperties DEF Owing
  <2>5. in # {} /\ Grammar!Max(in) = d
    BY <2>3, <2>4, MaxIs
  <2>6. e \in Entries
    BY <1>2, <2>1, LastIs, FilledIs
  <2>7. Grammar!Incomplete(g) = in
    BY DEF Grammar!Incomplete, Owing, Pending
  <2>. HIDE DEF in, e
  <2>8. Grammar!ReadItem(g) = Grammar!Until(g, d, Grammar!Filled(g.open[d]))
    BY <2>2, <2>5, <2>7 DEF Grammar!ReadItem
  <2>9. Grammar!Filled(g.open[d]) = e
    BY <2>3 DEF e
  <2>10. Grammar!Until(g, d, e) = [g EXCEPT !.open = [SubSeq(g.open, 1, d) EXCEPT ![d] = e]]
    BY DEF Grammar!Until
  <2>11. /\ [SubSeq(g.open, 1, d) EXCEPT ![d] = e] \in Seq(Entries)
         /\ [o EXCEPT ![Len(o)] = e] \in Seq(Entries)
         /\ Same([SubSeq(g.open, 1, d) EXCEPT ![d] = e], [o EXCEPT ![Len(o)] = e])
    <3>1. d \in Owing(g.open) /\ \A y \in Owing(g.open) : d >= y
      BY <2>3 DEF in
    <3>. QED
      BY <1>2, <2>1, <2>2, <2>6, <3>1, CutIsSame
  <2>12. FillLast(o) = [o EXCEPT ![Len(o)] = e]
    BY <1>2 DEF FillLast, e
  <2>. DEFINE q == [SubSeq(g.open, 1, d) EXCEPT ![d] = e]
              w == [o EXCEPT ![Len(o)] = e]
  <2>13. Grammar!ReadItem(g) = [g EXCEPT !.open = q] /\ FillLast(o) = w
    BY <2>8, <2>9, <2>10, <2>12
  <2>14. q \in Seq(Entries) /\ w \in Seq(Entries) /\ Same(q, w)
    BY <2>11
  <2>. HIDE DEF q, w
  <2>. QED
    BY <2>2, <2>13, <2>14 DEF Stands, Decoders
<1>. QED
  BY <1>1, <1>2

\* The decoder takes the head of a container, which opens inside what it filled.
LEMMA HeadTaken ==
  ASSUME NEW g \in Decoders, NEW o \in Seq(Entries), Takes(g, o), NEW e \in Entries
  PROVE  /\ Grammar!ReadHead(g, e) \in Decoders
         /\ Append(FillLast(o), e) \in Seq(Entries)
         /\ Stands(Grammar!ReadHead(g, e), Append(FillLast(o), e))
<1>. DEFINE h == Grammar!ReadItem(g)
            w == FillLast(o)
<1>1. h \in Decoders /\ w \in Seq(Entries) /\ Stands(h, w)
  BY ItemTaken
<1>2. Grammar!ReadHead(g, e) = IF h.bad THEN h ELSE [h EXCEPT !.open = Append(@, e)]
  BY DEF Grammar!ReadHead
<1>. HIDE DEF h, w
<1>3. Grammar!ReadHead(g, e) = [h EXCEPT !.open = Append(h.open, e)]
  BY <1>1, <1>2 DEF Stands
<1>4. h.open \in Seq(Entries)
  BY <1>1 DEF Decoders
<1>5. Append(h.open, e) \in Seq(Entries) /\ Append(w, e) \in Seq(Entries)
  BY <1>1, <1>4, AppendProperties
<1>6. Same(Append(h.open, e), Append(w, e))
  BY <1>1, <1>4, AppendIsSame DEF Stands
<1>. DEFINE q == Append(h.open, e)
<1>7. Grammar!ReadHead(g, e) = [h EXCEPT !.open = q] /\ q \in Seq(Entries) /\ Same(q, Append(w, e))
  BY <1>3, <1>5, <1>6
<1>. HIDE DEF q
<1>8. Stands(Grammar!ReadHead(g, e), Append(w, e)) /\ Grammar!ReadHead(g, e) \in Decoders
  BY <1>1, <1>7 DEF Stands, Decoders
<1>. QED
  BY <1>5, <1>8 DEF w

\* A break closes an indefinite entry, and no other.
LEMMA BreakTaken ==
  ASSUME NEW g \in Decoders, NEW o \in Seq(Entries), Stands(g, o), o # <<>>,
         o[Len(o)].indefinite, ~o[Len(o)].odd
  PROVE  /\ Grammar!ReadBreak(g) \in Decoders
         /\ [o EXCEPT ![Len(o)] = Grammar!Definite(0)] \in Seq(Entries)
         /\ Stands(Grammar!ReadBreak(g), [o EXCEPT ![Len(o)] = Grammar!Definite(0)])
<1>. DEFINE in == Owing(g.open)
            e == Grammar!Definite(0)
<1>1. g.open \in Seq(Entries) /\ Same(g.open, o) /\ ~g.bad /\ g.body = 0 /\ g.started = TRUE
      /\ Pending(o[Len(o)])
  BY DEF Stands, Decoders, Pending
<1>2. PICK d \in in : (\A y \in in : d >= y) /\ g.open[d] = o[Len(o)]
  BY <1>1, LastPlace
<1>3. in \subseteq 1..Len(g.open) /\ Len(g.open) \in Nat
  BY <1>1, LenProperties DEF Owing
<1>4. in # {} /\ Grammar!Max(in) = d
  BY <1>2, <1>3, MaxIs
<1>5. e \in Entries
  BY DEF Grammar!Definite, Entries
<1>6. Grammar!Incomplete(g) = in
  BY DEF Grammar!Incomplete, Owing, Pending
<1>7. d \in Owing(g.open) /\ \A y \in Owing(g.open) : d >= y
  BY <1>2
<1>. DEFINE q == [SubSeq(g.open, 1, d) EXCEPT ![d] = e]
            w == [o EXCEPT ![Len(o)] = e]
<1>8. q \in Seq(Entries) /\ w \in Seq(Entries) /\ Same(q, w)
  BY <1>1, <1>5, <1>7, CutIsSame
<1>9. Grammar!Until(g, d, e) = [g EXCEPT !.open = q]
  BY DEF Grammar!Until
<1>. HIDE DEF in, e, q, w
<1>10. Grammar!ReadBreak(g) = Grammar!Until(g, d, e)
  BY <1>1, <1>2, <1>4, <1>6 DEF Grammar!ReadBreak, e
<1>11. Stands(Grammar!ReadBreak(g), w) /\ Grammar!ReadBreak(g) \in Decoders
  BY <1>1, <1>8, <1>9, <1>10 DEF Stands, Decoders
<1>. QED
  BY <1>8, <1>11 DEF w, e

\* A break cannot come where no run is open, nor between a key and its value.
LEMMA BreakRefused ==
  ASSUME NEW g \in Decoders, NEW o \in Seq(Entries), Takes(g, o),
         o # <<>> => ~o[Len(o)].indefinite \/ o[Len(o)].odd
  PROVE  Grammar!ReadBreak(g) = Grammar!Malformed /\ Grammar!ReadBreak(g).bad
<1>1. CASE o = <<>>
  <2>1. Grammar!Incomplete(g) = {}
    BY <1>1 DEF Takes, Grammar!Start, Grammar!Incomplete
  <2>. QED
    BY <2>1 DEF Grammar!ReadBreak, Grammar!Malformed
<1>2. CASE o # <<>>
  <2>. DEFINE in == Owing(g.open)
  <2>1. g.open \in Seq(Entries) /\ Same(g.open, o) /\ Pending(o[Len(o)])
    BY <1>2 DEF Takes, Stands, Decoders
  <2>2. PICK d \in in : (\A y \in in : d >= y) /\ g.open[d] = o[Len(o)]
    BY <1>2, <2>1, LastPlace
  <2>3. in \subseteq 1..Len(g.open) /\ Len(g.open) \in Nat
    BY <2>1, LenProperties DEF Owing
  <2>4. Grammar!Max(in) = d
    BY <2>2, <2>3, MaxIs
  <2>5. Grammar!Incomplete(g) = in
    BY DEF Grammar!Incomplete, Owing, Pending
  <2>. HIDE DEF in
  <2>. QED
    BY <1>2, <2>2, <2>4, <2>5 DEF Grammar!ReadBreak, Grammar!Malformed
<1>. QED
  BY <1>1, <1>2

\* Where an item is owed, the document is not whole,
LEMMA TakesIsNotWhole ==
  ASSUME NEW g \in Decoders, NEW o \in Seq(Entries), Takes(g, o)
  PROVE  ~Grammar!Whole(g)
<1>1. CASE o = <<>>
  BY <1>1 DEF Takes, Grammar!Start, Grammar!Whole
<1>2. CASE o # <<>>
  <2>1. g.open \in Seq(Entries) /\ Same(g.open, o) /\ Pending(o[Len(o)])
    BY <1>2 DEF Takes, Stands, Decoders
  <2>2. PICK d \in Owing(g.open) : TRUE
    BY <1>2, <2>1, LastPlace
  <2>3. Grammar!Incomplete(g) = Owing(g.open)
    BY DEF Grammar!Incomplete, Owing, Pending
  <2>. QED
    BY <2>2, <2>3 DEF Grammar!Whole
<1>. QED
  BY <1>1, <1>2

\* and where none is, it is, and nothing can follow.
LEMMA NothingOwed ==
  ASSUME NEW g \in Decoders, Stands(g, <<>>)
  PROVE  /\ Grammar!Whole(g)
         /\ \A t \in Tokens : Grammar!ReadToken(g, Structure(t)).bad
<1>1. Owing(<<>>) = {}
  BY DEF Owing
<1>2. Owing(g.open) = {}
  BY <1>1 DEF Stands, Same
<1>3. Grammar!Incomplete(g) = {}
  BY <1>2 DEF Grammar!Incomplete, Owing, Pending
<1>4. ~g.bad /\ g.body = 0 /\ g.started
  BY DEF Stands
<1>5. Grammar!ReadItem(g).bad /\ Grammar!ReadBreak(g).bad /\ \A e : Grammar!ReadHead(g, e).bad
  <2>1. Grammar!ReadItem(g) = Grammar!Malformed
    BY <1>3, <1>4 DEF Grammar!ReadItem
  <2>2. Grammar!ReadBreak(g) = Grammar!Malformed
    BY <1>3 DEF Grammar!ReadBreak
  <2>. QED
    BY <2>1, <2>2 DEF Grammar!ReadHead, Grammar!Malformed
<1>6. ASSUME NEW t \in Tokens
      PROVE  Grammar!ReadToken(g, Structure(t)).bad
  BY <1>5 DEF Grammar!ReadToken, Structure, Tokens, Plain
<1>. QED
  BY <1>3, <1>4, <1>6 DEF Grammar!Whole

\* What a token adds to what the decoder is owed.
Opens(t) == t.head \in {"array", "map", "array_start", "map_start", "tag"}

Opened(t) ==
  IF Indefinite(t) THEN Grammar!Indefinite(IsMap(t))
  ELSE IF t.head = "tag" THEN Grammar!Definite(1)
  ELSE Grammar!Definite(IF IsMap(t) THEN 2 * t.count ELSE t.count)

Taken(o, t) == IF Opens(t) THEN Append(FillLast(o), Opened(t)) ELSE FillLast(o)

\* Only the head of an array or of a map counts something.
LEMMA TokenIs ==
  ASSUME NEW t \in Tokens
  PROVE  t.count \in Nat /\ (~(t.head \in {"array", "map"}) => t.count = 0)
<1>1. CASE \/ t \in [head : Plain, count : {0}, name : {NoName}]
           \/ t \in [head : {"text"}, count : {0}, name : Names]
  <2>1. t.head \in Plain \cup {"text"} /\ t.count = 0
    BY <1>1
  <2>. QED
    BY <2>1 DEF Plain
<1>2. CASE t \in [head : {"array", "map"}, count : 0..MaxCount, name : {NoName}]
  <2>1. t.head \in {"array", "map"} /\ t.count \in 0..MaxCount
    BY <1>2
  <2>. QED
    BY <2>1, MaxCountAssumption
<1>. QED
  BY <1>1, <1>2 DEF Tokens

\* What a token opens is an entry of the decoder.
LEMMA OpenedIs ==
  ASSUME NEW t \in Tokens
  PROVE  Opened(t) \in Entries
<1>1. t.count \in Nat
  BY TokenIs
<1>. QED
  BY <1>1 DEF Opened, Entries, Grammar!Indefinite, Grammar!Definite, IsMap

\* The decoder takes any token but a break where an item may come.
LEMMA TokenTaken ==
  ASSUME NEW g \in Decoders, NEW o \in Seq(Entries), Takes(g, o),
         NEW t \in Tokens, t.head # "break"
  PROVE  /\ Grammar!ReadToken(g, Structure(t)) \in Decoders
         /\ Taken(o, t) \in Seq(Entries)
         /\ Stands(Grammar!ReadToken(g, Structure(t)), Taken(o, t))
<1>. DEFINE h == Grammar!ReadItem(g)
<1>1. h \in Decoders /\ FillLast(o) \in Seq(Entries) /\ Stands(h, FillLast(o))
  BY ItemTaken
<1>2. CASE Opens(t)
  <2>1. Opened(t) \in Entries
    BY OpenedIs
  <2>2. Grammar!ReadToken(g, Structure(t)) = Grammar!ReadHead(g, Opened(t))
    <3>1. CASE t.head = "array"
      BY <3>1 DEF Opened, Structure, Grammar!ReadToken, Indefinite, IsMap
    <3>2. CASE t.head = "map"
      BY <3>2 DEF Opened, Structure, Grammar!ReadToken, Indefinite, IsMap
    <3>3. CASE t.head = "tag"
      BY <3>3 DEF Opened, Structure, Grammar!ReadToken, Indefinite, IsMap
    <3>4. CASE t.head = "array_start"
      <4>1. IsMap(t) = FALSE /\ Indefinite(t) /\ Structure(t) = t
        BY <3>4 DEF IsMap, Indefinite, Structure
      <4>. QED
        BY <3>4, <4>1 DEF Opened, Grammar!ReadToken
    <3>5. CASE t.head = "map_start"
      <4>1. IsMap(t) = TRUE /\ Indefinite(t) /\ Structure(t) = t
        BY <3>5 DEF IsMap, Indefinite, Structure
      <4>. QED
        BY <3>5, <4>1 DEF Opened, Grammar!ReadToken
    <3>. QED
      BY <1>2, <3>1, <3>2, <3>3, <3>4, <3>5 DEF Opens
  <2>. QED
    BY <1>2, <2>1, <2>2, HeadTaken DEF Taken
<1>3. CASE ~Opens(t)
  <2>. HIDE DEF h
  <2>1. Structure(t) = [head |-> IF IsText(t) THEN "string" ELSE "scalar", count |-> 0]
    BY <1>3 DEF Opens, Structure
  <2>2. CASE IsText(t)
    <3>1. h.bad = FALSE /\ h.body = 0 /\ [h EXCEPT !.body = 0] = h
      BY <1>1 DEF Stands, Decoders
    <3>2. Grammar!ReadToken(g, Structure(t)) = IF h.bad THEN h ELSE [h EXCEPT !.body = 0]
      BY <2>1, <2>2 DEF Grammar!ReadToken, h
    <3>3. Grammar!ReadToken(g, Structure(t)) = h
      BY <3>1, <3>2
    <3>. QED
      BY <1>1, <1>3, <3>3 DEF Taken
  <2>3. CASE ~IsText(t)
    <3>1. Grammar!ReadToken(g, Structure(t)) = h
      BY <2>1, <2>3 DEF Grammar!ReadToken, h
    <3>. QED
      BY <1>1, <1>3, <3>1 DEF Taken
  <2>. QED
    BY <2>2, <2>3
<1>. QED
  BY <1>2, <1>3

\* A break is read as a break.
LEMMA BreakIsBreak ==
  ASSUME NEW g, NEW t, t.head = "break"
  PROVE  Grammar!ReadToken(g, Structure(t)) = Grammar!ReadBreak(g)
BY DEF Structure, Grammar!ReadToken

-----------------------------------------------------------------------------
(* Calls that fail. *)

\* A refused reader: the budget is empty, and the code is justified.  `late` says that the
\* source has already shown its end.
Refused(t, late) ==
  /\ Bounded(t)
  /\ t.failed
  /\ t.scopes = <<>>
  /\ Latched(t) /\ t.error \in Codes \cup {Starved}
  /\ t.error = Starved => t.ahead = <<>> /\ ~late
  /\ t.error = "Syntax_Error" => Malformed(t)

\* A reader in the middle of a call.
Sound(r, late) ==
  /\ Bounded(r)
  /\ ~r.failed
  /\ ~Latched(r)
  /\ late => Ended(r)

\* The parts of a reader, and when its sequences are empty.
LEMMA ReaderIs ==
  ASSUME NEW r \in Readers
  PROVE  /\ r.stack \in Seq(Frames) /\ Len(r.stack) \in Nat
         /\ r.scopes \in Seq(Nat) /\ Len(r.scopes) \in Nat
         /\ r.raw \in Seq(Skips) /\ Len(r.raw) \in Nat
         /\ r.ahead \in Seq(Tokens) /\ Len(r.ahead) \in Nat
         /\ r.read \in Decoders /\ r.values \in Nat /\ r.input \in Nat
         /\ r.failed \in BOOLEAN /\ r.complete \in BOOLEAN
         /\ (r.stack = <<>> <=> Len(r.stack) = 0)
         /\ (r.raw = <<>> <=> Len(r.raw) = 0)
         /\ (r.ahead = <<>> <=> Len(r.ahead) = 0)
         /\ (r.scopes = <<>> <=> Len(r.scopes) = 0)
         /\ \A i \in 1..Len(r.stack) : r.stack[i] \in Frames
         /\ \A i \in 1..Len(r.scopes) : r.scopes[i] \in Nat
         /\ \A i \in 1..Len(r.raw) : r.raw[i] \in Skips
         /\ \A i \in 1..Len(r.ahead) : r.ahead[i] \in Tokens
<1>1. /\ r.stack \in Seq(Frames) /\ r.scopes \in Seq(Nat) /\ r.raw \in Seq(Skips)
      /\ r.ahead \in Seq(Tokens)
      /\ r.read \in Decoders /\ r.values \in Nat /\ r.input \in Nat
      /\ r.failed \in BOOLEAN /\ r.complete \in BOOLEAN
  BY DEF Readers
<1>2. /\ Len(r.stack) \in Nat /\ Len(r.scopes) \in Nat /\ Len(r.raw) \in Nat
      /\ Len(r.ahead) \in Nat
  BY <1>1, LenProperties
<1>3. /\ (r.stack = <<>> <=> Len(r.stack) = 0)
      /\ (r.raw = <<>> <=> Len(r.raw) = 0)
      /\ (r.ahead = <<>> <=> Len(r.ahead) = 0)
      /\ (r.scopes = <<>> <=> Len(r.scopes) = 0)
  BY <1>1, EmptySeq
<1>4. /\ \A i \in 1..Len(r.stack) : r.stack[i] \in Frames
      /\ \A i \in 1..Len(r.scopes) : r.scopes[i] \in Nat
      /\ \A i \in 1..Len(r.raw) : r.raw[i] \in Skips
      /\ \A i \in 1..Len(r.ahead) : r.ahead[i] \in Tokens
  BY <1>1, ElementOfSeq
<1>. QED
  BY <1>1, <1>2, <1>3, <1>4

\* A failure with a real reason leaves a reader that refuses.
LEMMA FailIsRefused ==
  ASSUME NEW r, NEW late, Sound(r, late), NEW c \in Codes \cup {Starved},
         c = Starved => r.ahead = <<>>,
         c = "Syntax_Error" => Malformed(r)
  PROVE  Refused(Fail(r, c), late)
<1>. c # NoError /\ c \in Errors
  BY DEF Codes, Starved, NoError, Errors
<1>1. Fail(r, c) = [r EXCEPT !.error = c, !.scopes = <<>>, !.failed = TRUE]
  <2>1. LatchCode(r, c) = [r EXCEPT !.error = c]
    BY DEF LatchCode, Sound
  <2>2. Latched([r EXCEPT !.error = c])
    BY DEF Latched, Sound, Bounded, Readers
  <2>. QED
    BY <2>1, <2>2 DEF Fail, Latch, Unwind, Sound, Bounded, Readers
<1>. DEFINE t == [r EXCEPT !.error = c, !.scopes = <<>>, !.failed = TRUE]
<1>2. /\ t \in Readers /\ t.failed /\ t.scopes = <<>> /\ t.error = c /\ t.ahead = r.ahead
      /\ t.read = r.read /\ t.values = r.values /\ t.input = r.input
  BY EmptySeq DEF Sound, Bounded, Readers
<1>. HIDE DEF t
<1>3. Bounded(t)
  BY <1>2, EmptySeq, DecodeLimitsAssumption DEF Bounded, Sound
<1>4. Malformed(r) => Malformed(t)
  BY <1>2 DEF Malformed, Next_Token
<1>5. r.ahead = <<>> => ~late
  BY EmptySeq DEF Sound, Ended
<1>. QED
  BY <1>1, <1>2, <1>3, <1>4, <1>5 DEF Refused, Latched, t

\* A reader with an Error latched passes through the helpers as it is.
LEMMA Passes ==
  ASSUME NEW r, Latched(r)
  PROVE  /\ \A b, c : Unless(r, b, c) = r
         /\ \A b : Charged(r, b) = r
         /\ Inspect_Head(r) = r
         /\ Inspect_Surface_Head(r) = r
         /\ Require_Child_Start(r) = r
         /\ Consumed(r) = r
         /\ Charge_Input(r) = r
         /\ Advance(r) = r
         /\ Require_Ready(r) = r
         /\ Check_Value_Ready(r) = r
         /\ Charge_Value(r) = r
         /\ Charge_Item(r) = r
         /\ Started(r) = r
         /\ Prepare_Value(r) = r
         /\ Finish_Value(r) = r
         /\ Finish_Container(r) = r
         /\ Take_Value(r) = r
         /\ Announced(r) = r
         /\ \A f : Push(r, f) = r
         /\ \A f : Scan_Text(r, f) = r
         /\ \A c : Consume_Break(r, c) = r
<1>1. \A b, c : Unless(r, b, c) = r
  BY DEF Unless
<1>2. \A b : Charged(r, b) = r
  BY DEF Charged
<1>3. Inspect_Head(r) = r
  BY <1>1 DEF Inspect_Head
<1>4. Inspect_Surface_Head(r) = r
  BY <1>1, <1>3 DEF Inspect_Surface_Head
<1>5. Require_Child_Start(r) = r
  BY <1>1, <1>3 DEF Require_Child_Start
<1>6. Consumed(r) = r
  BY DEF Consumed
<1>7. Charge_Input(r) = r /\ Charge_Value(r) = r /\ Charge_Item(r) = r
  BY <1>2 DEF Charge_Input, Charge_Value, Charge_Item
<1>8. Advance(r) = r
  BY <1>3, <1>6, <1>7 DEF Advance
<1>9. Require_Ready(r) = r
  BY <1>1 DEF Require_Ready
<1>10. Check_Value_Ready(r) = r
  BY <1>1, <1>3, <1>9 DEF Check_Value_Ready
<1>11. Started(r) = r
  BY DEF Started
<1>12. Prepare_Value(r) = r
  BY <1>7, <1>10, <1>11 DEF Prepare_Value
<1>13. Finish_Value(r) = r
  BY <1>1 DEF Finish_Value
<1>14. Finish_Container(r) = r
  BY DEF Finish_Container
<1>15. Take_Value(r) = r
  BY <1>8, <1>12, <1>13 DEF Take_Value
<1>16. Announced(r) = r
  BY DEF Announced
<1>17. \A f : Push(r, f) = r
  BY <1>2 DEF Push
<1>18. \A f : Scan_Text(r, f) = r
  BY <1>1, <1>4 DEF Scan_Text
<1>19. \A c : Consume_Break(r, c) = r
  BY <1>1, <1>3, <1>8 DEF Consume_Break
<1>. QED
  BY <1>1, <1>2, <1>3, <1>4, <1>5, <1>6, <1>7, <1>8, <1>9, <1>10, <1>11, <1>12, <1>13, <1>14,
     <1>15, <1>16, <1>17, <1>18, <1>19

\* A check is made in vain or passed.
LEMMA UnlessSplits ==
  ASSUME NEW r, NEW late, Sound(r, late), NEW b \in BOOLEAN, NEW c \in Codes \cup {Starved},
         b /\ c = Starved => r.ahead = <<>>,
         b /\ c = "Syntax_Error" => Malformed(r)
  PROVE  IF b THEN Refused(Unless(r, b, c), late) ELSE Unless(r, b, c) = r
<1>1. Unless(r, b, c) = IF b THEN Fail(r, c) ELSE r
  BY DEF Unless, Sound
<1>2. b => Refused(Fail(r, c), late)
  BY FailIsRefused
<1>. QED
  BY <1>1, <1>2

\* The next token can be consumed, if it is in place.
Seen(r) ==
  /\ r.ahead # <<>>
  /\ Next_Token(r) \in Tokens
  /\ Next_Token(r).head \notin {"end", "reserved"}
  /\ Input_Remaining(r) # 0

\* The next token is the first of those ahead.
LEMMA NextIs ==
  ASSUME NEW r \in Readers, r.ahead # <<>>
  PROVE  Next_Token(r) \in Tokens /\ Next_Token(r) = r.ahead[1] /\ Len(r.ahead) > 0
<1>1. Len(r.ahead) \in Nat /\ Len(r.ahead) > 0 /\ \A i \in 1..Len(r.ahead) : r.ahead[i] \in Tokens
  BY ReaderIs
<1>2. Next_Token(r) = r.ahead[1]
  BY ReaderIs, <1>1 DEF Next_Token
<1>. QED
  BY <1>1, <1>2

\* Looking at the next head either refuses or finds it well formed and changes nothing.
LEMMA Inspected ==
  ASSUME NEW r, NEW late, Sound(r, late), ~Grammar!Whole(r.read)
  PROVE  Refused(Inspect_Head(r), late) \/ (Inspect_Head(r) = r /\ Seen(r))
<1>. DEFINE shown == Unless(r, r.ahead = <<>>, Starved)
            inside == Unless(shown, Next_Token(r).head = "end", "Syntax_Error")
            allowed == Unless(inside, Input_Remaining(r) = 0, "Capacity_Exceeded")
            last == Unless(allowed, Next_Token(r).head = "reserved", "Syntax_Error")
<1>1. Inspect_Head(r) = last
  BY DEF Inspect_Head
<1>2. \A s : Refused(s, late) => Latched(s)
  BY DEF Refused
<1>3. IF r.ahead = <<>> THEN Refused(shown, late) ELSE shown = r
  BY UnlessSplits DEF Starved
<1>4. Refused(shown, late) => inside = shown
  BY <1>2, Passes
<1>5. shown = r => IF Next_Token(r).head = "end" THEN Refused(inside, late) ELSE inside = r
  <2>1. Next_Token(r).head = "end" => Malformed(r)
    BY DEF Malformed
  <2>. QED
    BY <2>1, UnlessSplits DEF Starved, Codes
<1>6. Refused(inside, late) => allowed = inside
  BY <1>2, Passes
<1>7. inside = r => IF Input_Remaining(r) = 0 THEN Refused(allowed, late) ELSE allowed = r
  BY UnlessSplits DEF Starved, Codes
<1>8. Refused(allowed, late) => last = allowed
  BY <1>2, Passes
<1>9. allowed = r => IF Next_Token(r).head = "reserved" THEN Refused(last, late) ELSE last = r
  <2>1. Next_Token(r).head = "reserved" => Malformed(r)
    BY DEF Malformed
  <2>. QED
    BY <2>1, UnlessSplits DEF Starved, Codes
<1>10. r.ahead # <<>> => Next_Token(r) \in Tokens
  BY NextIs DEF Sound, Bounded
<1>. HIDE DEF shown, inside, allowed, last
<1>. QED
  BY <1>1, <1>3, <1>4, <1>5, <1>6, <1>7, <1>8, <1>9, <1>10 DEF Seen

Past(r) ==
  [r EXCEPT !.input = @ + 1, !.ahead = Tail(@),
            !.read = Grammar!ReadToken(@, Structure(Next_Token(r)))]

\* Consuming a token that was seen moves past it, and stays sound if the decoder takes it.
LEMMA PastIs ==
  ASSUME NEW r, NEW late, Sound(r, late), Seen(r)
  PROVE  /\ Advance(r) = Past(r)
         /\ Grammar!ReadToken(r.read, Structure(Next_Token(r))) \in Decoders =>
              Sound(Past(r), late)
<1>1. r.ahead # <<>> /\ Next_Token(r) \in Tokens /\ Input_Remaining(r) # 0
      /\ Next_Token(r).head # "end" /\ Next_Token(r).head # "reserved"
  BY DEF Seen
<1>2. ~Latched(r) /\ r.error = NoError /\ r \in Readers
  BY DEF Sound, Latched, Bounded
<1>3. Inspect_Head(r) = r
  BY <1>1, <1>2 DEF Inspect_Head, Unless
<1>4. DecodeLimits.input \in Nat /\ r.input \in Nat
  BY <1>2, DecodeLimitsAssumption DEF Readers
<1>5. r.input + 1 <= DecodeLimits.input
  BY <1>1, <1>4 DEF Input_Remaining
<1>. DEFINE c == [r EXCEPT !.input = @ + 1]
<1>6. Charge_Input(r) = c
  <2>1. Consume_Input(r, 1) = c
    BY <1>2, <1>4, <1>5 DEF Consume_Input, Latched, NoError
  <2>2. ~Latched(c)
    BY <1>2 DEF Latched, Readers
  <2>. HIDE DEF c
  <2>. QED
    BY <1>2, <2>1, <2>2 DEF Charge_Input, Charged, Latch
<1>7. Consumed(c) = Past(r)
  <2>1. ~Latched(c) /\ Next_Token(c) = Next_Token(r)
    BY <1>2 DEF Latched, Readers, Next_Token
  <2>. QED
    BY <1>2, <2>1 DEF Consumed, Past, Readers
<1>8. Advance(r) = Past(r)
  BY <1>3, <1>6, <1>7 DEF Advance
<1>. HIDE DEF c
<1>9. ASSUME Grammar!ReadToken(r.read, Structure(Next_Token(r))) \in Decoders
      PROVE  Sound(Past(r), late)
  <2>1. r.ahead \in Seq(Tokens) /\ Len(r.ahead) \in Nat /\ Len(r.ahead) > 0
        /\ Next_Token(r) = r.ahead[1]
    BY <1>1, <1>2, ReaderIs, NextIs
  <2>2. /\ Tail(r.ahead) \in Seq(Tokens) /\ Len(Tail(r.ahead)) = Len(r.ahead) - 1
        /\ \A i \in 1..(Len(r.ahead) - 1) : Tail(r.ahead)[i] = r.ahead[i + 1]
    BY <1>1, <2>1, HeadTailProperties
  <2>. DEFINE a == Tail(r.ahead)
              g == Grammar!ReadToken(r.read, Structure(Next_Token(r)))
  <2>3. Past(r) = [r EXCEPT !.input = r.input + 1, !.ahead = a, !.read = g]
    BY <1>2 DEF Past, Readers
  <2>4. g \in Decoders
    BY <1>9
  <2>5. a \in Seq(Tokens) /\ Len(a) = Len(r.ahead) - 1
        /\ \A i \in 1..(Len(r.ahead) - 1) : a[i] = r.ahead[i + 1]
    BY <2>2
  <2>. HIDE DEF a, g
  <2>. DEFINE p == Past(r)
  <2>6. /\ p \in Readers /\ p.failed = r.failed /\ p.error = r.error /\ p.values = r.values
        /\ p.input = r.input + 1 /\ p.scopes = r.scopes /\ p.ahead = a
    <3>1. a \in Seq(Tokens) /\ r.input + 1 \in Nat
      BY <1>4, <2>5
    <3>. QED
      BY ONLY <1>2, <2>3, <2>4, <3>1 DEF Readers
  <2>. HIDE DEF p
  <2>7. \A i \in 1..Len(a) : i < Len(a) => a[i].head # "end"
    <3>1. \A i \in 1..Len(r.ahead) : i < Len(r.ahead) => r.ahead[i].head # "end"
      BY DEF Sound, Bounded
    <3>. QED
      BY <2>1, <2>5, <3>1
  <2>8. Bounded(p)
    BY <1>5, <2>6, <2>7 DEF Sound, Bounded
  <2>9. Ended(r) => Ended(p)
    <3>1. ASSUME NEW i \in 1..Len(r.ahead), r.ahead[i].head = "end"
          PROVE  Ended(p)
      <4>1. i # 1
        BY <1>1, <2>1, <3>1
      <4>2. i - 1 \in 1..Len(a) /\ a[i - 1] = r.ahead[i]
        BY <2>1, <2>5, <4>1
      <4>. QED
        BY <2>6, <3>1, <4>2 DEF Ended
    <3>. QED
      BY <3>1 DEF Ended
  <2>10. Sound(p, late)
    BY <2>6, <2>8, <2>9 DEF Sound, Latched
  <2>. QED
    BY <2>10 DEF p
<1>. QED
  BY <1>8, <1>9

\* What the reader consumes next is charged, and an item if it stands where an item does.
LEMMA Advanced ==
  ASSUME NEW r, NEW late, Sound(r, late), ~Grammar!Whole(r.read)
  PROVE  Refused(Advance(r), late) \/ (Seen(r) /\ Advance(r) = Past(r))
<1>1. CASE Refused(Inspect_Head(r), late)
  <2>1. Latched(Inspect_Head(r))
    BY <1>1 DEF Refused
  <2>2. Advance(r) = Inspect_Head(r)
    BY <2>1, Passes DEF Advance
  <2>. QED
    BY <1>1, <2>2
<1>2. CASE Inspect_Head(r) = r /\ Seen(r)
  BY <1>2, PastIs
<1>. QED
  BY <1>1, <1>2, Inspected

\* Consuming a token other than a break where an item may come is always taken.
LEMMA PastTakes ==
  ASSUME NEW r, NEW late, Sound(r, late), Seen(r), NEW o \in Seq(Entries), Takes(r.read, o),
         Next_Token(r).head # "break"
  PROVE  /\ Sound(Past(r), late)
         /\ Taken(o, Next_Token(r)) \in Seq(Entries)
         /\ Stands(Past(r).read, Taken(o, Next_Token(r)))
<1>1. r.read \in Decoders /\ Next_Token(r) \in Tokens /\ r \in Readers
  BY DEF Sound, Bounded, Readers, Seen
<1>2. Past(r).read = Grammar!ReadToken(r.read, Structure(Next_Token(r)))
  BY <1>1 DEF Past, Readers
<1>. QED
  BY <1>1, <1>2, PastIs, TokenTaken

\* The rest of a reader is not touched.
LEMMA PastKeeps ==
  ASSUME NEW r \in Readers
  PROVE  /\ Past(r).stack = r.stack /\ Past(r).root = r.root /\ Past(r).raw = r.raw
         /\ Past(r).scopes = r.scopes /\ Past(r).complete = r.complete
         /\ Past(r).values = r.values /\ Past(r).failed = r.failed /\ Past(r).error = r.error
         /\ Past(r).ahead = Tail(r.ahead)
BY DEF Past, Readers

-----------------------------------------------------------------------------
(* Frames. *)

\* The fields of a frame.
LEMMA FrameIs ==
  ASSUME NEW f \in Frames
  PROVE  /\ f.declared \in Nat /\ f.observed \in Nat
         /\ f.indefinite \in BOOLEAN /\ f.envelope \in BOOLEAN /\ f.known \in BOOLEAN
         /\ f.exhausted \in BOOLEAN
         /\ f.kind \in {"sequence", "map", "record", "variant", "optional"}
         /\ f.child \in {"none", "ready", "progress"}
         /\ f.phase \in {"needs_entry", "key_ready", "key", "value_ready", "value"}
BY DEF Frames

\* A definite frame owes a number of items, and at least one when a child is ready.
LEMMA SlotsIs ==
  ASSUME NEW f \in Frames, FrameOK(f), ~f.indefinite
  PROVE  /\ Slots(f) \in Nat
         /\ Ready(f) => Slots(f) > 0
         /\ f.kind = "map" /\ Odd(f) => Slots(f) > 0
<1>1. f.kind # "optional" => f.declared - f.observed \in Nat
  BY FrameIs DEF FrameOK
<1>. DEFINE l == f.declared - f.observed
<1>2. f.kind = "optional" => Slots(f) = IF f.child = "ready" THEN 1 ELSE 0
  BY DEF Slots
<1>3. f.kind = "sequence" => Slots(f) = l + IF f.child = "ready" THEN 1 ELSE 0
  BY DEF Slots
<1>4. f.kind = "map" =>
        Slots(f) = 2 * l + IF f.phase = "key_ready" THEN 2 ELSE IF Odd(f) THEN 1 ELSE 0
  BY DEF Slots
<1>5. f.kind \in {"record", "variant"} => Slots(f) = 2 * l + IF f.child = "ready" THEN 1 ELSE 0
  BY DEF Slots
<1>6. f.kind # "optional" => l \in Nat
  BY <1>1
<1>7. f.kind = "map" => (Odd(f) <=> f.phase \in {"key", "value_ready"})
  BY DEF Odd
<1>. HIDE DEF l
<1>. QED
  BY <1>2, <1>3, <1>4, <1>5, <1>6, <1>7, FrameIs DEF Ready

\* A frame either owes the value of a key it consumed, or does not.
LEMMA OddIs ==
  ASSUME NEW f
  PROVE  Odd(f) \in BOOLEAN
<1>1. CASE f.kind = "map"
  <2>1. Odd(f) = (f.phase \in {"key", "value_ready"})
    BY <1>1 DEF Odd
  <2>. QED
    BY <2>1
<1>2. CASE f.kind # "map"
  <2>1. Odd(f) = (f.kind # "sequence" /\ f.child = "ready")
    BY <1>2 DEF Odd
  <2>. QED
    BY <2>1
<1>. QED
  BY <1>1, <1>2

\* What a frame owes is two entries of the decoder; a child that is ready is owed.
LEMMA MainIs ==
  ASSUME NEW f \in Frames, FrameOK(f)
  PROVE  /\ Main(f) \in Entries /\ Env(f) \in Entries
         /\ Main(f).indefinite = f.indefinite
         /\ Ready(f) => Pending(Main(f))
         /\ f.kind = "map" /\ Odd(f) => Pending(Main(f))
<1>1. Env(f) \in Entries
  BY DEF Env, Entries, Grammar!Indefinite, Grammar!Definite
<1>2. CASE f.indefinite
  <2>1. (f.kind # "sequence") \in BOOLEAN /\ Odd(f) \in BOOLEAN
    BY OddIs
  <2>2. f.kind = "optional" => Main(f) = Run_Of(FALSE, FALSE)
    BY <1>2 DEF Main
  <2>3. f.kind # "optional" => Main(f) = Run_Of(f.kind # "sequence", Odd(f))
    BY <1>2 DEF Main
  <2>4. \A a, b \in BOOLEAN : Run_Of(a, b) \in Entries /\ Run_Of(a, b).indefinite = TRUE
    BY DEF Run_Of, Entries
  <2>5. Main(f) \in Entries /\ Main(f).indefinite = TRUE
    BY <2>1, <2>2, <2>3, <2>4
  <2>. QED
    BY <1>1, <1>2, <2>5, FrameIs DEF Pending
<1>3. CASE ~f.indefinite
  <2>1. Main(f) = Grammar!Definite(Slots(f))
    BY <1>3 DEF Main
  <2>2. Slots(f) \in Nat /\ (Ready(f) => Slots(f) > 0)
        /\ (f.kind = "map" /\ Odd(f) => Slots(f) > 0)
    BY <1>3, SlotsIs
  <2>3. Main(f).left = Slots(f) /\ Main(f).indefinite = FALSE /\ Main(f) \in Entries
    BY <2>1, <2>2 DEF Grammar!Definite, Entries
  <2>. QED
    BY <1>1, <1>3, <2>2, <2>3, FrameIs DEF Pending
<1>. QED
  BY <1>2, <1>3

\* The announced child is under way.
Commenced(f) ==
  IF f.kind = "map"
  THEN [f EXCEPT !.phase = IF f.phase = "key_ready" THEN "key" ELSE "value"]
  ELSE [f EXCEPT !.child = "progress"]

\* Beginning the child that was announced fills one item of what the frame owes.
LEMMA CommencedIs ==
  ASSUME NEW f \in Frames, FrameOK(f), Ready(f)
  PROVE  /\ Commenced(f) \in Frames /\ FrameOK(Commenced(f)) /\ Busy(Commenced(f))
         /\ Charge(Commenced(f)) = Charge(f) /\ Env(Commenced(f)) = Env(f)
         /\ Main(Commenced(f)) = Grammar!Filled(Main(f))
<1>. DEFINE c == Commenced(f)
<1>1. /\ c \in Frames /\ c.kind = f.kind /\ c.known = f.known /\ c.declared = f.declared
      /\ c.observed = f.observed /\ c.exhausted = f.exhausted
      /\ c.indefinite = f.indefinite /\ c.envelope = f.envelope
      /\ IF f.kind = "map" THEN c.phase = IF f.phase = "key_ready" THEN "key" ELSE "value"
         ELSE c.child = "progress"
  <2>1. CASE f.kind = "map"
    BY <2>1 DEF Commenced, Frames
  <2>2. CASE f.kind # "map"
    BY <2>2 DEF Commenced, Frames
  <2>. QED
    BY <2>1, <2>2
<1>. HIDE DEF c
<1>2. Charge(c) = Charge(f) /\ Env(c) = Env(f) /\ Busy(c)
  BY <1>1 DEF Charge, Env, Busy
<1>3. ~f.exhausted \/ f.kind = "optional"
  BY DEF FrameOK, Idle, Ready
<1>4. FrameOK(c)
  BY <1>1, <1>3 DEF FrameOK
<1>5. CASE f.indefinite
  <2>1. (f.kind # "sequence") \in BOOLEAN /\ Odd(f) \in BOOLEAN /\ Odd(c) \in BOOLEAN
    BY OddIs
  <2>2. f.kind = "optional" => Main(f) = Run_Of(FALSE, FALSE) /\ Main(c) = Run_Of(FALSE, FALSE)
    BY <1>1, <1>5 DEF Main
  <2>3. f.kind # "optional" => /\ Main(f) = Run_Of(f.kind # "sequence", Odd(f))
                               /\ Main(c) = Run_Of(f.kind # "sequence", Odd(c))
    BY <1>1, <1>5 DEF Main
  <2>4. /\ f.kind = "sequence" => Odd(f) = FALSE /\ Odd(c) = FALSE
        /\ f.kind \notin {"sequence", "optional"} => Odd(c) = ~Odd(f)
    BY <1>1, FrameIs DEF Odd, Ready
  <2>5. \A b \in BOOLEAN : /\ Grammar!Filled(Run_Of(TRUE, b)) = Run_Of(TRUE, ~b)
                           /\ Grammar!Filled(Run_Of(FALSE, b)) = Run_Of(FALSE, b)
    BY DEF Run_Of, Grammar!Filled
  <2>9. Main(c) = Grammar!Filled(Main(f))
    <3>1. CASE f.kind = "optional"
      BY <2>2, <2>5, <3>1
    <3>2. CASE f.kind = "sequence"
      <4>1. Main(f) = Run_Of(FALSE, FALSE) /\ Main(c) = Run_Of(FALSE, FALSE)
        BY <2>3, <2>4, <3>2
      <4>. QED
        BY <2>5, <4>1
    <3>3. CASE f.kind \notin {"sequence", "optional"}
      <4>1. Main(f) = Run_Of(TRUE, Odd(f)) /\ Main(c) = Run_Of(TRUE, ~Odd(f))
        BY <2>3, <2>4, <3>3
      <4>. QED
        BY <2>1, <2>5, <4>1
    <3>. QED
      BY <3>1, <3>2, <3>3
  <2>. QED
    BY <1>1, <1>2, <1>4, <2>9 DEF c
<1>6. CASE ~f.indefinite
  <2>1. Main(f) = Grammar!Definite(Slots(f)) /\ Main(c) = Grammar!Definite(Slots(c))
    BY <1>1, <1>6 DEF Main
  <2>2. Slots(f) \in Nat /\ Slots(f) > 0
    BY <1>6, SlotsIs
  <2>3. Slots(c) = Slots(f) - 1
    <3>1. f.declared - f.observed \in Int /\ f.declared \in Int /\ f.observed \in Int
      BY FrameIs
    <3>2. CASE f.kind = "map"
      <4>1. Slots(f) = 2 * (f.declared - f.observed) + IF f.phase = "key_ready" THEN 2 ELSE 1
        BY <3>2 DEF Slots, Odd, Ready
      <4>2. Slots(c) = 2 * (f.declared - f.observed) + IF f.phase = "key_ready" THEN 1 ELSE 0
        BY <1>1, <3>2 DEF Slots, Odd, Ready
      <4>. QED
        BY <3>1, <4>1, <4>2
    <3>3. CASE f.kind = "optional"
      BY <1>1, <3>3 DEF Slots, Ready
    <3>4. CASE f.kind = "sequence"
      BY <1>1, <3>1, <3>4 DEF Slots, Ready
    <3>5. CASE f.kind \notin {"map", "optional", "sequence"}
      BY <1>1, <3>1, <3>5 DEF Slots, Ready
    <3>. QED
      BY <3>2, <3>3, <3>4, <3>5
  <2>4. \A n \in Nat : n > 0 => Grammar!Filled(Grammar!Definite(n)) = Grammar!Definite(n - 1)
    BY DEF Grammar!Filled, Grammar!Definite
  <2>. QED
    BY <1>1, <1>2, <1>4, <2>1, <2>2, <2>3, <2>4 DEF c
<1>. QED
  BY <1>5, <1>6

-----------------------------------------------------------------------------
(* A value is announced, and taken. *)

\* The next item may be consumed; `o` is what the decoder is owed.
Offers(r, o) ==
  /\ Owes(r.stack, o)
  /\ Takes(r.read, o)
  /\ IF r.stack = <<>> THEN r.root = "ready" ELSE Ready(Top(r)) /\ NextIsItem(r)

\* The innermost frame, where there is one, is a frame.
LEMMA TopIs ==
  ASSUME NEW r \in Readers, r.stack # <<>>
  PROVE  /\ Len(r.stack) \in Nat /\ Len(r.stack) > 0 /\ Len(r.stack) \in 1..Len(r.stack)
         /\ Top(r) \in Frames /\ Top(r) = r.stack[Len(r.stack)]
<1>1. Len(r.stack) \in Nat /\ Len(r.stack) > 0
  BY ReaderIs
<1>. QED
  BY <1>1, ReaderIs DEF Top

\* Frames owe something exactly when there are some; the innermost owes the last entry.
LEMMA OwesIs ==
  ASSUME NEW stack \in Seq(Frames), NEW o \in Seq(Entries), Owes(stack, o)
  PROVE  /\ stack = <<>> <=> o = <<>>
         /\ stack # <<>> => o[Len(o)] = Main(stack[Len(stack)])
<1>1. Len(stack) \in Nat /\ Len(o) \in Nat /\ Len(o) = 2 * Len(stack)
  BY LenProperties DEF Owes
<1>2. (stack = <<>> <=> Len(stack) = 0) /\ (o = <<>> <=> Len(o) = 0)
  BY EmptySeq
<1>3. stack # <<>> => Len(stack) \in 1..Len(stack)
  BY <1>1, <1>2
<1>. QED
  BY <1>1, <1>2, <1>3 DEF Owes

\* A reader that expects a value offers its decoder an item.
LEMMA LiveOffers ==
  ASSUME NEW r, Live(r), r.raw = <<>>, Expects(r)
  PROVE  \E o \in Seq(Entries) : Offers(r, o)
<1>1. PICK o \in Seq(Entries) :
        /\ Owes(r.stack, o)
        /\ IF r.root = "ready" THEN Takes(r.read, o) ELSE Stands(r.read, o)
  BY DEF Live, Read_Right
<1>2. r \in Readers /\ r.stack \in Seq(Frames)
  BY DEF Live, Bounded, Readers
<1>3. CASE r.stack = <<>>
  BY <1>1, <1>3 DEF Expects, Offers
<1>4. CASE r.stack # <<>>
  <2>1. Ready(Top(r))
    BY <1>4 DEF Expects, Ready
  <2>2. NextIsItem(r)
    BY <1>4, <2>1 DEF Live, Foreseen
  <2>3. r.root # "ready"
    BY <1>4 DEF Live, Rooted
  <2>4. Top(r) \in Frames /\ FrameOK(Top(r))
    BY <1>2, <1>4, TopIs DEF Live
  <2>5. Pending(o[Len(o)]) /\ o # <<>>
    BY <1>1, <1>2, <1>4, <2>1, <2>4, MainIs, OwesIs DEF Top
  <2>. QED
    BY <1>1, <1>4, <2>1, <2>2, <2>3, <2>5 DEF Offers, Takes
<1>. QED
  BY <1>1, <1>3, <1>4

\* A reader inside of a call: the frames are right, and a value is under way.
Midway(t, late) ==
  /\ Sound(t, late)
  /\ t.raw = <<>>
  /\ t.root = "progress"
  /\ ~t.complete
  /\ \A i \in 1..Len(t.stack) : FrameOK(t.stack[i])
  /\ Charged_As(t)

\* Whether a value is expected, or under way, is a truth value.
LEMMA ExpectsIs ==
  ASSUME NEW r
  PROVE  Expects(r) \in BOOLEAN /\ InProgress(r) \in BOOLEAN
<1>1. CASE r.stack = <<>>
  <2>1. Expects(r) = (r.root = "ready") /\ InProgress(r) = (r.root = "progress")
    BY <1>1 DEF Expects, InProgress
  <2>. QED
    BY <2>1
<1>2. CASE r.stack # <<>> /\ Top(r).kind = "map"
  <2>1. /\ Expects(r) = (Top(r).phase \in {"key_ready", "value_ready"})
        /\ InProgress(r) = (Top(r).phase \in {"key", "value"})
    BY <1>2 DEF Expects, InProgress
  <2>. QED
    BY <2>1
<1>3. CASE r.stack # <<>> /\ Top(r).kind # "map"
  <2>1. /\ Expects(r) = (Top(r).child = "ready")
        /\ InProgress(r) = (Top(r).child = "progress")
    BY <1>3 DEF Expects, InProgress
  <2>. QED
    BY <2>1
<1>. QED
  BY <1>1, <1>2, <1>3

\* Check_Value_Ready refuses, or a value is expected and nothing changed.
LEMMA Checked ==
  ASSUME NEW r, NEW late, Live(r), Sound(r, late), r.raw = <<>>
  PROVE  \/ Refused(Check_Value_Ready(r), late)
         \/ Check_Value_Ready(r) = r /\ Expects(r)
<1>. DEFINE t == Unless(Require_Ready(r), ~Expects(r), "Invalid_State")
            u == Unless(Inspect_Head(t), Next_Token(r).head = "break", "Invalid_Value")
<1>1. Require_Ready(r) = r
  BY DEF Require_Ready, Unless, Sound
<1>2. IF ~Expects(r) THEN Refused(t, late) ELSE t = r
  <2>1. (~Expects(r)) \in BOOLEAN
    BY ExpectsIs
  <2>. QED
    BY <1>1, <2>1, UnlessSplits DEF Starved, Codes
<1>3. \A s : Refused(s, late) => Latched(s)
  BY DEF Refused
<1>4. CASE ~Expects(r)
  <2>1. Inspect_Head(t) = t /\ Unless(t, Next_Token(r).head = "break", "Invalid_Value") = t
    BY <1>2, <1>3, <1>4, Passes
  <2>. QED
    BY <1>2, <1>4, <2>1 DEF Check_Value_Ready
<1>5. CASE Expects(r)
  <2>1. t = r
    BY <1>2, <1>5
  <2>2. ~Grammar!Whole(r.read)
    <3>1. PICK o \in Seq(Entries) : Offers(r, o)
      BY <1>5, LiveOffers
    <3>. QED
      BY <3>1, TakesIsNotWhole DEF Offers, Sound, Bounded, Readers
  <2>3. Refused(u, late) \/ u = r
    <3>1. CASE Refused(Inspect_Head(t), late)
      BY <1>3, <3>1, Passes
    <3>2. CASE Inspect_Head(t) = r
      <4>1. IF Next_Token(r).head = "break" THEN Refused(u, late) ELSE u = r
        BY <3>2, UnlessSplits DEF Starved, Codes
      <4>. QED
        BY <4>1
    <3>. QED
      BY <2>1, <2>2, <3>1, <3>2, Inspected
  <2>4. Check_Value_Ready(r) = IF MayBeMissing(r) THEN u ELSE t
    BY DEF Check_Value_Ready
  <2>. HIDE DEF t, u
  <2>. QED
    BY <1>5, <2>1, <2>3, <2>4
<1>. QED
  BY <1>4, <1>5

\* The value is charged, and what it was announced to has it under way.
Begun(r) ==
  IF r.stack = <<>>
  THEN [r EXCEPT !.values = @ + 1, !.root = "progress"]
  ELSE [r EXCEPT !.values = @ + 1, !.stack[Len(r.stack)] = Commenced(Top(r))]

\* Prepare_Value refuses, or begins a value within the limit on values.
LEMMA Prepared ==
  ASSUME NEW r, NEW late, Live(r), Sound(r, late), r.raw = <<>>
  PROVE  \/ Refused(Prepare_Value(r), late)
         \/ /\ Prepare_Value(r) = Begun(r)
            /\ Expects(r)
            /\ r.values + 1 <= DecodeLimits.values
<1>. DEFINE k == Check_Value_Ready(r)
            v == Charge_Value(k)
<1>1. Prepare_Value(r) = Started(v)
  BY DEF Prepare_Value
<1>2. \A s : Refused(s, late) => Latched(s)
  BY DEF Refused
<1>3. CASE Refused(k, late)
  <2>1. v = k /\ Started(k) = k
    BY <1>2, <1>3, Passes
  <2>. QED
    BY <1>1, <1>3, <2>1
<1>4. CASE k = r /\ Expects(r)
  <2>1. r \in Readers /\ r.error = NoError /\ ~Latched(r)
    BY DEF Sound, Bounded, Latched
  <2>2. r.values \in Nat /\ DecodeLimits.values \in Nat
    BY <2>1, ReaderIs, DecodeLimitsAssumption
  <2>3. CASE r.values >= DecodeLimits.values
    <3>1. v = Fail(r, "Capacity_Exceeded")
      BY <1>4, <2>1, <2>3 DEF Charge_Value, Charged, Consume_Value, Fail
    <3>2. Refused(v, late)
      BY <3>1, FailIsRefused DEF Starved, Codes
    <3>. QED
      BY <1>1, <1>2, <3>2, Passes
  <2>4. CASE ~(r.values >= DecodeLimits.values)
    <3>. DEFINE c == [r EXCEPT !.values = @ + 1]
    <3>1. Consume_Value(r) = c
      BY <2>1, <2>4 DEF Consume_Value
    <3>2. ~Latched(c) /\ c.stack = r.stack /\ c.root = r.root
      BY <2>1 DEF Latched, Readers
    <3>. HIDE DEF c
    <3>3. v = c
      BY <1>4, <2>1, <3>1, <3>2 DEF Charge_Value, Charged, Latch
    <3>4. Started(c) = IF r.stack = <<>> THEN [c EXCEPT !.root = "progress"]
                       ELSE [c EXCEPT !.stack[Len(r.stack)] = Commenced(Top(r))]
      <4>1. Top(c) = Top(r)
        BY <3>2 DEF Top
      <4>. QED
        BY <3>2, <4>1 DEF Started, SetTop, Commenced
    <3>5. Started(c) = Begun(r)
      BY <2>1, <3>4 DEF Begun, c, Readers
    <3>. QED
      BY <1>1, <1>4, <2>2, <2>4, <3>3, <3>5
  <2>. QED
    BY <2>3, <2>4
<1>. HIDE DEF k, v
<1>5. Refused(k, late) \/ (k = r /\ Expects(r))
  BY Checked DEF k
<1>. QED
  BY <1>3, <1>4, <1>5

\* Beginning a value leaves the reader inside it, with the parent's item counted as filled.
LEMMA BegunIs ==
  ASSUME NEW r, NEW late, Live(r), Sound(r, late), r.raw = <<>>,
         NEW o \in Seq(Entries), Offers(r, o), r.values + 1 <= DecodeLimits.values
  PROVE  /\ Midway(Begun(r), late)
         /\ FillLast(o) \in Seq(Entries) /\ Owes(Begun(r).stack, FillLast(o))
         /\ InProgress(Begun(r))
         /\ Begun(r).read = r.read /\ Begun(r).ahead = r.ahead /\ Begun(r).input = r.input
<1>. DEFINE b == Begun(r)
            n == Len(r.stack)
<1>1. r \in Readers /\ r.values + 1 \in Nat /\ ~r.complete
  <2>1. r \in Readers
    BY DEF Sound, Bounded
  <2>2. r.complete => r.root = "complete" /\ r.stack = <<>>
    BY DEF Live, Rooted
  <2>3. ~r.complete
    BY <2>2 DEF Offers
  <2>. QED
    BY <2>1, <2>3, ReaderIs
<1>2. \A s : /\ s \in Readers /\ s.values = r.values + 1 /\ s.error = r.error
             /\ s.failed = r.failed /\ s.input = r.input /\ s.scopes = r.scopes
             /\ s.ahead = r.ahead
             => Sound(s, late)
  BY DEF Sound, Bounded, Latched, Ended
<1>3. CASE r.stack = <<>>
  <2>1. b = [r EXCEPT !.values = r.values + 1, !.root = "progress"]
    BY <1>1, <1>3 DEF Begun, Readers
  <2>2. /\ b \in Readers /\ b.values = r.values + 1 /\ b.error = r.error /\ b.failed = r.failed
        /\ b.input = r.input /\ b.scopes = r.scopes /\ b.ahead = r.ahead /\ b.raw = r.raw
        /\ b.root = "progress" /\ b.complete = r.complete /\ b.stack = <<>> /\ b.read = r.read
    BY <1>1, <1>3, <2>1 DEF Readers
  <2>. HIDE DEF b
  <2>3. Sound(b, late)
    BY <1>2, <2>2
  <2>4. Charged_As(b) /\ \A i \in 1..Len(b.stack) : FrameOK(b.stack[i])
    BY <1>3, <2>2 DEF Live, Charged_As
  <2>5. Midway(b, late) /\ InProgress(b)
    BY <1>1, <2>2, <2>3, <2>4 DEF Midway, InProgress
  <2>6. o = <<>> /\ FillLast(o) = <<>> /\ Owes(b.stack, FillLast(o))
    <3>1. o = <<>>
      BY <1>1, <1>3, OwesIs, ReaderIs DEF Offers
    <3>. QED
      BY <1>3, <2>2, <3>1 DEF FillLast, Offers
  <2>. QED
    BY <2>2, <2>5, <2>6 DEF b
<1>4. CASE r.stack # <<>>
  <2>. DEFINE f == Top(r)
              c == Commenced(f)
              k == [r.stack EXCEPT ![n] = c]
              w == FillLast(o)
  <2>1. f \in Frames /\ FrameOK(f) /\ Ready(f) /\ n \in Nat /\ n > 0 /\ f = r.stack[n]
        /\ r.stack \in Seq(Frames)
    BY <1>1, <1>4, TopIs, ReaderIs DEF Live, Offers
  <2>2. /\ c \in Frames /\ FrameOK(c) /\ Busy(c) /\ Charge(c) = Charge(f) /\ Env(c) = Env(f)
        /\ Main(c) = Grammar!Filled(Main(f))
    BY <2>1, CommencedIs
  <2>. HIDE DEF c, f
  <2>3. k \in Seq(Frames) /\ Len(k) = n /\ \A i \in 1..n : k[i] = IF i = n THEN c ELSE r.stack[i]
    BY <2>1, <2>2, ExceptSeq
  <2>. HIDE DEF k
  <2>4. b = [r EXCEPT !.values = r.values + 1, !.stack = k]
    BY <1>1, <1>4 DEF Begun, Readers, c, f, k
  <2>5. /\ b \in Readers /\ b.values = r.values + 1 /\ b.error = r.error /\ b.failed = r.failed
        /\ b.input = r.input /\ b.scopes = r.scopes /\ b.ahead = r.ahead /\ b.raw = r.raw
        /\ b.root = r.root /\ b.complete = r.complete /\ b.stack = k /\ b.read = r.read
    <3>1. r.values + 1 \in Nat /\ k \in Seq(Frames)
      BY <1>1, <2>3
    <3>. QED
      BY ONLY <1>1, <2>4, <3>1 DEF Readers
  <2>. HIDE DEF b
  <2>6. Sound(b, late)
    BY <1>2, <2>5
  <2>7. \A i \in 1..Len(b.stack) : FrameOK(b.stack[i])
    BY <2>2, <2>3, <2>5 DEF Live
  <2>8. Charged_As(b)
    BY <2>1, <2>2, <2>3, <2>5 DEF Live, Charged_As
  <2>9. r.root = "progress"
    BY <1>1, <1>4 DEF Live, Rooted, Readers
  <2>10. Midway(b, late)
    BY <1>1, <2>5, <2>6, <2>7, <2>8, <2>9 DEF Midway
  <2>11. InProgress(b)
    <3>1. b.stack # <<>> /\ Top(b) = c
      BY <1>4, <2>1, <2>3, <2>5, EmptySeq DEF Top
    <3>. QED
      BY <2>2, <3>1 DEF InProgress, Busy
  <2>12. w \in Seq(Entries) /\ Owes(b.stack, w)
    <3>1. Len(o) = 2 * n /\ \A i \in 1..n : o[2 * i - 1] = Env(r.stack[i])
                                            /\ o[2 * i] = Main(r.stack[i])
      BY DEF Offers, Owes
    <3>2. o # <<>> /\ Len(o) \in Nat
      BY <2>1, <3>1, EmptySeq, LenProperties
    <3>3. w = [o EXCEPT ![Len(o)] = Grammar!Filled(o[Len(o)])]
      BY <3>2 DEF FillLast
    <3>4. o[Len(o)] = Main(f)
      <4>1. n \in 1..n
        BY <2>1
      <4>. QED
        BY <2>1, <3>1, <4>1
    <3>5. w \in Seq(Entries)
      BY ItemTaken DEF Offers, Sound, Bounded, Readers
    <3>6. Grammar!Filled(o[Len(o)]) \in Entries
      BY <2>2, <3>4, MainIs
    <3>7. /\ Len(w) = Len(o)
          /\ \A j \in 1..Len(o) : w[j] = IF j = Len(o) THEN Main(c) ELSE o[j]
      BY <2>1, <2>2, <3>1, <3>2, <3>3, <3>4, <3>6, ExceptSeq
    <3>. HIDE DEF w
    <3>8. ASSUME NEW i \in 1..n
          PROVE  w[2 * i - 1] = Env(k[i]) /\ w[2 * i] = Main(k[i])
      <4>1. w[2 * i - 1] = o[2 * i - 1]
        BY <2>1, <3>1, <3>7
      <4>2. i = n => w[2 * i] = Main(c)
        BY <2>1, <3>1, <3>7
      <4>3. i # n => w[2 * i] = o[2 * i]
        BY <2>1, <3>1, <3>7
      <4>. QED
        BY <2>1, <2>2, <2>3, <3>1, <4>1, <4>2, <4>3
    <3>. QED
      BY <2>3, <2>5, <3>1, <3>5, <3>7, <3>8 DEF Owes
  <2>. QED
    BY <2>5, <2>10, <2>11, <2>12 DEF b
<1>. QED
  BY <1>3, <1>4

-----------------------------------------------------------------------------
(* A value is finished. *)

\* A call was refused, or the reader is in order again.
Served(u, late) == Refused(u, late) \/ (Live(u) /\ Sound(u, late))

\* Where the next item cannot be a break, a child has to begin.
LEMMA ChildStarts ==
  ASSUME NEW r, NEW late, Sound(r, late), NEW o \in Seq(Entries), Takes(r.read, o),
         o # <<>> => ~o[Len(o)].indefinite \/ o[Len(o)].odd
  PROVE  \/ Refused(Require_Child_Start(r), late)
         \/ Require_Child_Start(r) = r /\ Seen(r) /\ Next_Token(r).head # "break"
<1>. DEFINE i == Inspect_Head(r)
            u == Unless(i, Next_Token(r).head = "break", "Syntax_Error")
<1>1. r.read \in Decoders
  BY DEF Sound, Bounded, Readers
<1>2. ~Grammar!Whole(r.read)
  BY <1>1, TakesIsNotWhole
<1>3. Next_Token(r).head = "break" => Malformed(r)
  <2>1. Grammar!ReadBreak(r.read).bad
    BY <1>1, BreakRefused
  <2>. QED
    BY <2>1, BreakIsBreak DEF Malformed
<1>4. Refused(i, late) \/ (i = r /\ Seen(r))
  BY <1>2, Inspected
<1>5. Refused(i, late) => u = i
  BY Passes DEF Refused
<1>6. i = r => IF Next_Token(r).head = "break" THEN Refused(u, late) ELSE u = r
  BY <1>3, UnlessSplits DEF Starved, Codes
<1>. HIDE DEF i, u
<1>7. Require_Child_Start(r) = u
  BY DEF Require_Child_Start, i, u
<1>. QED
  BY <1>4, <1>5, <1>6, <1>7

\* Replacing the innermost frame leaves everything else as it was.
LEMMA SetTopIs ==
  ASSUME NEW r \in Readers, r.stack # <<>>, NEW c \in Frames
  PROVE  LET u == SetTop(r, c) IN
         /\ u \in Readers /\ u.root = r.root /\ u.failed = r.failed /\ u.complete = r.complete
         /\ u.error = r.error /\ u.scopes = r.scopes /\ u.values = r.values
         /\ u.input = r.input /\ u.raw = r.raw /\ u.ahead = r.ahead /\ u.read = r.read
         /\ Len(u.stack) = Len(r.stack) /\ u.stack # <<>> /\ Top(u) = c
         /\ \A i \in 1..Len(r.stack) :
              u.stack[i] = IF i = Len(r.stack) THEN c ELSE r.stack[i]
<1>. DEFINE n == Len(r.stack)
            k == [r.stack EXCEPT ![n] = c]
            u == SetTop(r, c)
<1>1. r.stack \in Seq(Frames) /\ n \in Nat /\ n > 0
  BY TopIs, ReaderIs
<1>2. k \in Seq(Frames) /\ Len(k) = n /\ \A i \in 1..n : k[i] = IF i = n THEN c ELSE r.stack[i]
  BY <1>1, ExceptSeq
<1>. HIDE DEF k
<1>3. u = [r EXCEPT !.stack = k]
  BY DEF SetTop, k, Readers
<1>4. k \in Seq(Frames)
  BY <1>2
<1>. HIDE DEF u
<1>5. /\ u \in Readers /\ u.root = r.root /\ u.failed = r.failed /\ u.complete = r.complete
      /\ u.error = r.error /\ u.scopes = r.scopes /\ u.values = r.values
      /\ u.input = r.input /\ u.raw = r.raw /\ u.ahead = r.ahead /\ u.read = r.read
      /\ u.stack = k
  BY ONLY r \in Readers, <1>3, <1>4 DEF Readers
<1>6. Top(u) = c /\ u.stack # <<>>
  BY <1>1, <1>2, <1>5, EmptySeq DEF Top
<1>. QED
  BY <1>2, <1>5, <1>6 DEF u

\* The innermost frame changes, and owes what it did.
LEMMA Retopped ==
  ASSUME NEW t, NEW late, Midway(t, late), t.stack # <<>>, NEW c \in Frames, FrameOK(c),
         Charge(c) = Charge(Top(t)), Env(c) = Env(Top(t)), Main(c) = Main(Top(t)),
         NEW w \in Seq(Entries), Owes(t.stack, w)
  PROVE  /\ Midway(SetTop(t, c), late) /\ Owes(SetTop(t, c).stack, w)
         /\ Top(SetTop(t, c)) = c
<1>. DEFINE u == SetTop(t, c)
            n == Len(t.stack)
<1>1. t \in Readers
  BY DEF Midway, Sound, Bounded
<1>2. n \in Nat /\ n > 0 /\ Top(t) = t.stack[n] /\ n \in 1..n
  BY <1>1, TopIs
<1>3. /\ u \in Readers /\ u.root = t.root /\ u.failed = t.failed /\ u.complete = t.complete
      /\ u.error = t.error /\ u.scopes = t.scopes /\ u.values = t.values
      /\ u.input = t.input /\ u.raw = t.raw /\ u.ahead = t.ahead /\ u.read = t.read
      /\ Len(u.stack) = n /\ u.stack # <<>> /\ Top(u) = c
      /\ \A i \in 1..n : u.stack[i] = IF i = n THEN c ELSE t.stack[i]
  BY <1>1, SetTopIs
<1>. HIDE DEF u
<1>4. Sound(u, late)
  BY <1>3 DEF Midway, Sound, Bounded, Latched, Ended
<1>5. \A i \in 1..n : FrameOK(u.stack[i]) /\ Charge(u.stack[i]) = Charge(t.stack[i])
                      /\ Env(u.stack[i]) = Env(t.stack[i]) /\ Main(u.stack[i]) = Main(t.stack[i])
  BY <1>2, <1>3 DEF Midway
<1>6. Charged_As(u)
  BY <1>3, <1>5 DEF Midway, Charged_As
<1>7. Midway(u, late)
  BY <1>3, <1>4, <1>5, <1>6 DEF Midway
<1>8. Owes(u.stack, w)
  BY <1>3, <1>5 DEF Owes
<1>. QED
  BY <1>3, <1>7, <1>8 DEF u

\* A value under way whose decoder stands where its frames say is a live reader.
LEMMA MidwayServes ==
  ASSUME NEW u, NEW late, Midway(u, late), Foreseen(u),
         NEW w \in Seq(Entries), Owes(u.stack, w), Stands(u.read, w)
  PROVE  Served(u, late)
<1>1. Read_Right(u, w)
  BY DEF Read_Right, Midway
<1>2. Rooted(u)
  BY DEF Rooted, Midway
<1>. QED
  BY <1>1, <1>2 DEF Served, Live, Midway, Sound

\* The value that was under way in the frame is finished, a key by the begin of its value.
LEMMA SettledIs ==
  ASSUME NEW f \in Frames, FrameOK(f), Busy(f),
         NEW c, c = IF f.kind = "map"
                    THEN [f EXCEPT !.phase = IF f.phase = "key" THEN "value_ready"
                                             ELSE "needs_entry"]
                    ELSE [f EXCEPT !.child = "none"]
  PROVE  /\ c \in Frames /\ FrameOK(c) /\ Charge(c) = Charge(f) /\ Env(c) = Env(f)
         /\ Main(c) = Main(f)
         /\ Ready(c) => f.kind = "map" /\ f.phase = "key"
         /\ ~(c.kind # "optional" /\ c.exhausted)
<1>1. /\ c \in Frames /\ c.kind = f.kind /\ c.known = f.known /\ c.declared = f.declared
      /\ c.observed = f.observed /\ c.exhausted = f.exhausted
      /\ c.indefinite = f.indefinite /\ c.envelope = f.envelope
      /\ f.kind = "map" => c.phase = IF f.phase = "key" THEN "value_ready" ELSE "needs_entry"
      /\ f.kind # "map" => c.child = "none"
  <2>1. CASE f.kind = "map"
    BY <2>1 DEF Frames
  <2>2. CASE f.kind # "map"
    BY <2>2 DEF Frames
  <2>. QED
    BY <2>1, <2>2
<1>2. ~f.exhausted \/ f.kind = "optional"
  BY DEF FrameOK, Idle, Busy
<1>3. FrameOK(c) /\ Charge(c) = Charge(f) /\ Env(c) = Env(f)
  BY <1>1, <1>2 DEF FrameOK, Charge, Env
<1>4. Ready(c) => f.kind = "map" /\ f.phase = "key"
  BY <1>1 DEF Ready
<1>5. Odd(c) = Odd(f)
  <2>1. CASE f.kind = "map"
    <3>1. Odd(c) = (c.phase \in {"key", "value_ready"}) /\ Odd(f) = (f.phase \in {"key", "value_ready"})
      BY <1>1, <2>1 DEF Odd
    <3>. QED
      BY <1>1, <2>1, <3>1 DEF Busy
  <2>2. CASE f.kind # "map"
    <3>1. /\ Odd(c) = (c.kind # "sequence" /\ c.child = "ready")
          /\ Odd(f) = (f.kind # "sequence" /\ f.child = "ready")
      BY <1>1, <2>2 DEF Odd
    <3>. QED
      BY <1>1, <2>2, <3>1 DEF Busy
  <2>. QED
    BY <2>1, <2>2
<1>6. Slots(c) = Slots(f)
  <2>1. CASE f.kind = "map"
    BY <1>1, <1>5, <2>1 DEF Slots, Busy
  <2>2. CASE f.kind # "map"
    BY <1>1, <2>2 DEF Slots, Busy
  <2>. QED
    BY <2>1, <2>2
<1>7. Main(c) = Main(f)
  BY <1>1, <1>5, <1>6 DEF Main
<1>. QED
  BY <1>1, <1>2, <1>3, <1>4, <1>7

\* Finishing a value gives the parent, or the root, back its place.
LEMMA FinishServes ==
  ASSUME NEW t, NEW late, Midway(t, late),
         NEW w \in Seq(Entries), Owes(t.stack, w), Stands(t.read, w)
  PROVE  Served(Finish_Value(t), late)
<1>. DEFINE q == Unless(t, ~InProgress(t), "Invalid_State")
            f == Top(t)
            c == IF f.kind = "map"
                 THEN [f EXCEPT !.phase = IF f.phase = "key" THEN "value_ready" ELSE "needs_entry"]
                 ELSE [f EXCEPT !.child = "none"]
<1>1. t \in Readers /\ ~t.failed /\ ~Latched(t) /\ Sound(t, late) /\ t.read \in Decoders
  BY DEF Midway, Sound, Bounded, Readers
<1>2. IF ~InProgress(t) THEN Refused(q, late) ELSE q = t
  <2>1. (~InProgress(t)) \in BOOLEAN
    BY ExpectsIs
  <2>. QED
    BY <1>1, <2>1, UnlessSplits DEF Starved, Codes
<1>3. CASE ~InProgress(t)
  <2>1. Latched(q) /\ Refused(q, late)
    BY <1>2, <1>3 DEF Refused
  <2>. QED
    BY <2>1 DEF Finish_Value, Served
<1>4. CASE InProgress(t) /\ t.stack = <<>>
  <2>. DEFINE u == [t EXCEPT !.root = "complete"]
  <2>1. Finish_Value(t) = u
    BY <1>1, <1>2, <1>4 DEF Finish_Value
  <2>2. /\ u \in Readers /\ u.root = "complete" /\ u.failed = t.failed /\ u.complete = t.complete
        /\ u.error = t.error /\ u.scopes = t.scopes /\ u.values = t.values
        /\ u.input = t.input /\ u.raw = t.raw /\ u.ahead = t.ahead /\ u.read = t.read
        /\ u.stack = t.stack
    BY <1>1 DEF Readers
  <2>. HIDE DEF u
  <2>3. Sound(u, late)
    BY <1>1, <2>2 DEF Sound, Bounded, Latched, Ended
  <2>4. Charged_As(u) /\ Rooted(u) /\ Foreseen(u) /\ Read_Right(u, w)
    BY <1>4, <2>2 DEF Midway, Charged_As, Rooted, Foreseen, Read_Right
  <2>5. Live(u)
    BY <2>2, <2>3, <2>4 DEF Live, Sound, Midway
  <2>. QED
    BY <2>1, <2>3, <2>5 DEF Served
<1>5. CASE InProgress(t) /\ t.stack # <<>>
  <2>1. f \in Frames /\ FrameOK(f) /\ f = t.stack[Len(t.stack)]
    BY <1>1, <1>5, TopIs DEF Midway
  <2>2. Busy(f)
    BY <1>5 DEF InProgress, Busy
  <2>. HIDE DEF f
  <2>3. /\ c \in Frames /\ FrameOK(c) /\ Charge(c) = Charge(f) /\ Env(c) = Env(f)
        /\ Main(c) = Main(f)
        /\ Ready(c) => f.kind = "map" /\ f.phase = "key"
        /\ ~(c.kind # "optional" /\ c.exhausted)
    BY <2>1, <2>2, SettledIs
  <2>. HIDE DEF c
  <2>4. Midway(SetTop(t, c), late) /\ Owes(SetTop(t, c).stack, w) /\ Top(SetTop(t, c)) = c
    BY <1>5, <2>1, <2>3, Retopped DEF f
  <2>5. SetTop(t, c).read = t.read /\ SetTop(t, c).ahead = t.ahead /\ SetTop(t, c).raw = t.raw
    BY <1>1, <1>5, <2>3, SetTopIs
  <2>6. (Ready(c) => NextIsItem(t)) => Served(SetTop(t, c), late)
    <3>1. NextIsItem(t) => NextIsItem(SetTop(t, c))
      BY <2>5 DEF NextIsItem, Next_Token
    <3>2. (Ready(c) => NextIsItem(t)) => Foreseen(SetTop(t, c))
      BY <2>3, <2>4, <2>5, <3>1 DEF Foreseen, Midway
    <3>. QED
      BY <2>4, <2>5, <3>2, MidwayServes
  <2>7. CASE f.kind # "map"
    <3>1. Finish_Value(t) = SetTop(t, c)
      BY <1>1, <1>2, <1>5, <2>7 DEF Finish_Value, c, f
    <3>. QED
      BY <2>3, <2>6, <2>7, <3>1
  <2>8. CASE f.kind = "map" /\ f.phase # "key"
    <3>1. Finish_Value(t) = SetTop(t, c)
      BY <1>1, <1>2, <1>5, <2>8 DEF Finish_Value, c, f
    <3>. QED
      BY <2>3, <2>6, <2>8, <3>1
  <2>9. CASE f.kind = "map" /\ f.phase = "key"
    <3>. DEFINE s == Require_Child_Start(t)
    <3>1. Finish_Value(t) = Finish_Key(t)
      BY <1>1, <1>2, <1>5, <2>9 DEF Finish_Value, f
    <3>2. w # <<>> /\ w[Len(w)] = Main(f)
      BY <1>1, <1>5, <2>1, OwesIs, ReaderIs
    <3>3. Odd(f) = TRUE
      BY <2>9 DEF Odd
    <3>4. Pending(Main(f)) /\ (~Main(f).indefinite \/ Main(f).odd)
      <4>1. Pending(Main(f)) /\ Main(f).indefinite = f.indefinite
        BY <2>1, <2>9, <3>3, MainIs
      <4>2. f.indefinite => Main(f).odd
        BY <2>9, <3>3 DEF Main, Run_Of
      <4>. QED
        BY <4>1, <4>2
    <3>5. Takes(t.read, w)
      BY <3>2, <3>4 DEF Takes
    <3>6. Refused(s, late) \/ (s = t /\ Seen(t) /\ Next_Token(t).head # "break")
      BY <1>1, <3>2, <3>4, <3>5, ChildStarts
    <3>7. Finish_Key(t) = IF Latched(s) THEN s ELSE SetTop(s, [Top(s) EXCEPT !.phase = "value_ready"])
      BY DEF Finish_Key
    <3>8. c = [f EXCEPT !.phase = "value_ready"]
      BY <2>9 DEF c
    <3>. HIDE DEF s
    <3>9. CASE Refused(s, late)
      BY <3>1, <3>7, <3>9 DEF Refused, Served
    <3>10. CASE s = t /\ Seen(t) /\ Next_Token(t).head # "break"
      <4>1. Finish_Key(t) = SetTop(t, c)
        BY <1>1, <3>7, <3>8, <3>10 DEF f
      <4>2. NextIsItem(t)
        BY <3>10 DEF NextIsItem, Seen
      <4>. QED
        BY <2>6, <3>1, <4>1, <4>2
    <3>. QED
      BY <3>6, <3>9, <3>10
  <2>. QED
    BY <2>7, <2>8, <2>9
<1>. QED
  BY <1>3, <1>4, <1>5

-----------------------------------------------------------------------------
(* Scalars. *)

\* The head of an item that the reader knows.
Familiar(r) == Seen(r) /\ Next_Token(r).head \notin {"break", "tag", "simple"}

\* Looking at a value past its tags refuses, or finds a familiar head and changes nothing.
LEMMA SurfaceIs ==
  ASSUME NEW r, NEW late, Sound(r, late), ~Grammar!Whole(r.read),
         r.ahead # <<>> /\ Next_Token(r).head = "break" => Malformed(r)
  PROVE  \/ Refused(Inspect_Surface_Head(r), late)
         \/ Inspect_Surface_Head(r) = r /\ Familiar(r)
<1>. DEFINE i == Inspect_Head(r)
            u == Unless(i, Next_Token(r).head = "break", "Syntax_Error")
            v == Unless(u, Next_Token(r).head \in {"tag", "simple"}, "Unsupported_Value")
<1>1. Refused(i, late) \/ (i = r /\ Seen(r))
  BY Inspected
<1>2. \A s : Refused(s, late) => Latched(s)
  BY DEF Refused
<1>3. Refused(i, late) => u = i
  BY <1>2, Passes
<1>4. i = r /\ Seen(r) => IF Next_Token(r).head = "break" THEN Refused(u, late) ELSE u = r
  <2>1. Seen(r) /\ Next_Token(r).head = "break" => Malformed(r)
    BY DEF Seen
  <2>. QED
    BY <2>1, UnlessSplits DEF Starved, Codes
<1>5. Refused(u, late) => v = u
  BY <1>2, Passes
<1>6. u = r => IF Next_Token(r).head \in {"tag", "simple"} THEN Refused(v, late) ELSE v = r
  <2>1. (Next_Token(r).head \in {"tag", "simple"}) \in BOOLEAN
    OBVIOUS
  <2>2. IF Next_Token(r).head \in {"tag", "simple"}
        THEN Refused(Unless(r, Next_Token(r).head \in {"tag", "simple"}, "Unsupported_Value"), late)
        ELSE Unless(r, Next_Token(r).head \in {"tag", "simple"}, "Unsupported_Value") = r
    BY <2>1, UnlessSplits DEF Starved, Codes
  <2>. HIDE DEF u
  <2>. QED
    BY <2>2
<1>7. Inspect_Surface_Head(r) = v
  BY DEF Inspect_Surface_Head
<1>. HIDE DEF i, u, v
<1>. QED
  BY <1>1, <1>3, <1>4, <1>5, <1>6, <1>7 DEF Familiar

\* A value may be read: its head is known.
LEMMA SurfaceOffered ==
  ASSUME NEW r, NEW late, Live(r), Sound(r, late), r.raw = <<>>, Expects(r)
  PROVE  \/ Refused(Inspect_Surface_Head(r), late)
         \/ Inspect_Surface_Head(r) = r /\ Familiar(r)
<1>1. PICK o \in Seq(Entries) : Offers(r, o)
  BY LiveOffers
<1>2. r \in Readers /\ r.read \in Decoders
  BY DEF Sound, Bounded, Readers
<1>3. ~Grammar!Whole(r.read)
  BY <1>1, <1>2, TakesIsNotWhole DEF Offers
<1>4. ASSUME Next_Token(r).head = "break", r.ahead # <<>>
      PROVE  Malformed(r)
  <2>1. r.stack = <<>>
    BY <1>1, <1>4 DEF Offers, NextIsItem
  <2>2. o = <<>>
    BY <1>1, <1>2, <2>1, OwesIs, ReaderIs DEF Offers
  <2>3. Grammar!ReadBreak(r.read).bad
    BY <1>1, <1>2, <2>2, BreakRefused DEF Offers
  <2>. QED
    BY <1>4, <2>3, BreakIsBreak DEF Malformed
<1>. QED
  BY <1>3, <1>4, SurfaceIs

\* A query about the next value refuses, or changes nothing and finds a familiar head.
LEMMA Peeked ==
  ASSUME NEW r, NEW late, Live(r), Sound(r, late), r.raw = <<>>
  PROVE  \/ Refused(Inspect_Surface_Head(Check_Value_Ready(r)), late)
         \/ /\ Inspect_Surface_Head(Check_Value_Ready(r)) = r
            /\ Familiar(r) /\ Expects(r)
<1>1. CASE Refused(Check_Value_Ready(r), late)
  BY <1>1, Passes DEF Refused
<1>2. CASE Check_Value_Ready(r) = r /\ Expects(r)
  BY <1>2, SurfaceOffered
<1>. QED
  BY <1>1, <1>2, Checked

\* A query for one kind refuses on another kind, and else changes nothing.
LEMMA KindChecked ==
  ASSUME NEW r, NEW late, Live(r), Sound(r, late), r.raw = <<>>, NEW b \in BOOLEAN
  PROVE  LET t == Unless(Inspect_Surface_Head(Check_Value_Ready(r)), b, "Unexpected_Kind") IN
         Refused(t, late) \/ (t = r /\ ~b /\ Familiar(r) /\ Expects(r))
<1>. DEFINE s == Inspect_Surface_Head(Check_Value_Ready(r))
<1>1. Refused(s, late) \/ (s = r /\ Familiar(r) /\ Expects(r))
  BY Peeked
<1>. HIDE DEF s
<1>2. CASE Refused(s, late)
  <2>1. Unless(s, b, "Unexpected_Kind") = s
    BY <1>2, Passes DEF Refused
  <2>. QED
    BY <1>2, <2>1 DEF s
<1>3. CASE s = r /\ Familiar(r) /\ Expects(r)
  <2>1. IF b THEN Refused(Unless(r, b, "Unexpected_Kind"), late)
        ELSE Unless(r, b, "Unexpected_Kind") = r
    BY UnlessSplits DEF Starved, Codes
  <2>. QED
    BY <1>3, <2>1 DEF s
<1>. QED
  BY <1>1, <1>2, <1>3

\* Scanning a text refuses, or the next token is a text, not consumed yet.
LEMMA TextScanned ==
  ASSUME NEW r, NEW late, Sound(r, late), NEW fits \in BOOLEAN,
         \/ Refused(Inspect_Surface_Head(r), late)
         \/ Inspect_Surface_Head(r) = r /\ Familiar(r)
  PROVE  \/ Refused(Scan_Text(r, fits), late)
         \/ Scan_Text(r, fits) = r /\ Familiar(r) /\ IsText(Next_Token(r))
<1>. DEFINE t == Next_Token(r)
            i == Inspect_Surface_Head(r)
            kind == Unless(i, ~IsText(t), "Unexpected_Kind")
            utf8 == Unless(kind, t.head = "bad_text", "Invalid_Text")
            last == Unless(utf8, t.head = "long_text" \/ ~fits, "Capacity_Exceeded")
<1>1. Scan_Text(r, fits) = last
  BY DEF Scan_Text
<1>2. \A s : Refused(s, late) => Latched(s)
  BY DEF Refused
<1>3. Refused(i, late) => kind = i
  BY <1>2, Passes
<1>4. i = r => IF ~IsText(t) THEN Refused(kind, late) ELSE kind = r
  <2>1. (~IsText(t)) \in BOOLEAN
    BY DEF IsText
  <2>. QED
    BY <2>1, UnlessSplits DEF Starved, Codes
<1>5. Refused(kind, late) => utf8 = kind
  BY <1>2, Passes
<1>6. kind = r => IF t.head = "bad_text" THEN Refused(utf8, late) ELSE utf8 = r
  BY UnlessSplits DEF Starved, Codes
<1>7. Refused(utf8, late) => last = utf8
  BY <1>2, Passes
<1>8. utf8 = r => IF t.head = "long_text" \/ ~fits THEN Refused(last, late) ELSE last = r
  BY UnlessSplits DEF Starved, Codes
<1>. HIDE DEF i, kind, utf8, last
<1>9. Refused(i, late) \/ (i = r /\ Familiar(r))
  BY DEF i
<1>. QED
  BY <1>1, <1>3, <1>4, <1>5, <1>6, <1>7, <1>8, <1>9

\* The head of an announced item is consumed.
LEMMA Taking ==
  ASSUME NEW r, NEW late, Live(r), Sound(r, late), r.raw = <<>>,
         NEW o \in Seq(Entries), Offers(r, o), Seen(r), Next_Token(r).head # "break"
  PROVE  LET t == Advance(Prepare_Value(r)) IN
         \/ Refused(t, late)
         \/ /\ Midway(t, late)
            /\ FillLast(o) \in Seq(Entries) /\ Owes(t.stack, FillLast(o))
            /\ InProgress(t)
            /\ Taken(o, Next_Token(r)) \in Seq(Entries)
            /\ Stands(t.read, Taken(o, Next_Token(r)))
            /\ t.ahead = Tail(r.ahead)
<1>. DEFINE p == Prepare_Value(r)
            b == Begun(r)
            t == Advance(p)
<1>1. CASE Refused(p, late)
  <2>1. t = p
    BY <1>1, Passes DEF Refused
  <2>. QED
    BY <1>1, <2>1
<1>2. CASE p = b /\ r.values + 1 <= DecodeLimits.values
  <2>1. /\ Midway(b, late) /\ FillLast(o) \in Seq(Entries) /\ Owes(b.stack, FillLast(o))
        /\ InProgress(b) /\ b.read = r.read /\ b.ahead = r.ahead /\ b.input = r.input
    BY <1>2, BegunIs
  <2>. HIDE DEF b
  <2>2. Sound(b, late) /\ b \in Readers
    BY <2>1 DEF Midway, Sound, Bounded
  <2>3. Seen(b) /\ Next_Token(b) = Next_Token(r)
    BY <2>1 DEF Seen, Next_Token, Input_Remaining
  <2>4. t = Past(b)
    BY <1>2, <2>2, <2>3, PastIs
  <2>5. Takes(b.read, o)
    BY <2>1 DEF Offers
  <2>6. /\ Sound(Past(b), late) /\ Taken(o, Next_Token(r)) \in Seq(Entries)
        /\ Stands(Past(b).read, Taken(o, Next_Token(r)))
    BY <2>2, <2>3, <2>5, PastTakes
  <2>7. /\ Past(b).stack = b.stack /\ Past(b).root = b.root /\ Past(b).raw = b.raw
        /\ Past(b).scopes = b.scopes /\ Past(b).complete = b.complete
        /\ Past(b).ahead = Tail(b.ahead)
    BY <2>2, PastKeeps
  <2>8. Charged_As(Past(b))
    BY <2>1, <2>7 DEF Midway, Charged_As
  <2>9. Midway(Past(b), late)
    BY <2>1, <2>6, <2>7, <2>8 DEF Midway
  <2>10. InProgress(Past(b))
    BY <2>1, <2>7 DEF InProgress, Top
  <2>. QED
    BY <2>1, <2>4, <2>6, <2>7, <2>9, <2>10
<1>. HIDE DEF p, b, t
<1>3. Refused(p, late) \/ (p = b /\ r.values + 1 <= DecodeLimits.values)
  BY Prepared DEF p, b
<1>. QED
  BY <1>1, <1>2, <1>3 DEF t, p

\* Taking a value that opens nothing serves.
LEMMA ScalarServes ==
  ASSUME NEW r, NEW late, Live(r), Sound(r, late), r.raw = <<>>, Expects(r),
         Seen(r), Next_Token(r).head # "break", ~Opens(Next_Token(r))
  PROVE  Served(Take_Value(r), late)
<1>1. PICK o \in Seq(Entries) : Offers(r, o)
  BY LiveOffers
<1>. DEFINE t == Advance(Prepare_Value(r))
<1>2. \/ Refused(t, late)
      \/ /\ Midway(t, late)
         /\ FillLast(o) \in Seq(Entries) /\ Owes(t.stack, FillLast(o))
         /\ Stands(t.read, Taken(o, Next_Token(r)))
  BY <1>1, Taking
<1>3. Taken(o, Next_Token(r)) = FillLast(o)
  BY DEF Taken
<1>4. Take_Value(r) = Finish_Value(t)
  BY DEF Take_Value
<1>. HIDE DEF t
<1>5. CASE Refused(t, late)
  <2>1. Finish_Value(t) = t
    BY <1>5, Passes DEF Refused
  <2>. QED
    BY <1>4, <1>5, <2>1 DEF Served
<1>6. CASE Midway(t, late) /\ ~Refused(t, late)
  BY <1>2, <1>3, <1>4, <1>6, FinishServes
<1>. QED
  BY <1>2, <1>5, <1>6

\* The caller chose the right operation, or is told that it did not.
LEMMA ReadScalars ==
  ASSUME NEW r, NEW late, Live(r), Sound(r, late), r.raw = <<>>, NEW fits \in BOOLEAN
  PROVE  /\ Served(Peek_Kind(r), late)
         /\ Served(Read_Null(r), late)
         /\ Served(Read_Unsigned(r), late)
         /\ Served(Read_Signed(r), late)
         /\ Served(Read_Text(r, fits), late)
<1>. DEFINE n == Next_Token(r)
<1>1. Served(Peek_Kind(r), late)
  BY Peeked DEF Peek_Kind, Served
<1>2. ASSUME NEW t, \/ Refused(t, late)
                    \/ t = r /\ Familiar(r) /\ Expects(r) /\ (IsNull(n) \/ IsUnsigned(n) \/ IsText(n))
      PROVE  Served(Take_Value(t), late)
  <2>1. CASE Refused(t, late)
    BY <2>1, Passes DEF Refused, Served
  <2>2. CASE t = r /\ Familiar(r) /\ Expects(r) /\ (IsNull(n) \/ IsUnsigned(n) \/ IsText(n))
    <3>1. Seen(r) /\ n.head # "break" /\ ~Opens(n)
      BY <2>2 DEF Familiar, Opens, IsNull, IsUnsigned, IsText
    <3>. QED
      BY <2>2, <3>1, ScalarServes
  <2>. QED
    BY <1>2, <2>1, <2>2
<1>3. Served(Read_Null(r), late)
  <2>1. Require_Kind(r, IsNull) =
          Unless(Inspect_Surface_Head(Check_Value_Ready(r)), ~IsNull(n), "Unexpected_Kind")
    BY DEF Require_Kind, IsNull
  <2>2. (~IsNull(n)) \in BOOLEAN
    BY DEF IsNull
  <2>3. \/ Refused(Require_Kind(r, IsNull), late)
        \/ Require_Kind(r, IsNull) = r /\ IsNull(n) /\ Familiar(r) /\ Expects(r)
    BY <2>1, <2>2, KindChecked
  <2>. QED
    BY <1>2, <2>3 DEF Read_Null
<1>4. \/ Refused(Require_Kind(r, IsUnsigned), late)
      \/ Require_Kind(r, IsUnsigned) = r /\ IsUnsigned(n) /\ Familiar(r) /\ Expects(r)
  <2>1. Require_Kind(r, IsUnsigned) =
          Unless(Inspect_Surface_Head(Check_Value_Ready(r)), ~IsUnsigned(n), "Unexpected_Kind")
    BY DEF Require_Kind, IsUnsigned
  <2>2. (~IsUnsigned(n)) \in BOOLEAN
    BY DEF IsUnsigned
  <2>. QED
    BY <2>1, <2>2, KindChecked
<1>5. Served(Read_Unsigned(r), late)
  BY <1>2, <1>4 DEF Read_Unsigned
<1>6. Served(Read_Signed(r), late)
  <2>. DEFINE k == Require_Kind(r, IsUnsigned)
              t == Unless(k, n.head = "huge", "Out_Of_Range")
  <2>1. Read_Signed(r) = Take_Value(t)
    BY DEF Read_Signed
  <2>2. Refused(k, late) => t = k
    BY Passes DEF Refused
  <2>3. k = r => IF n.head = "huge" THEN Refused(t, late) ELSE t = r
    BY UnlessSplits DEF Starved, Codes
  <2>. HIDE DEF k, t
  <2>4. \/ Refused(t, late)
        \/ t = r /\ Familiar(r) /\ Expects(r) /\ IsUnsigned(n)
    BY <1>4, <2>2, <2>3 DEF k
  <2>. QED
    BY <1>2, <2>1, <2>4
<1>7. Served(Read_Text(r, fits), late)
  <2>. DEFINE c == Check_Value_Ready(r)
              t == Scan_Text(c, fits)
  <2>1. Refused(c, late) => t = c
    BY Passes DEF Refused
  <2>2. c = r /\ Expects(r) =>
          Refused(t, late) \/ (t = r /\ Familiar(r) /\ IsText(n))
    BY SurfaceOffered, TextScanned
  <2>3. Refused(c, late) \/ (c = r /\ Expects(r))
    BY Checked
  <2>. HIDE DEF c, t
  <2>4. \/ Refused(t, late)
        \/ t = r /\ Familiar(r) /\ Expects(r) /\ IsText(n)
    BY <2>1, <2>2, <2>3
  <2>5. Read_Text(r, fits) = Take_Value(t)
    BY DEF Read_Text, t, c
  <2>. QED
    BY <1>2, <2>4, <2>5
<1>. QED
  BY <1>1, <1>3, <1>5, <1>6, <1>7

-----------------------------------------------------------------------------
(* A container is entered. *)

Pushed(r, f) == [r EXCEPT !.stack = Append(@, f), !.scopes = Append(@, 0)]

\* Entering a container refuses, or pushes its frame and its scope within the nesting limit.
LEMMA PushIs ==
  ASSUME NEW r, NEW late, Sound(r, late), NEW f \in Frames
  PROVE  \/ Refused(Push(r, f), late)
         \/ Push(r, f) = Pushed(r, f) /\ Sound(Pushed(r, f), late)
<1>. DEFINE e == Enter_Container(r, f.known, f.declared)
            t == Charged(r, e)
            p == Pushed(r, f)
<1>1. r \in Readers /\ r.error = NoError /\ ~Latched(r) /\ ~r.failed
  BY DEF Sound, Bounded, Latched
<1>2. Push(r, f) = IF Latched(t) THEN t ELSE [t EXCEPT !.stack = Append(@, f)]
  BY DEF Push
<1>3. t = Latch(e)
  BY <1>1 DEF Charged
<1>4. DecodeLimits.nesting \in Nat /\ DecodeLimits.items \in Nat
  BY DecodeLimitsAssumption
<1>5. CASE Len(r.scopes) = DecodeLimits.nesting
  <2>1. t = Fail(r, "Depth_Exceeded")
    BY <1>1, <1>3, <1>5 DEF Enter_Container, Fail
  <2>2. Refused(t, late)
    BY <2>1, FailIsRefused DEF Starved, Codes
  <2>. QED
    BY <1>2, <2>2 DEF Refused
<1>6. CASE Len(r.scopes) # DecodeLimits.nesting /\ f.known /\ f.declared > DecodeLimits.items
  <2>1. t = Fail(r, "Capacity_Exceeded")
    BY <1>1, <1>3, <1>6 DEF Enter_Container, Fail
  <2>2. Refused(t, late)
    BY <2>1, FailIsRefused DEF Starved, Codes
  <2>. QED
    BY <1>2, <2>2 DEF Refused
<1>7. CASE Len(r.scopes) # DecodeLimits.nesting /\ ~(f.known /\ f.declared > DecodeLimits.items)
  <2>. DEFINE c == [r EXCEPT !.scopes = Append(@, 0)]
  <2>1. e = c
    BY <1>1, <1>7 DEF Enter_Container
  <2>2. ~Latched(c)
    BY <1>1 DEF Latched, Readers
  <2>3. t = c
    BY <1>3, <2>1, <2>2 DEF Latch
  <2>4. Push(r, f) = p
    BY <1>1, <1>2, <2>2, <2>3 DEF Pushed, Readers
  <2>5. /\ r.scopes \in Seq(Nat) /\ r.stack \in Seq(Frames) /\ Len(r.scopes) \in Nat
        /\ Len(r.scopes) <= DecodeLimits.nesting
        /\ \A i \in 1..Len(r.scopes) : r.scopes[i] <= DecodeLimits.items
    BY <1>1, ReaderIs DEF Sound, Bounded
  <2>. DEFINE s == Append(r.scopes, 0)
              k == Append(r.stack, f)
  <2>6. s \in Seq(Nat) /\ Len(s) = Len(r.scopes) + 1 /\ s[Len(r.scopes) + 1] = 0
        /\ \A i \in 1..Len(r.scopes) : s[i] = r.scopes[i]
    BY <2>5, AppendProperties
  <2>7. k \in Seq(Frames)
    BY <2>5, AppendProperties
  <2>8. p = [r EXCEPT !.stack = k, !.scopes = s]
    BY <1>1 DEF Pushed, Readers
  <2>9. s \in Seq(Nat)
    BY <2>6
  <2>. HIDE DEF s, k, p
  <2>10. /\ p \in Readers /\ p.failed = r.failed /\ p.error = r.error /\ p.values = r.values
         /\ p.input = r.input /\ p.scopes = s /\ p.ahead = r.ahead
    BY ONLY <1>1, <2>7, <2>8, <2>9 DEF Readers
  <2>11. Len(s) <= DecodeLimits.nesting /\ \A i \in 1..Len(s) : s[i] <= DecodeLimits.items
    BY <1>4, <1>7, <2>5, <2>6
  <2>12. Sound(p, late)
    BY <2>10, <2>11 DEF Sound, Bounded, Latched, Ended
  <2>. QED
    BY <2>4, <2>12 DEF p
<1>. QED
  BY <1>5, <1>6, <1>7

\* A frame that is pushed owes its two entries inside what was owed.
LEMMA OwesPushed ==
  ASSUME NEW stack \in Seq(Frames), NEW w \in Seq(Entries), Owes(stack, w),
         NEW f \in Frames, FrameOK(f)
  PROVE  /\ Append(Append(w, Env(f)), Main(f)) \in Seq(Entries)
         /\ Owes(Append(stack, f), Append(Append(w, Env(f)), Main(f)))
<1>. DEFINE v == Append(w, Env(f))
            x == Append(v, Main(f))
            k == Append(stack, f)
            n == Len(stack)
<1>1. Env(f) \in Entries /\ Main(f) \in Entries
  BY MainIs
<1>2. n \in Nat /\ Len(k) = n + 1 /\ k[n + 1] = f /\ \A i \in 1..n : k[i] = stack[i]
  BY AppendProperties, LenProperties
<1>3. v \in Seq(Entries) /\ Len(v) = Len(w) + 1 /\ v[Len(w) + 1] = Env(f)
      /\ \A i \in 1..Len(w) : v[i] = w[i]
  BY <1>1, AppendProperties
<1>. HIDE DEF v
<1>4. x \in Seq(Entries) /\ Len(x) = Len(v) + 1 /\ x[Len(v) + 1] = Main(f)
      /\ \A i \in 1..Len(v) : x[i] = v[i]
  BY <1>1, <1>3, AppendProperties
<1>. HIDE DEF x, k, n
<1>5. Len(w) = 2 * n /\ \A i \in 1..n : w[2 * i - 1] = Env(stack[i]) /\ w[2 * i] = Main(stack[i])
  BY DEF Owes, n
<1>6. ASSUME NEW i \in 1..(n + 1)
      PROVE  x[2 * i - 1] = Env(k[i]) /\ x[2 * i] = Main(k[i])
  <2>1. CASE i = n + 1
    <3>1. 2 * i - 1 = Len(w) + 1 /\ 2 * i = Len(v) + 1
      BY <1>2, <1>3, <1>5, <2>1
    <3>2. Len(w) + 1 \in 1..Len(v)
      BY <1>2, <1>3, <1>5
    <3>3. x[2 * i - 1] = Env(f) /\ x[2 * i] = Main(f)
      BY <1>3, <1>4, <3>1, <3>2
    <3>. QED
      BY <1>2, <2>1, <3>3
  <2>2. CASE i # n + 1
    <3>1. i \in 1..n
      BY <1>2, <2>2
    <3>2. 2 * i - 1 \in 1..Len(w) /\ 2 * i \in 1..Len(w)
      BY <1>2, <1>5, <3>1
    <3>3. x[2 * i - 1] = w[2 * i - 1] /\ x[2 * i] = w[2 * i]
      BY <1>2, <1>3, <1>4, <1>5, <3>2
    <3>. QED
      BY <1>2, <1>5, <3>1, <3>3
  <2>. QED
    BY <2>1, <2>2
<1>7. Len(x) = 2 * (n + 1)
  BY <1>2, <1>3, <1>4, <1>5
<1>8. Owes(k, x)
  BY <1>2, <1>6, <1>7 DEF Owes
<1>. QED
  BY <1>4, <1>8 DEF x, k, v

\* Entries that are filled up are not owed.
LEMMA StandsElsewhere ==
  ASSUME NEW g, NEW o, NEW w, Stands(g, o), Same(o, w)
  PROVE  Stands(g, w)
BY SameTransitive DEF Stands

\* Entering a container whose entries the decoder has opened serves.
LEMMA NestServes ==
  ASSUME NEW t, NEW late, Midway(t, late), NEW w \in Seq(Entries), Owes(t.stack, w),
         NEW f \in Frames, FrameOK(f), f.kind # "optional" => ~f.exhausted,
         NEW u, Sound(u, late), u.stack = Append(t.stack, f),
         u.scopes = Append(t.scopes, Charge(f)),
         u.raw = t.raw, u.root = t.root, u.complete = t.complete,
         Stands(u.read, Append(Append(w, Env(f)), Main(f))),
         Ready(f) => NextIsItem(u)
  PROVE  Served(u, late)
<1>. DEFINE n == Len(t.stack)
<1>1. t \in Readers /\ t.stack \in Seq(Frames) /\ t.scopes \in Seq(Nat) /\ n \in Nat
  BY ReaderIs DEF Midway, Sound, Bounded
<1>2. Len(u.stack) = n + 1 /\ u.stack[n + 1] = f /\ \A i \in 1..n : u.stack[i] = t.stack[i]
  BY <1>1, AppendProperties
<1>3. Len(t.scopes) = n /\ \A i \in 1..n : t.scopes[i] = Charge(t.stack[i])
  BY DEF Midway, Charged_As
<1>4. Charge(f) \in Nat
  BY FrameIs DEF Charge
<1>5. Len(u.scopes) = n + 1 /\ u.scopes[n + 1] = Charge(f)
      /\ \A i \in 1..n : u.scopes[i] = t.scopes[i]
  BY <1>1, <1>3, <1>4, AppendProperties
<1>6. \A i \in 1..(n + 1) : FrameOK(u.stack[i]) /\ u.scopes[i] = Charge(u.stack[i])
  BY <1>1, <1>2, <1>3, <1>5 DEF Midway
<1>7. Charged_As(u)
  BY <1>1, <1>2, <1>5, <1>6 DEF Charged_As
<1>8. Midway(u, late)
  BY <1>2, <1>6, <1>7 DEF Midway
<1>9. Top(u) = f
  BY <1>1, <1>2 DEF Top
<1>10. Foreseen(u)
  BY <1>8, <1>9 DEF Foreseen, Midway
<1>. QED
  BY <1>1, <1>8, <1>10, OwesPushed, MidwayServes

\* The frame made from a head owes what the head opens.
LEMMA FrameOfToken ==
  ASSUME NEW n \in Tokens, NEW kind \in {"sequence", "map", "record", "variant"},
         IF kind = "sequence" THEN IsArray(n) ELSE IsMap(n)
  PROVE  LET f == Frame(kind, n) IN
         /\ f \in Frames /\ FrameOK(f) /\ Charge(f) = 0 /\ ~Ready(f) /\ ~f.exhausted
         /\ f.kind = kind /\ Env(f) = Grammar!Definite(0) /\ Main(f) = Opened(n)
<1>. DEFINE f == Frame(kind, n)
<1>1. n.count \in Nat /\ (n.head \notin {"array", "map"} => n.count = 0)
  BY TokenIs
<1>2. Indefinite(n) \in BOOLEAN /\ IsMap(n) = (kind # "sequence")
  BY DEF Indefinite, IsMap, IsArray
<1>3. /\ f.kind = kind /\ f.child = "none" /\ f.phase = "needs_entry"
      /\ f.known = ~Indefinite(n) /\ f.declared = n.count /\ f.observed = 0
      /\ f.exhausted = FALSE /\ f.indefinite = Indefinite(n) /\ f.envelope = FALSE
  BY DEF Frame
<1>4. f \in Frames
  BY <1>1, <1>2 DEF Frame, Frames
<1>. HIDE DEF f
<1>5. FrameOK(f)
  BY <1>1, <1>2, <1>3 DEF FrameOK
<1>6. Charge(f) = 0 /\ ~Ready(f) /\ Env(f) = Grammar!Definite(0)
  BY <1>3 DEF Charge, Ready, Env
<1>7. Odd(f) = FALSE
  BY <1>3 DEF Odd
<1>8. CASE Indefinite(n)
  <2>1. Main(f) = Run_Of(kind # "sequence", FALSE)
    BY <1>3, <1>7, <1>8 DEF Main
  <2>2. Opened(n) = Grammar!Indefinite(kind # "sequence")
    BY <1>2, <1>8 DEF Opened
  <2>. QED
    BY <1>3, <1>4, <1>5, <1>6, <2>1, <2>2 DEF Run_Of, Grammar!Indefinite, f
<1>9. CASE ~Indefinite(n)
  <2>1. Main(f) = Grammar!Definite(Slots(f))
    BY <1>3, <1>9 DEF Main
  <2>2. n.head # "tag"
    BY DEF IsArray, IsMap
  <2>3. Slots(f) = IF IsMap(n) THEN 2 * n.count ELSE n.count
    <3>1. CASE kind = "sequence"
      <4>1. Slots(f) = f.declared - f.observed
        <5>1. f.kind = "sequence" /\ f.child = "none" /\ f.declared \in Nat /\ f.observed = 0
          BY <1>1, <1>3, <3>1
        <5>. QED
          BY <5>1 DEF Slots
      <4>2. f.declared - f.observed = n.count
        BY <1>1, <1>3
      <4>3. ~IsMap(n)
        BY <3>1 DEF IsMap, IsArray
      <4>. QED
        BY <4>1, <4>2, <4>3
    <3>2. CASE kind = "map"
      BY <1>1, <1>2, <1>3, <1>7, <3>2 DEF Slots
    <3>3. CASE kind \in {"record", "variant"}
      BY <1>1, <1>2, <1>3, <3>3 DEF Slots
    <3>. QED
      BY <3>1, <3>2, <3>3
  <2>. QED
    BY <1>3, <1>4, <1>5, <1>6, <1>9, <2>1, <2>2, <2>3 DEF Opened, f
<1>. QED
  BY <1>8, <1>9

\* A container whose head the reader has just consumed.
LEMMA PushServes ==
  ASSUME NEW t, NEW late, Midway(t, late), NEW w \in Seq(Entries), Owes(t.stack, w),
         NEW f \in Frames, FrameOK(f), f.kind # "optional", ~f.exhausted, ~Ready(f),
         Charge(f) = 0, Stands(t.read, Append(Append(w, Env(f)), Main(f)))
  PROVE  Served(Push(t, f), late)
<1>1. Sound(t, late) /\ t \in Readers
  BY DEF Midway, Sound, Bounded
<1>. DEFINE u == Pushed(t, f)
<1>2. /\ u.stack = Append(t.stack, f) /\ u.scopes = Append(t.scopes, 0) /\ u.raw = t.raw
      /\ u.root = t.root /\ u.complete = t.complete /\ u.read = t.read
  BY <1>1 DEF Pushed, Readers
<1>. HIDE DEF u
<1>3. Sound(u, late) => Served(u, late)
  BY <1>2, NestServes
<1>. QED
  BY <1>1, <1>3, PushIs DEF Served, u

\* Entering a sequence, a map or a record serves.
LEMMA BeginServes ==
  ASSUME NEW r, NEW late, Live(r), Sound(r, late), r.raw = <<>>, Expects(r), Familiar(r),
         NEW kind \in {"sequence", "map", "record"},
         IF kind = "sequence" THEN IsArray(Next_Token(r)) ELSE IsMap(Next_Token(r))
  PROVE  Served(Push(Advance(Prepare_Value(r)), Frame(kind, Next_Token(r))), late)
<1>. DEFINE n == Next_Token(r)
            f == Frame(kind, n)
            t == Advance(Prepare_Value(r))
<1>1. n \in Tokens /\ Seen(r) /\ n.head # "break" /\ Opens(n)
  BY DEF Familiar, Seen, IsArray, IsMap, Opens
<1>2. PICK o \in Seq(Entries) : Offers(r, o)
  BY LiveOffers
<1>. DEFINE w == FillLast(o)
<1>3. \/ Refused(t, late)
      \/ /\ Midway(t, late) /\ w \in Seq(Entries) /\ Owes(t.stack, w)
         /\ Stands(t.read, Taken(o, n))
  BY <1>1, <1>2, Taking
<1>4. /\ f \in Frames /\ FrameOK(f) /\ Charge(f) = 0 /\ ~Ready(f) /\ ~f.exhausted
      /\ f.kind = kind /\ Env(f) = Grammar!Definite(0) /\ Main(f) = Opened(n)
  BY <1>1, FrameOfToken
<1>5. Taken(o, n) = Append(w, Main(f))
  BY <1>1, <1>4 DEF Taken
<1>. HIDE DEF t, f, w
<1>6. CASE Refused(t, late)
  <2>1. Push(t, f) = t
    BY <1>6, Passes DEF Refused
  <2>. QED
    BY <1>6, <2>1 DEF Served, t, f
<1>7. CASE Midway(t, late) /\ ~Refused(t, late)
  <2>0. Main(f) \in Entries /\ Env(f) \in Entries
    BY <1>4, MainIs
  <2>1. ~Pending(Env(f))
    BY <1>4 DEF Pending, Grammar!Definite
  <2>2. Same(Append(w, Main(f)), Append(Append(w, Env(f)), Main(f)))
    BY <1>3, <1>7, <2>0, <2>1, InsertFilled
  <2>3. Stands(t.read, Append(Append(w, Env(f)), Main(f)))
    BY <1>3, <1>5, <1>7, <2>2, StandsElsewhere
  <2>. QED
    BY <1>3, <1>4, <1>7, <2>3, PushServes DEF t, f
<1>. QED
  BY <1>3, <1>6, <1>7

\* The three handlers that enter a container serve.
LEMMA BeginContainers ==
  ASSUME NEW r, NEW late, Live(r), Sound(r, late), r.raw = <<>>
  PROVE  /\ Served(Begin_Sequence(r), late)
         /\ Served(Begin_Map(r), late)
         /\ Served(Begin_Record(r), late)
<1>. DEFINE n == Next_Token(r)
            a == Require_Kind(r, IsArray)
            m == Require_Kind(r, IsMap)
<1>1. Refused(a, late) \/ (a = r /\ IsArray(n) /\ Familiar(r) /\ Expects(r))
  <2>1. a = Unless(Inspect_Surface_Head(Check_Value_Ready(r)), ~IsArray(n), "Unexpected_Kind")
    BY DEF Require_Kind, IsArray
  <2>2. (~IsArray(n)) \in BOOLEAN
    BY DEF IsArray
  <2>. QED
    BY <2>1, <2>2, KindChecked
<1>2. Refused(m, late) \/ (m = r /\ IsMap(n) /\ Familiar(r) /\ Expects(r))
  <2>1. m = Unless(Inspect_Surface_Head(Check_Value_Ready(r)), ~IsMap(n), "Unexpected_Kind")
    BY DEF Require_Kind, IsMap
  <2>2. (~IsMap(n)) \in BOOLEAN
    BY DEF IsMap
  <2>. QED
    BY <2>1, <2>2, KindChecked
<1>3. /\ Begin_Sequence(r) = Push(Advance(Prepare_Value(a)), Frame("sequence", n))
      /\ Begin_Map(r) = Push(Advance(Prepare_Value(m)), Frame("map", n))
      /\ Begin_Record(r) = Push(Advance(Prepare_Value(m)), Frame("record", n))
  BY DEF Begin_Sequence, Begin_Map, Begin_Record, Begin_Container
<1>4. \A s, f : Refused(s, late) => Served(Push(Advance(Prepare_Value(s)), f), late)
  <2>1. ASSUME NEW s, NEW f, Refused(s, late)
        PROVE  Served(Push(Advance(Prepare_Value(s)), f), late)
    <3>1. Prepare_Value(s) = s /\ Advance(s) = s /\ Push(s, f) = s
      BY <2>1, Passes DEF Refused
    <3>. QED
      BY <2>1, <3>1 DEF Served
  <2>. QED
    BY <2>1
<1>. HIDE DEF a, m
<1>5. a = r /\ IsArray(n) /\ Familiar(r) /\ Expects(r) => Served(Begin_Sequence(r), late)
  BY <1>3, BeginServes
<1>6. m = r /\ IsMap(n) /\ Familiar(r) /\ Expects(r) =>
        Served(Begin_Map(r), late) /\ Served(Begin_Record(r), late)
  BY <1>3, BeginServes
<1>. QED
  BY <1>1, <1>2, <1>3, <1>4, <1>5, <1>6

-----------------------------------------------------------------------------
(* A container is left. *)

\* The container without the frame on its top.
Popped(t) ==
  [t EXCEPT !.scopes = SubSeq(@, 1, Len(@) - 1), !.stack = SubSeq(@, 1, Len(@) - 1)]

\* Leaving a container drops its frame and its scope and finishes a value of the parent.
LEMMA PoppedIs ==
  ASSUME NEW t, NEW late, Midway(t, late), t.stack # <<>>
  PROVE  /\ Finish_Container(t) = Finish_Value(Popped(t))
         /\ Midway(Popped(t), late)
         /\ Len(Popped(t).stack) = Len(t.stack) - 1
         /\ \A i \in 1..(Len(t.stack) - 1) : Popped(t).stack[i] = t.stack[i]
         /\ Popped(t).read = t.read
<1>. DEFINE n == Len(t.stack)
            u == Popped(t)
<1>1. t \in Readers /\ ~t.failed /\ ~Latched(t) /\ t.stack \in Seq(Frames)
      /\ t.scopes \in Seq(Nat) /\ n \in Nat /\ Len(t.scopes) \in Nat
  BY ReaderIs DEF Midway, Sound, Bounded
<1>2. n > 0 /\ Len(t.scopes) = n /\ t.scopes # <<>>
  BY <1>1, ReaderIs DEF Midway, Charged_As
<1>3. Finish_Container(t) = Finish_Value(u)
  BY <1>1, <1>2 DEF Finish_Container, Leave_Container, Popped, Readers
<1>. DEFINE k == SubSeq(t.stack, 1, n - 1)
            s == SubSeq(t.scopes, 1, n - 1)
<1>4. k \in Seq(Frames) /\ Len(k) = n - 1 /\ \A i \in 1..(n - 1) : k[i] = t.stack[i]
  BY <1>1, <1>2, SubSeqProperties
<1>5. s \in Seq(Nat) /\ Len(s) = n - 1 /\ \A i \in 1..(n - 1) : s[i] = t.scopes[i]
  BY <1>1, <1>2, SubSeqProperties
<1>5a. u = [t EXCEPT !.scopes = s, !.stack = k]
  BY <1>2 DEF Popped
<1>. HIDE DEF k, s, u
<1>6. /\ u \in Readers /\ u.stack = k /\ u.scopes = s
      /\ u.root = t.root /\ u.failed = t.failed /\ u.complete = t.complete
      /\ u.error = t.error /\ u.values = t.values
      /\ u.input = t.input /\ u.raw = t.raw /\ u.ahead = t.ahead /\ u.read = t.read
  BY ONLY <1>1, <1>4, <1>5, <1>5a DEF Readers
<1>7. \A i \in 1..(n - 1) : i \in 1..n
  BY <1>1
<1>8. Sound(u, late)
  <2>1. DecodeLimits.nesting \in Nat
    BY DecodeLimitsAssumption
  <2>2. Bounded(u)
    <3>1. Bounded(t)
      BY DEF Midway, Sound
    <3>2. Len(u.scopes) <= DecodeLimits.nesting
      BY <1>1, <1>2, <1>5, <1>6, <2>1, <3>1 DEF Bounded
    <3>3. \A i \in 1..Len(u.scopes) : u.scopes[i] <= DecodeLimits.items
      BY <1>2, <1>5, <1>6, <1>7, <3>1 DEF Bounded
    <3>. QED
      BY <1>6, <3>1, <3>2, <3>3 DEF Bounded
  <2>. QED
    BY <1>6, <2>2 DEF Midway, Sound, Latched, Ended
<1>9. Charged_As(u) /\ \A i \in 1..(n - 1) : FrameOK(u.stack[i])
  BY <1>2, <1>4, <1>5, <1>6, <1>7 DEF Midway, Charged_As
<1>10. Midway(u, late)
  BY <1>4, <1>6, <1>8, <1>9 DEF Midway
<1>. QED
  BY <1>3, <1>4, <1>6, <1>10 DEF u

\* Nothing is owed any more of the container, and it is a value of the one around it.
LEMMA PopServes ==
  ASSUME NEW t, NEW late, Midway(t, late), t.stack # <<>>,
         NEW w \in Seq(Entries), Len(w) >= 2 * Len(t.stack) - 2,
         \A i \in 1..(Len(t.stack) - 1) :
           w[2 * i - 1] = Env(t.stack[i]) /\ w[2 * i] = Main(t.stack[i]),
         \A i \in 1..Len(w) : i > 2 * Len(t.stack) - 2 => ~Pending(w[i]),
         Stands(t.read, w)
  PROVE  Served(Finish_Container(t), late)
<1>. DEFINE n == Len(t.stack)
            u == Popped(t)
            v == SubSeq(w, 1, 2 * n - 2)
<1>1. n \in Nat /\ n > 0 /\ Len(w) \in Nat /\ Len(w) >= 2 * n - 2
  BY ReaderIs, LenProperties DEF Midway, Sound, Bounded
<1>2. v \in Seq(Entries) /\ Len(v) = 2 * n - 2 /\ \A i \in 1..(2 * n - 2) : v[i] = w[i]
  BY <1>1, SubSeqProperties
<1>3. /\ Finish_Container(t) = Finish_Value(u)
      /\ Midway(u, late)
      /\ Len(u.stack) = n - 1
      /\ \A i \in 1..(n - 1) : u.stack[i] = t.stack[i]
      /\ u.read = t.read
  BY PoppedIs
<1>. HIDE DEF u, v
<1>4. Same(w, v)
  <2>1. \A i \in 1..Len(v) : v[i] = w[i]
    BY <1>1, <1>2
  <2>2. \A i \in 1..Len(w) : i > Len(v) => ~Pending(w[i])
    BY <1>2
  <2>. QED
    BY <1>1, <1>2, <2>1, <2>2, DropFilled
<1>5. Owes(u.stack, v)
  <2>1. ASSUME NEW i \in 1..(n - 1)
        PROVE  v[2 * i - 1] = Env(u.stack[i]) /\ v[2 * i] = Main(u.stack[i])
    <3>1. 2 * i - 1 \in 1..(2 * n - 2) /\ 2 * i \in 1..(2 * n - 2)
      BY <1>1
    <3>. QED
      BY <1>2, <1>3, <3>1
  <2>2. Len(v) = 2 * Len(u.stack)
    BY <1>1, <1>2, <1>3
  <2>. QED
    BY <1>3, <2>1, <2>2 DEF Owes
<1>6. Stands(u.read, v)
  BY <1>3, <1>4, StandsElsewhere
<1>. QED
  BY <1>2, <1>3, <1>5, <1>6, FinishServes

\* A container is entered: the reader is ready for another call.
LEMMA Inside ==
  ASSUME NEW r, NEW late, Live(r), Sound(r, late), r.raw = <<>>, r.stack # <<>>
  PROVE  /\ Midway(r, late)
         /\ \E o \in Seq(Entries) :
              /\ Owes(r.stack, o) /\ Stands(r.read, o) /\ o # <<>>
              /\ Len(o) = 2 * Len(r.stack) /\ o[Len(o)] = Main(Top(r))
              /\ o[Len(o) - 1] = Env(Top(r))
<1>1. r.root = "progress" /\ ~r.complete
  BY DEF Live, Rooted
<1>2. Midway(r, late)
  BY <1>1 DEF Live, Midway
<1>3. PICK o \in Seq(Entries) : Owes(r.stack, o) /\ Stands(r.read, o)
  BY <1>1 DEF Live, Read_Right
<1>4. r \in Readers /\ r.stack \in Seq(Frames)
  BY DEF Live, Bounded, Readers
<1>5. o # <<>> /\ o[Len(o)] = Main(Top(r))
  BY <1>3, <1>4, OwesIs DEF Top
<1>6. Len(r.stack) \in 1..Len(r.stack) /\ Len(r.stack) \in Nat
  BY <1>4, TopIs
<1>7. Len(o) = 2 * Len(r.stack) /\ o[2 * Len(r.stack) - 1] = Env(Top(r))
  BY <1>3, <1>6 DEF Owes, Top
<1>. QED
  BY <1>2, <1>3, <1>5, <1>7

\* The break of the innermost entry is consumed.
LEMMA BreakConsumed ==
  ASSUME NEW t, NEW late, Midway(t, late), NEW w \in Seq(Entries), w # <<>>,
         w[Len(w)].indefinite, ~w[Len(w)].odd, Stands(t.read, w),
         NEW c \in Codes, c = "Syntax_Error" => NextIsBreak(t)
  PROVE  LET u == Consume_Break(t, c)
             v == [w EXCEPT ![Len(w)] = Grammar!Definite(0)]
         IN  \/ Refused(u, late)
             \/ /\ Midway(u, late) /\ u.stack = t.stack
                /\ v \in Seq(Entries) /\ Stands(u.read, v)
<1>. DEFINE i == Inspect_Head(t)
            b == Unless(i, Next_Token(t).head # "break", c)
            u == Consume_Break(t, c)
            v == [w EXCEPT ![Len(w)] = Grammar!Definite(0)]
<1>1. Sound(t, late) /\ t \in Readers /\ t.read \in Decoders
  BY DEF Midway, Sound, Bounded, Readers
<1>2. ~Grammar!Whole(t.read)
  <2>1. Takes(t.read, w)
    BY DEF Takes, Pending
  <2>. QED
    BY <1>1, <2>1, TakesIsNotWhole
<1>3. Refused(i, late) \/ (i = t /\ Seen(t))
  BY <1>1, <1>2, Inspected
<1>4. u = Advance(b)
  BY DEF Consume_Break
<1>5. \A s : Refused(s, late) => Latched(s)
  BY DEF Refused
<1>6. Refused(i, late) => b = i
  BY <1>5, Passes
<1>7. i = t /\ Seen(t) => IF Next_Token(t).head # "break" THEN Refused(b, late) ELSE b = t
  <2>1. Seen(t) /\ Next_Token(t).head # "break" => c # "Syntax_Error"
    BY DEF NextIsBreak
  <2>2. c # Starved
    BY DEF Codes, Starved
  <2>3. (Next_Token(t).head # "break") \in BOOLEAN
    OBVIOUS
  <2>4. Seen(t) => IF Next_Token(t).head # "break"
                   THEN Refused(Unless(t, Next_Token(t).head # "break", c), late)
                   ELSE Unless(t, Next_Token(t).head # "break", c) = t
    BY <1>1, <2>1, <2>2, <2>3, UnlessSplits
  <2>. QED
    BY <2>4
<1>8. Refused(b, late) => u = b
  BY <1>4, <1>5, Passes
<1>. HIDE DEF i, b, u
<1>9. CASE b = t /\ Seen(t) /\ Next_Token(t).head = "break"
  <2>1. Advance(t) = Past(t)
    BY <1>1, <1>9, PastIs
  <2>2. Grammar!ReadToken(t.read, Structure(Next_Token(t))) = Grammar!ReadBreak(t.read)
    BY <1>9, BreakIsBreak
  <2>3. /\ Grammar!ReadBreak(t.read) \in Decoders /\ v \in Seq(Entries)
        /\ Stands(Grammar!ReadBreak(t.read), v)
    BY <1>1, BreakTaken
  <2>. HIDE DEF v
  <2>4. Sound(Past(t), late)
    BY <1>1, <1>9, <2>2, <2>3, PastIs
  <2>5. Past(t).read = Grammar!ReadBreak(t.read)
    BY <1>1, <2>2 DEF Past, Readers
  <2>6. Midway(Past(t), late) /\ Past(t).stack = t.stack
    BY <1>1, <2>4, PastKeeps DEF Midway, Charged_As
  <2>. QED
    BY <1>4, <1>9, <2>1, <2>3, <2>5, <2>6 DEF u, v
<1>. QED
  BY <1>3, <1>6, <1>7, <1>8, <1>9 DEF u, v

\* An empty definite entry owes nothing.
LEMMA FilledUp == Grammar!Definite(0) \in Entries /\ ~Pending(Grammar!Definite(0))
BY DEF Grammar!Definite, Entries, Pending

\* The container had only to wait for its break, and that of its envelope.
LEMMA ItemClosed ==
  ASSUME NEW r, NEW late, Live(r), Sound(r, late), r.raw = <<>>, r.stack # <<>>,
         Top(r).kind # "optional", Idle(Top(r)), Top(r).exhausted,
         NEW o \in Seq(Entries), Stands(r.read, o), o # <<>>, o[Len(o)] = Main(Top(r))
  PROVE  \/ Refused(Closed_Item(r), late)
         \/ /\ Midway(Closed_Item(r), late) /\ Closed_Item(r).stack = r.stack
            /\ \E v \in Seq(Entries) :
                 /\ Len(v) = Len(o) /\ \A i \in 1..(Len(o) - 1) : v[i] = o[i]
                 /\ ~Pending(v[Len(v)]) /\ Stands(Closed_Item(r).read, v)
<1>. DEFINE f == Top(r)
<1>1. Midway(r, late) /\ r \in Readers
  BY Inside DEF Live, Bounded
<1>2. f \in Frames /\ FrameOK(f)
  BY <1>1, TopIs DEF Midway
<1>. HIDE DEF f
<1>3. f.kind # "optional" /\ Idle(f) /\ f.exhausted /\ o[Len(o)] = Main(f)
  BY DEF f
<1>4. Odd(f) = FALSE /\ ~Ready(f)
  BY <1>3 DEF Odd, Idle, Ready
<1>5. CASE ~f.indefinite
  <2>1. Closed_Item(r) = r
    BY <1>5 DEF Closed_Item, f
  <2>2. f.observed = f.declared
    BY <1>2, <1>3, <1>5, FrameIs DEF FrameOK
  <2>3. Slots(f) = 0
    <3>1. f.declared - f.observed = 0
      BY <1>2, <2>2, FrameIs
    <3>2. CASE f.kind = "map"
      BY <1>3, <1>4, <3>1, <3>2 DEF Slots, Idle
    <3>3. CASE f.kind # "map"
      BY <1>3, <1>4, <3>1, <3>3 DEF Slots, Idle
    <3>. QED
      BY <3>2, <3>3
  <2>4. ~Pending(Main(f))
    BY <1>5, <2>3 DEF Main, Pending, Grammar!Definite
  <2>. QED
    BY <1>1, <1>3, <2>1, <2>4
<1>6. CASE f.indefinite
  <2>. DEFINE u == Consume_Break(r, "Syntax_Error")
              v == [o EXCEPT ![Len(o)] = Grammar!Definite(0)]
  <2>1. Closed_Item(r) = u
    BY <1>6 DEF Closed_Item, f
  <2>2. Main(f) = Run_Of(f.kind # "sequence", FALSE)
    BY <1>3, <1>4, <1>6 DEF Main
  <2>3. o[Len(o)].indefinite /\ ~o[Len(o)].odd
    BY <1>3, <2>2 DEF Run_Of
  <2>4. NextIsBreak(r)
    BY <1>3, <1>6 DEF f, Live, Foreseen
  <2>5. \/ Refused(u, late)
        \/ Midway(u, late) /\ u.stack = r.stack /\ v \in Seq(Entries) /\ Stands(u.read, v)
    BY <1>1, <2>3, <2>4, BreakConsumed DEF Codes
  <2>6. Len(v) = Len(o) /\ (\A i \in 1..(Len(o) - 1) : v[i] = o[i])
        /\ v[Len(v)] = Grammar!Definite(0)
    <3>1. Len(o) \in 1..Len(o) /\ Len(o) \in Nat /\ Grammar!Definite(0) \in Entries
      BY LastIs DEF Grammar!Definite, Entries
    <3>. QED
      BY <3>1, ExceptSeq
  <2>7. ~Pending(Grammar!Definite(0))
    BY FilledUp
  <2>. HIDE DEF u, v
  <2>. QED
    BY <2>1, <2>5, <2>6, <2>7
<1>. QED
  BY <1>5, <1>6

\* Ending an exhausted sequence, map or record serves.
LEMMA EndItemServes ==
  ASSUME NEW r, NEW late, Live(r), Sound(r, late), r.raw = <<>>, r.stack # <<>>,
         Top(r).kind \in {"sequence", "map", "record"}, Idle(Top(r)), Top(r).exhausted
  PROVE  Served(Finish_Container(Closed_Item(r)), late)
<1>. DEFINE n == Len(r.stack)
            u == Closed_Item(r)
<1>1. PICK o \in Seq(Entries) :
        /\ Owes(r.stack, o) /\ Stands(r.read, o) /\ o # <<>>
        /\ Len(o) = 2 * n /\ o[Len(o)] = Main(Top(r)) /\ o[Len(o) - 1] = Env(Top(r))
  BY Inside
<1>2. \/ Refused(u, late)
      \/ /\ Midway(u, late) /\ u.stack = r.stack
         /\ \E v \in Seq(Entries) :
              /\ Len(v) = Len(o) /\ \A i \in 1..(Len(o) - 1) : v[i] = o[i]
              /\ ~Pending(v[Len(v)]) /\ Stands(u.read, v)
  BY <1>1, ItemClosed
<1>. HIDE DEF u
<1>3. n \in Nat /\ n > 0
  BY TopIs DEF Live, Bounded
<1>4. ~Pending(Env(Top(r)))
  <2>1. Env(Top(r)) = Grammar!Definite(0)
    BY DEF Env
  <2>. QED
    BY <2>1, FilledUp
<1>5. CASE Refused(u, late)
  <2>1. Finish_Container(u) = u
    BY <1>5, Passes DEF Refused
  <2>. QED
    BY <1>5, <2>1 DEF Served, u
<1>6. ASSUME Midway(u, late), u.stack = r.stack, NEW v \in Seq(Entries),
             Len(v) = Len(o), \A i \in 1..(Len(o) - 1) : v[i] = o[i],
             ~Pending(v[Len(v)]), Stands(u.read, v)
      PROVE  Served(Finish_Container(u), late)
  <2>1. ASSUME NEW i \in 1..(n - 1)
        PROVE  v[2 * i - 1] = Env(u.stack[i]) /\ v[2 * i] = Main(u.stack[i])
    <3>1. 2 * i - 1 \in 1..(2 * n - 1) /\ 2 * i \in 1..(2 * n - 1) /\ i \in 1..n
      BY <1>3
    <3>. QED
      BY <1>1, <1>6, <3>1 DEF Owes
  <2>2. ASSUME NEW i \in 1..Len(v), i > 2 * n - 2
        PROVE  ~Pending(v[i])
    <3>1. i = 2 * n \/ i = 2 * n - 1
      BY <1>1, <1>3, <1>6, <2>2
    <3>2. 2 * n - 1 \in 1..(Len(o) - 1)
      BY <1>1, <1>3
    <3>. QED
      BY <1>1, <1>4, <1>6, <3>1, <3>2
  <2>3. Len(v) >= 2 * Len(u.stack) - 2
    BY <1>1, <1>3, <1>6
  <2>. QED
    BY <1>6, <2>1, <2>2, <2>3, PopServes
<1>. QED
  BY <1>2, <1>5, <1>6 DEF u

\* A variant may stand in an indefinite envelope, which ends with it.
LEMMA EndVariantServes ==
  ASSUME NEW r, NEW late, Live(r), Sound(r, late), r.raw = <<>>, r.stack # <<>>,
         Top(r).kind = "variant", Idle(Top(r)), Top(r).exhausted
  PROVE  Served(Finish_Container(Closed_Variant(r)), late)
<1>. DEFINE n == Len(r.stack)
            s == Closed_Item(r)
            u == Closed_Variant(r)
<1>1. PICK o \in Seq(Entries) :
        /\ Owes(r.stack, o) /\ Stands(r.read, o) /\ o # <<>>
        /\ Len(o) = 2 * n /\ o[Len(o)] = Main(Top(r)) /\ o[Len(o) - 1] = Env(Top(r))
  BY Inside
<1>2. \/ Refused(s, late)
      \/ /\ Midway(s, late) /\ s.stack = r.stack
         /\ \E v \in Seq(Entries) :
              /\ Len(v) = Len(o) /\ \A i \in 1..(Len(o) - 1) : v[i] = o[i]
              /\ ~Pending(v[Len(v)]) /\ Stands(s.read, v)
  BY <1>1, ItemClosed
<1>. HIDE DEF s
<1>3. n \in Nat /\ n > 0
  BY TopIs DEF Live, Bounded
<1>4. u = IF Top(r).envelope THEN Consume_Break(s, "Invalid_Value") ELSE s
  BY DEF Closed_Variant, s
<1>. HIDE DEF u
<1>5. \A t : Refused(t, late) => Served(Finish_Container(t), late)
  BY Passes DEF Refused, Served
<1>6. CASE Refused(s, late)
  <2>1. u = s
    BY <1>4, <1>6, Passes DEF Refused
  <2>. QED
    BY <1>5, <1>6, <2>1 DEF u
<1>7. ASSUME Midway(s, late), s.stack = r.stack, NEW v \in Seq(Entries),
             Len(v) = Len(o), \A i \in 1..(Len(o) - 1) : v[i] = o[i],
             ~Pending(v[Len(v)]), Stands(s.read, v)
      PROVE  Served(Finish_Container(u), late)
  <2>1. ASSUME NEW i \in 1..(n - 1)
        PROVE  v[2 * i - 1] = Env(r.stack[i]) /\ v[2 * i] = Main(r.stack[i])
               /\ 2 * i \in 1..(2 * n - 2) /\ 2 * i - 1 \in 1..(2 * n - 2)
    <3>1. 2 * i - 1 \in 1..(2 * n - 2) /\ 2 * i \in 1..(2 * n - 2)
      BY <1>3
    <3>2. 2 * i - 1 \in 1..(2 * n - 1) /\ 2 * i \in 1..(2 * n - 1) /\ i \in 1..n
      BY <1>3
    <3>. QED
      BY <1>1, <1>7, <3>1, <3>2 DEF Owes
  <2>2. v[2 * n - 1] = Env(Top(r)) /\ Len(v) = 2 * n
    <3>1. 2 * n - 1 \in 1..(Len(o) - 1) /\ Len(o) - 1 = 2 * n - 1
      BY <1>1, <1>3
    <3>. QED
      BY <1>1, <1>7, <3>1
  <2>3. CASE ~Top(r).envelope
    <3>1. u = s
      BY <1>4, <2>3
    <3>2. ~Pending(v[2 * n - 1])
      <4>1. Env(Top(r)) = Grammar!Definite(0)
        BY <2>3 DEF Env
      <4>. QED
        BY <2>2, <4>1, FilledUp
    <3>3. ASSUME NEW i \in 1..Len(v), i > 2 * n - 2
          PROVE  ~Pending(v[i])
      <4>1. i = 2 * n \/ i = 2 * n - 1
        BY <1>3, <2>2, <3>3
      <4>. QED
        BY <1>7, <2>2, <3>2, <4>1
    <3>4. Len(v) >= 2 * Len(s.stack) - 2
      BY <1>3, <1>7, <2>2
    <3>. QED
      BY <1>7, <2>1, <3>1, <3>3, <3>4, PopServes
  <2>4. CASE Top(r).envelope
    <3>. DEFINE x == SubSeq(v, 1, 2 * n - 1)
                y == [x EXCEPT ![Len(x)] = Grammar!Definite(0)]
    <3>1. u = Consume_Break(s, "Invalid_Value")
      BY <1>4, <2>4
    <3>2. x \in Seq(Entries) /\ Len(x) = 2 * n - 1 /\ \A i \in 1..(2 * n - 1) : x[i] = v[i]
      BY <1>3, <2>2, SubSeqProperties
    <3>. HIDE DEF x
    <3>3. Same(v, x)
      <4>1. ASSUME NEW i \in 1..Len(v), i > Len(x)
            PROVE  ~Pending(v[i])
        <5>1. i = Len(v)
          BY <1>3, <2>2, <3>2, <4>1
        <5>. QED
          BY <1>7, <5>1
      <4>2. Len(x) <= Len(v)
        <5>1. \A k \in Nat : 2 * k - 1 <= 2 * k
          OBVIOUS
        <5>. QED
          BY <1>3, <2>2, <3>2, <5>1
      <4>3. \A i \in 1..Len(x) : x[i] = v[i]
        BY <3>2
      <4>. QED
        BY <3>2, <4>1, <4>2, <4>3, DropFilled
    <3>4. Stands(s.read, x)
      BY <1>7, <3>3, StandsElsewhere
    <3>5. x # <<>> /\ Len(x) \in 1..Len(x) /\ x[Len(x)] = Env(Top(r))
      BY <1>3, <2>2, <3>2, EmptySeq
    <3>6. Env(Top(r)) = Grammar!Indefinite(FALSE)
      BY <2>4 DEF Env
    <3>7. x[Len(x)].indefinite /\ ~x[Len(x)].odd
      BY <3>5, <3>6 DEF Grammar!Indefinite
    <3>8. \/ Refused(u, late)
          \/ Midway(u, late) /\ u.stack = s.stack /\ y \in Seq(Entries) /\ Stands(u.read, y)
      BY <1>7, <3>1, <3>2, <3>4, <3>5, <3>7, BreakConsumed DEF Codes
    <3>9. /\ Len(y) = 2 * n - 1 /\ y[2 * n - 1] = Grammar!Definite(0)
          /\ \A i \in 1..(2 * n - 1) : i # 2 * n - 1 => y[i] = v[i]
      <4>1. Len(y) = Len(x) /\ \A i \in 1..Len(x) : y[i] = IF i = Len(x) THEN Grammar!Definite(0) ELSE x[i]
        BY <3>2, <3>5, FilledUp, ExceptSeq
      <4>2. 2 * n - 1 \in 1..(2 * n - 1)
        BY <1>3
      <4>. HIDE DEF y
      <4>. QED
        BY <3>2, <4>1, <4>2
    <3>. HIDE DEF y
    <3>10. CASE Refused(u, late)
      BY <1>5, <3>10
    <3>11. CASE Midway(u, late) /\ u.stack = s.stack /\ y \in Seq(Entries) /\ Stands(u.read, y)
      <4>1. ASSUME NEW i \in 1..(n - 1)
            PROVE  y[2 * i - 1] = Env(u.stack[i]) /\ y[2 * i] = Main(u.stack[i])
        <5>1. /\ 2 * i \in 1..(2 * n - 1) /\ 2 * i # 2 * n - 1
              /\ 2 * i - 1 \in 1..(2 * n - 1) /\ 2 * i - 1 # 2 * n - 1
          BY <1>3
        <5>. QED
          BY <1>7, <2>1, <3>9, <3>11, <5>1
      <4>2. ASSUME NEW i \in 1..Len(y), i > 2 * n - 2
            PROVE  ~Pending(y[i])
        <5>1. i = 2 * n - 1
          BY <1>3, <3>9, <4>2
        <5>. QED
          BY <3>9, <5>1, FilledUp
      <4>3. Len(y) >= 2 * Len(u.stack) - 2 /\ Len(u.stack) = n
        BY <1>3, <1>7, <3>9, <3>11
      <4>. QED
        BY <1>7, <3>11, <4>1, <4>2, <4>3, PopServes
    <3>. QED
      BY <3>8, <3>10, <3>11
  <2>. QED
    BY <2>3, <2>4
<1>. QED
  BY <1>2, <1>6, <1>7 DEF u

\* Ending an optional whose value is done serves, with or without its envelope.
LEMMA EndOptionalServes ==
  ASSUME NEW r, NEW late, Live(r), Sound(r, late), r.raw = <<>>, r.stack # <<>>,
         Top(r).kind = "optional", Top(r).child = "none"
  PROVE  Served(Finish_Container(IF Top(r).envelope THEN Consume_Break(r, "Invalid_Value")
                                 ELSE r), late)
<1>. DEFINE n == Len(r.stack)
            f == Top(r)
            u == Consume_Break(r, "Invalid_Value")
<1>1. PICK o \in Seq(Entries) :
        /\ Owes(r.stack, o) /\ Stands(r.read, o) /\ o # <<>>
        /\ Len(o) = 2 * n /\ o[Len(o)] = Main(Top(r)) /\ o[Len(o) - 1] = Env(Top(r))
  BY Inside
<1>2. Midway(r, late) /\ n \in Nat /\ n > 0
  BY Inside, TopIs DEF Live, Bounded
<1>3. f.indefinite = f.envelope /\ Env(f) = Grammar!Definite(0)
  <2>1. FrameOK(f)
    BY TopIs DEF Live, Bounded
  <2>. QED
    BY <2>1 DEF FrameOK, Env
<1>4. \A i \in 1..(n - 1) : /\ 2 * i \in 1..(2 * n) /\ 2 * i # 2 * n
                            /\ 2 * i - 1 \in 1..(2 * n) /\ 2 * i - 1 # 2 * n
                            /\ i \in 1..n
  BY <1>2
<1>5. CASE ~f.envelope
  <2>1. Main(f) = Grammar!Definite(0)
    BY <1>3, <1>5 DEF Main, Slots
  <2>2. ASSUME NEW i \in 1..Len(o), i > 2 * n - 2
        PROVE  ~Pending(o[i])
    <3>1. i = Len(o) \/ i = Len(o) - 1
      BY <1>1, <1>2, <2>2
    <3>. QED
      BY <1>1, <1>3, <2>1, <3>1, FilledUp
  <2>3. \A i \in 1..(n - 1) : o[2 * i - 1] = Env(r.stack[i]) /\ o[2 * i] = Main(r.stack[i])
    BY <1>1, <1>4 DEF Owes
  <2>4. Len(o) >= 2 * n - 2
    BY <1>1, <1>2
  <2>. QED
    BY <1>1, <1>2, <1>5, <2>2, <2>3, <2>4, PopServes
<1>6. CASE f.envelope
  <2>. DEFINE v == [o EXCEPT ![Len(o)] = Grammar!Definite(0)]
  <2>1. Main(f) = Run_Of(FALSE, FALSE)
    BY <1>3, <1>6 DEF Main
  <2>2. o[Len(o)].indefinite /\ ~o[Len(o)].odd
    BY <1>1, <2>1 DEF Run_Of
  <2>3. \/ Refused(u, late)
        \/ Midway(u, late) /\ u.stack = r.stack /\ v \in Seq(Entries) /\ Stands(u.read, v)
    BY <1>1, <1>2, <2>2, BreakConsumed DEF Codes
  <2>4. /\ Len(v) = 2 * n /\ v[2 * n] = Grammar!Definite(0)
        /\ \A i \in 1..(2 * n) : i # 2 * n => v[i] = o[i]
    <3>1. Len(v) = Len(o) /\ \A i \in 1..Len(o) : v[i] = IF i = Len(o) THEN Grammar!Definite(0) ELSE o[i]
      BY <1>1, <1>2, FilledUp, ExceptSeq
    <3>2. 2 * n \in 1..(2 * n)
      BY <1>2
    <3>. HIDE DEF v
    <3>. QED
      BY <1>1, <3>1, <3>2
  <2>. HIDE DEF u, v
  <2>5. CASE Refused(u, late)
    <3>1. Finish_Container(u) = u
      BY <2>5, Passes DEF Refused
    <3>. QED
      BY <1>6, <2>5, <3>1 DEF Served, u
  <2>6. CASE Midway(u, late) /\ u.stack = r.stack /\ v \in Seq(Entries) /\ Stands(u.read, v)
    <3>1. ASSUME NEW i \in 1..Len(v), i > 2 * n - 2
          PROVE  ~Pending(v[i])
      <4>1. i = 2 * n \/ (i = 2 * n - 1 /\ i \in 1..(2 * n) /\ i # 2 * n)
        BY <1>2, <2>4, <3>1
      <4>. QED
        BY <1>1, <1>3, <2>4, <4>1, FilledUp
    <3>2. \A i \in 1..(n - 1) : v[2 * i - 1] = Env(r.stack[i]) /\ v[2 * i] = Main(r.stack[i])
      BY <1>1, <1>4, <2>4 DEF Owes
    <3>3. Len(v) >= 2 * n - 2
      BY <1>2, <2>4
    <3>4. Served(Finish_Container(u), late)
      BY <2>6, <3>1, <3>2, <3>3, PopServes
    <3>. QED
      BY <1>6, <3>4 DEF u
  <2>. QED
    BY <2>3, <2>5, <2>6
<1>. QED
  BY <1>5, <1>6

\* The four calls that end a container, and the one that ends an optional.
LEMMA EndsServe ==
  ASSUME NEW r, NEW late, Live(r), Sound(r, late), r.raw = <<>>
  PROVE  /\ Served(End_Sequence(r), late)
         /\ Served(End_Map(r), late)
         /\ Served(End_Record(r), late)
         /\ Served(End_Variant(r), late)
         /\ Served(End_Optional(r), late)
<1>1. Require_Ready(r) = r
  BY DEF Require_Ready, Unless, Sound
<1>2. ASSUME NEW b \in BOOLEAN
      PROVE  LET u == Unless(r, b, "Invalid_State") IN
             (Latched(u) /\ Refused(u, late)) \/ (~b /\ u = r /\ ~Latched(u))
  <2>1. IF b THEN Refused(Unless(r, b, "Invalid_State"), late)
        ELSE Unless(r, b, "Invalid_State") = r
    BY UnlessSplits DEF Codes, Starved
  <2>. QED
    BY <2>1 DEF Refused, Sound
<1>. DEFINE b(kind) == \/ r.stack = <<>> \/ Top(r).kind # kind
                       \/ ~Idle(Top(r)) \/ ~Top(r).exhausted
            v(kind) == Unless(r, b(kind), "Invalid_State")
            b2 == r.stack = <<>> \/ Top(r).kind # "optional" \/ Top(r).child # "none"
            v2 == Unless(r, b2, "Invalid_State")
<1>3. /\ End_Sequence(r) = IF Latched(v("sequence")) THEN v("sequence")
                           ELSE Finish_Container(Closed_Item(v("sequence")))
      /\ End_Map(r) = IF Latched(v("map")) THEN v("map")
                      ELSE Finish_Container(Closed_Item(v("map")))
      /\ End_Record(r) = IF Latched(v("record")) THEN v("record")
                         ELSE Finish_Container(Closed_Item(v("record")))
      /\ End_Variant(r) = IF Latched(v("variant")) THEN v("variant")
                          ELSE Finish_Container(Closed_Variant(v("variant")))
  BY <1>1 DEF End_Sequence, End_Map, End_Record, End_Variant, End_Item
<1>4. End_Optional(r) = IF Latched(v2) THEN v2
                        ELSE Finish_Container(IF Top(v2).envelope
                                              THEN Consume_Break(v2, "Invalid_Value") ELSE v2)
  BY <1>1 DEF End_Optional
<1>5. ASSUME NEW kind \in {"sequence", "map", "record", "variant"}
      PROVE  \/ Latched(v(kind)) /\ Refused(v(kind), late)
             \/ /\ r.stack # <<>> /\ Top(r).kind = kind /\ Idle(Top(r)) /\ Top(r).exhausted
                /\ v(kind) = r /\ ~Latched(v(kind))
  <2>1. b(kind) \in BOOLEAN
    OBVIOUS
  <2>. QED
    BY <1>2, <2>1
<1>6. \/ Latched(v2) /\ Refused(v2, late)
      \/ /\ r.stack # <<>> /\ Top(r).kind = "optional" /\ Top(r).child = "none"
         /\ v2 = r /\ ~Latched(v2)
  <2>1. b2 \in BOOLEAN
    OBVIOUS
  <2>. QED
    BY <1>2, <2>1
<1>. HIDE DEF v, v2
<1>7. Served(End_Sequence(r), late)
  BY <1>3, <1>5, EndItemServes DEF Served
<1>8. Served(End_Map(r), late)
  BY <1>3, <1>5, EndItemServes DEF Served
<1>9. Served(End_Record(r), late)
  BY <1>3, <1>5, EndItemServes DEF Served
<1>10. Served(End_Variant(r), late)
  BY <1>3, <1>5, EndVariantServes DEF Served
<1>11. Served(End_Optional(r), late)
  BY <1>4, <1>6, EndOptionalServes DEF Served
<1>. QED
  BY <1>7, <1>8, <1>9, <1>10, <1>11

-----------------------------------------------------------------------------
(* A child is looked for, and announced. *)

Announce(f) ==
  IF f.kind = "map" THEN [f EXCEPT !.observed = @ + 1, !.phase = "key_ready"]
  ELSE [f EXCEPT !.observed = @ + 1, !.child = "ready"]

\* Announcing a child charges one item, and in a record takes the name before it.
LEMMA AnnounceIs ==
  ASSUME NEW f \in Frames, FrameOK(f), f.kind # "optional", Idle(f), ~f.exhausted,
         f.known => f.observed < f.declared
  PROVE  LET c == Announce(f) IN
         /\ c \in Frames /\ FrameOK(c) /\ Charge(c) = Charge(f) + 1 /\ Env(c) = Env(f)
         /\ ~c.exhausted /\ c.kind = f.kind /\ Ready(c)
         /\ Pending(Main(f))
         /\ f.kind \in {"sequence", "map"} => Main(c) = Main(f)
         /\ f.kind \in {"record", "variant"} =>
              /\ Main(c) = Grammar!Filled(Main(f))
              /\ ~Main(c).indefinite \/ Main(c).odd
<1>. DEFINE c == Announce(f)
<1>1. /\ f.declared \in Nat /\ f.observed \in Nat /\ f.indefinite \in BOOLEAN
      /\ f.known \in BOOLEAN /\ f.kind \in {"sequence", "map", "record", "variant"}
      /\ f.envelope \in BOOLEAN /\ f.known = ~f.indefinite
  BY FrameIs DEF FrameOK
<1>2. /\ c \in Frames /\ c.kind = f.kind /\ c.known = f.known /\ c.declared = f.declared
      /\ c.observed = f.observed + 1 /\ c.exhausted = f.exhausted
      /\ c.indefinite = f.indefinite /\ c.envelope = f.envelope
      /\ f.kind = "map" => c.phase = "key_ready"
      /\ f.kind # "map" => c.child = "ready"
  <2>1. CASE f.kind = "map"
    <3>1. c = [f EXCEPT !.observed = f.observed + 1, !.phase = "key_ready"]
      BY <2>1 DEF Announce
    <3>2. f.observed + 1 \in Nat
      BY <1>1
    <3>. HIDE DEF c
    <3>. QED
      BY <2>1, <3>1, <3>2 DEF Frames
  <2>2. CASE f.kind # "map"
    <3>1. c = [f EXCEPT !.observed = f.observed + 1, !.child = "ready"]
      BY <2>2 DEF Announce
    <3>2. f.observed + 1 \in Nat
      BY <1>1
    <3>. HIDE DEF c
    <3>. QED
      BY <2>2, <3>1, <3>2 DEF Frames
  <2>. QED
    BY <2>1, <2>2
<1>. HIDE DEF c
<1>3. FrameOK(c)
  BY <1>1, <1>2 DEF FrameOK
<1>4. Charge(c) = Charge(f) + 1 /\ Env(c) = Env(f) /\ ~c.exhausted /\ Ready(c)
  BY <1>2 DEF Charge, Env, Ready
<1>5. f.kind = "map" => f.phase = "needs_entry"
  BY DEF Idle
<1>6. f.kind # "map" => f.child = "none"
  BY DEF Idle
<1>7. Odd(f) = FALSE
  BY <1>5, <1>6 DEF Odd
<1>8. Odd(c) = (f.kind \in {"record", "variant"})
  BY <1>1, <1>2 DEF Odd
<1>9. CASE ~f.indefinite
  <2>1. f.observed < f.declared
    BY <1>1, <1>9
  <2>2. Main(f) = Grammar!Definite(Slots(f)) /\ Main(c) = Grammar!Definite(Slots(c))
    BY <1>2, <1>9 DEF Main
  <2>3. /\ Slots(f) \in Nat /\ Slots(f) > 0
        /\ f.kind \in {"sequence", "map"} => Slots(c) = Slots(f)
        /\ f.kind \in {"record", "variant"} => Slots(c) = Slots(f) - 1
    <3>1. CASE f.kind = "sequence"
      <4>1. Slots(f) = f.declared - f.observed
        BY <1>1, <1>6, <3>1 DEF Slots
      <4>2. Slots(c) = f.declared - (f.observed + 1) + 1
        BY <1>2, <3>1 DEF Slots
      <4>. QED
        BY <1>1, <2>1, <3>1, <4>1, <4>2
    <3>2. CASE f.kind = "map"
      <4>1. Slots(f) = 2 * (f.declared - f.observed)
        BY <1>1, <1>5, <1>7, <3>2 DEF Slots
      <4>2. Slots(c) = 2 * (f.declared - (f.observed + 1)) + 2
        BY <1>2, <3>2 DEF Slots
      <4>3. Slots(f) \in Nat /\ Slots(f) > 0 /\ Slots(c) = Slots(f)
        <5>1. \A d, o \in Nat : o < d => 2 * (d - o) \in Nat /\ 2 * (d - o) > 0
                                        /\ 2 * (d - (o + 1)) + 2 = 2 * (d - o)
          OBVIOUS
        <5>. QED
          BY <1>1, <2>1, <4>1, <4>2, <5>1
      <4>. QED
        BY <3>2, <4>3
    <3>3. CASE f.kind \in {"record", "variant"}
      <4>1. Slots(f) = 2 * (f.declared - f.observed)
        BY <1>1, <1>6, <3>3 DEF Slots
      <4>2. Slots(c) = 2 * (f.declared - (f.observed + 1)) + 1
        BY <1>2, <3>3 DEF Slots
      <4>. QED
        BY <1>1, <2>1, <3>3, <4>1, <4>2
    <3>. QED
      BY <1>1, <3>1, <3>2, <3>3
  <2>4. Pending(Main(f))
    BY <2>2, <2>3 DEF Pending, Grammar!Definite
  <2>5. Grammar!Filled(Main(f)) = Grammar!Definite(Slots(f) - 1)
    <3>1. \A x \in Nat : x > 0 => Grammar!Filled(Grammar!Definite(x)) = Grammar!Definite(x - 1)
      BY DEF Grammar!Filled, Grammar!Definite
    <3>. QED
      BY <2>2, <2>3, <3>1
  <2>6. ~Main(c).indefinite
    BY <2>2 DEF Grammar!Definite
  <2>. QED
    BY <1>2, <1>3, <1>4, <2>2, <2>3, <2>4, <2>5, <2>6 DEF c
<1>10. CASE f.indefinite
  <2>1. Main(f) = Run_Of(f.kind # "sequence", FALSE)
    BY <1>7, <1>10 DEF Main
  <2>2. Main(c) = Run_Of(f.kind # "sequence", f.kind \in {"record", "variant"})
    BY <1>2, <1>8, <1>10 DEF Main
  <2>3. Pending(Main(f))
    BY <2>1 DEF Pending, Run_Of
  <2>4. f.kind \in {"sequence", "map"} => Main(c) = Main(f)
    <3>1. f.kind \in {"sequence", "map"} => (f.kind \in {"record", "variant"}) = FALSE
      OBVIOUS
    <3>. QED
      BY <2>1, <2>2, <3>1
  <2>5. f.kind \in {"record", "variant"} =>
          Main(c) = Grammar!Filled(Main(f)) /\ (~Main(c).indefinite \/ Main(c).odd)
    <3>1. CASE f.kind \in {"record", "variant"}
      <4>1. Main(f) = Run_Of(TRUE, FALSE) /\ Main(c) = Run_Of(TRUE, TRUE)
        BY <2>1, <2>2, <3>1
      <4>2. Grammar!Filled(Run_Of(TRUE, FALSE)) = Run_Of(TRUE, TRUE) /\ Run_Of(TRUE, TRUE).odd
        BY DEF Grammar!Filled, Run_Of
      <4>. QED
        BY <4>1, <4>2
    <3>. QED
      BY <3>1
  <2>. QED
    BY <1>2, <1>3, <1>4, <2>3, <2>4, <2>5 DEF c
<1>. QED
  BY <1>9, <1>10

\* The child is charged to its container and announced.
LEMMA AnnouncedServes ==
  ASSUME NEW s, NEW late, Midway(s, late), s.stack # <<>>,
         Top(s).kind # "optional", Idle(Top(s)), ~Top(s).exhausted,
         Top(s).known => Top(s).observed < Top(s).declared, NextIsItem(s),
         NEW w \in Seq(Entries), Stands(s.read, w), Len(w) = 2 * Len(s.stack),
         \A i \in 1..(Len(s.stack) - 1) :
           w[2 * i - 1] = Env(s.stack[i]) /\ w[2 * i] = Main(s.stack[i]),
         w[2 * Len(s.stack) - 1] = Env(Top(s)),
         w[2 * Len(s.stack)] = Main(Announce(Top(s)))
  PROVE  Served(Announced(Charge_Item(s)), late)
<1>. DEFINE n == Len(s.stack)
            f == Top(s)
            c == Announce(f)
            k == Consume_Container_Item(s)
<1>1. s \in Readers /\ ~s.failed /\ ~Latched(s) /\ Sound(s, late)
  BY DEF Midway, Sound, Bounded
<1>2. n \in Nat /\ n > 0 /\ n \in 1..n /\ f \in Frames /\ FrameOK(f) /\ f = s.stack[n]
  BY <1>1, TopIs DEF Midway
<1>3. Len(s.scopes) = n /\ s.scopes[n] = Charge(f) /\ s.scopes \in Seq(Nat)
  BY <1>1, <1>2, ReaderIs DEF Midway, Charged_As
<1>4. Charge_Item(s) = Latch(k)
  BY <1>1 DEF Charge_Item, Charged
<1>. HIDE DEF f
<1>5. CASE s.scopes[n] >= DecodeLimits.items
  <2>1. Charge_Item(s) = Fail(s, "Capacity_Exceeded")
    BY <1>1, <1>2, <1>3, <1>4, <1>5 DEF Consume_Container_Item, Fail
  <2>2. Refused(Charge_Item(s), late)
    BY <1>1, <2>1, FailIsRefused DEF Starved, Codes
  <2>3. Announced(Charge_Item(s)) = Charge_Item(s)
    BY <2>2, Passes DEF Refused
  <2>. QED
    BY <2>2, <2>3 DEF Served
<1>6. CASE ~(s.scopes[n] >= DecodeLimits.items)
  <2>. DEFINE q == [s.scopes EXCEPT ![n] = @ + 1]
              b == [s EXCEPT !.scopes = q]
              u == SetTop(b, c)
  <2>1. k = b
    BY <1>1, <1>2, <1>3, <1>6 DEF Consume_Container_Item, Readers
  <2>2. /\ q \in Seq(Nat) /\ Len(q) = n
        /\ \A i \in 1..n : q[i] = IF i = n THEN Charge(f) + 1 ELSE s.scopes[i]
    BY <1>2, <1>3, ExceptSeq
  <2>. HIDE DEF q, k
  <2>3. /\ b \in Readers /\ b.scopes = q /\ b.stack = s.stack
        /\ b.root = s.root /\ b.failed = s.failed /\ b.complete = s.complete
        /\ b.error = s.error /\ b.values = s.values
        /\ b.input = s.input /\ b.raw = s.raw /\ b.ahead = s.ahead /\ b.read = s.read
    BY <1>1, <2>2 DEF Readers
  <2>. HIDE DEF b
  <2>4. Charge_Item(s) = b /\ Top(b) = f /\ ~Latched(b)
    BY <1>1, <1>4, <2>1, <2>3 DEF Latch, Latched, Top, f
  <2>5. Announced(b) = u
    BY <2>4 DEF Announced, Announce
  <2>6. /\ c \in Frames /\ FrameOK(c) /\ Charge(c) = Charge(f) + 1 /\ Env(c) = Env(f)
        /\ ~c.exhausted /\ c.kind = f.kind /\ Ready(c)
    BY <1>2, AnnounceIs DEF f
  <2>. HIDE DEF c
  <2>7. /\ u \in Readers /\ u.root = b.root /\ u.failed = b.failed /\ u.complete = b.complete
        /\ u.error = b.error /\ u.scopes = b.scopes /\ u.values = b.values
        /\ u.input = b.input /\ u.raw = b.raw /\ u.ahead = b.ahead /\ u.read = b.read
        /\ Len(u.stack) = n /\ u.stack # <<>> /\ Top(u) = c
        /\ \A i \in 1..n : u.stack[i] = IF i = n THEN c ELSE s.stack[i]
    BY <2>3, <2>6, SetTopIs
  <2>. HIDE DEF u
  <2>8. Sound(u, late)
    <3>1. Bounded(s)
      BY <1>1 DEF Sound
    <3>2. DecodeLimits.items \in Nat
      BY DecodeLimitsAssumption
    <3>3. \A i \in 1..n : q[i] <= DecodeLimits.items
      <4>1. Charge(f) \in Nat
        BY <1>2, FrameIs DEF Charge
      <4>2. Charge(f) + 1 <= DecodeLimits.items
        BY <1>3, <1>6, <3>2, <4>1
      <4>. QED
        BY <1>3, <2>2, <3>1, <4>2 DEF Bounded
    <3>4. Bounded(u)
      BY <1>3, <2>2, <2>3, <2>7, <3>1, <3>3 DEF Bounded
    <3>. QED
      BY <1>1, <2>3, <2>7, <3>4 DEF Sound, Latched, Ended
  <2>9. \A i \in 1..n : FrameOK(u.stack[i]) /\ u.scopes[i] = Charge(u.stack[i])
    <3>1. \A i \in 1..n : FrameOK(s.stack[i]) /\ s.scopes[i] = Charge(s.stack[i])
      BY DEF Midway, Charged_As
    <3>. QED
      BY <2>2, <2>3, <2>6, <2>7, <3>1
  <2>10. Charged_As(u) /\ Midway(u, late)
    BY <2>2, <2>3, <2>7, <2>8, <2>9 DEF Midway, Charged_As
  <2>11. Owes(u.stack, w)
    <3>1. ASSUME NEW i \in 1..n
          PROVE  w[2 * i - 1] = Env(u.stack[i]) /\ w[2 * i] = Main(u.stack[i])
      <4>1. CASE i = n
        BY <1>2, <2>6, <2>7, <4>1 DEF c, f
      <4>2. CASE i # n
        <5>1. i \in 1..(n - 1)
          BY <1>2, <4>2
        <5>. QED
          BY <2>7, <4>2, <5>1
      <4>. QED
        BY <4>1, <4>2
    <3>. QED
      BY <2>7, <3>1 DEF Owes
  <2>12. Foreseen(u) /\ Stands(u.read, w)
    BY <2>3, <2>6, <2>7 DEF Foreseen, NextIsItem, Next_Token, Midway
  <2>. QED
    BY <2>4, <2>5, <2>10, <2>11, <2>12, MidwayServes DEF u
<1>. QED
  BY <1>5, <1>6

\* The container is found to be at its end.
LEMMA ExhaustedServes ==
  ASSUME NEW r, NEW late, Live(r), Sound(r, late), r.raw = <<>>, r.stack # <<>>,
         Top(r).kind # "optional", Idle(Top(r)),
         \/ Top(r).known /\ Top(r).observed = Top(r).declared
         \/ Top(r).indefinite /\ NextIsBreak(r)
  PROVE  Served(Exhausted(r), late)
<1>. DEFINE f == Top(r)
            c == [f EXCEPT !.exhausted = TRUE]
            u == SetTop(r, c)
<1>1. PICK o \in Seq(Entries) : Owes(r.stack, o) /\ Stands(r.read, o)
  BY Inside
<1>2. Midway(r, late) /\ r \in Readers /\ f \in Frames /\ FrameOK(f)
  BY Inside, TopIs DEF Live, Bounded
<1>3. Exhausted(r) = u
  BY DEF Exhausted
<1>4. /\ f.kind # "optional" /\ Idle(f) /\ f.known = ~f.indefinite
      /\ f.indefinite \in BOOLEAN /\ f.known \in BOOLEAN
  BY <1>2, FrameIs DEF FrameOK
<1>5. \/ f.known /\ f.observed = f.declared
      \/ f.indefinite /\ NextIsBreak(r)
  OBVIOUS
<1>. HIDE DEF f
<1>6. /\ c \in Frames /\ c.kind = f.kind /\ c.known = f.known /\ c.declared = f.declared
      /\ c.observed = f.observed /\ c.exhausted = TRUE /\ c.child = f.child
      /\ c.phase = f.phase /\ c.indefinite = f.indefinite /\ c.envelope = f.envelope
  BY <1>2 DEF Frames
<1>. HIDE DEF c
<1>7. FrameOK(c)
  <2>1. Idle(c)
    BY <1>4, <1>6 DEF Idle
  <2>2. f.envelope => f.kind \in {"optional", "variant"}
    BY <1>2 DEF FrameOK
  <2>3. c.known => c.observed = c.declared
    BY <1>4, <1>5, <1>6
  <2>4. c.observed \in Nat /\ c.declared \in Nat
    BY <1>6, FrameIs
  <2>. QED
    BY <1>4, <1>6, <2>1, <2>2, <2>3, <2>4 DEF FrameOK
<1>8. /\ Charge(c) = Charge(f) /\ Env(c) = Env(f) /\ Odd(c) = Odd(f) /\ ~Ready(c)
  BY <1>4, <1>6 DEF Charge, Env, Odd, Ready, Idle
<1>9. Main(c) = Main(f)
  <2>1. Slots(c) = Slots(f)
    BY <1>6, <1>8 DEF Slots
  <2>. QED
    BY <1>6, <1>8, <2>1 DEF Main
<1>10. Midway(u, late) /\ Owes(u.stack, o) /\ Top(u) = c
  BY <1>1, <1>2, <1>6, <1>7, <1>8, <1>9, Retopped DEF f
<1>11. u.read = r.read /\ u.ahead = r.ahead /\ u.raw = r.raw
  BY <1>2, <1>6, SetTopIs
<1>12. Foreseen(u)
  <2>1. c.indefinite => NextIsBreak(r)
    BY <1>4, <1>5, <1>6
  <2>. QED
    BY <1>6, <1>8, <1>10, <1>11, <2>1 DEF Foreseen, NextIsBreak, Next_Token
<1>. QED
  BY <1>1, <1>3, <1>10, <1>11, <1>12, MidwayServes

\* The container goes on: the decoder takes another item.
LEMMA Continues ==
  ASSUME NEW r, NEW late, Live(r), Sound(r, late), r.raw = <<>>, r.stack # <<>>,
         Top(r).kind # "optional", Idle(Top(r)), ~Top(r).exhausted,
         ~(Top(r).known /\ Top(r).observed = Top(r).declared),
         NEW o \in Seq(Entries), Stands(r.read, o), o # <<>>, o[Len(o)] = Main(Top(r))
  PROVE  /\ Takes(r.read, o)
         /\ Top(r).known => Top(r).observed < Top(r).declared
         /\ Top(r).known \/ Top(r).indefinite
         /\ ~Top(r).indefinite => ~o[Len(o)].indefinite
<1>. DEFINE f == Top(r)
<1>1. f \in Frames /\ FrameOK(f)
  BY TopIs DEF Live, Bounded
<1>2. f.known = ~f.indefinite /\ f.indefinite \in BOOLEAN /\ f.known \in BOOLEAN
      /\ f.observed \in Nat /\ f.declared \in Nat
  BY <1>1, FrameIs DEF FrameOK
<1>3. f.known => f.observed < f.declared
  BY <1>1, <1>2 DEF FrameOK
<1>4. Pending(Main(f)) /\ Main(f).indefinite = f.indefinite
  BY <1>1, <1>3, AnnounceIs, MainIs
<1>. QED
  BY <1>2, <1>3, <1>4 DEF Takes

\* What comes before the child: nothing here, the break that is not one.
LEMMA Sought ==
  ASSUME NEW r, NEW late, Live(r), Sound(r, late), r.raw = <<>>, r.stack # <<>>,
         Top(r).kind # "optional", Idle(Top(r)), ~Top(r).exhausted,
         ~(Top(r).known /\ Top(r).observed = Top(r).declared)
  PROVE  /\ Top(r).indefinite =>
              \/ Latched(Inspect_Head(r)) /\ Refused(Inspect_Head(r), late)
              \/ /\ Inspect_Head(r) = r /\ ~Latched(Inspect_Head(r))
                 /\ At_Break(r) => NextIsBreak(r)
         /\ (~Top(r).indefinite \/ (Inspect_Head(r) = r /\ ~At_Break(r))) =>
              \/ Refused(Require_Child_Start(r), late)
              \/ /\ Require_Child_Start(r) = r /\ Seen(r) /\ Next_Token(r).head # "break"
<1>1. PICK o \in Seq(Entries) :
        /\ Owes(r.stack, o) /\ Stands(r.read, o) /\ o # <<>>
        /\ Len(o) = 2 * Len(r.stack) /\ o[Len(o)] = Main(Top(r)) /\ o[Len(o) - 1] = Env(Top(r))
  BY Inside
<1>2. Takes(r.read, o) /\ (~Top(r).indefinite => ~o[Len(o)].indefinite)
  BY <1>1, Continues
<1>3. ~Latched(r) /\ r.read \in Decoders
  BY DEF Sound, Bounded, Readers
<1>4. ~Grammar!Whole(r.read)
  BY <1>2, <1>3, TakesIsNotWhole
<1>5. Refused(Inspect_Head(r), late) \/ (Inspect_Head(r) = r /\ Seen(r))
  BY <1>4, Inspected
<1>6. Refused(Inspect_Head(r), late) => Latched(Inspect_Head(r))
  BY DEF Refused
<1>7. Seen(r) /\ At_Break(r) => NextIsBreak(r)
  BY DEF Seen, At_Break, NextIsBreak
<1>8. CASE ~Top(r).indefinite
  BY <1>1, <1>2, <1>8, ChildStarts
<1>9. CASE Top(r).indefinite
  <2>1. ASSUME Inspect_Head(r) = r, ~At_Break(r)
        PROVE  Require_Child_Start(r) = r /\ Seen(r) /\ Next_Token(r).head # "break"
    <3>1. Seen(r) /\ Next_Token(r).head # "break"
      BY <1>3, <1>5, <1>6, <2>1 DEF At_Break
    <3>. QED
      BY <1>3, <2>1, <3>1 DEF Require_Child_Start, Unless
  <2>. QED
    BY <1>3, <1>5, <1>6, <1>7, <1>9, <2>1
<1>. QED
  BY <1>8, <1>9

\* An element, or the key of an entry.
LEMMA ItemServes ==
  ASSUME NEW r, NEW late, Live(r), Sound(r, late), r.raw = <<>>, r.stack # <<>>,
         Top(r).kind \in {"sequence", "map"}, Idle(Top(r)), ~Top(r).exhausted,
         ~(Top(r).known /\ Top(r).observed = Top(r).declared),
         Seen(r), Next_Token(r).head # "break"
  PROVE  Served(Announced(Charge_Item(r)), late)
<1>. DEFINE n == Len(r.stack)
<1>1. PICK o \in Seq(Entries) :
        /\ Owes(r.stack, o) /\ Stands(r.read, o) /\ o # <<>>
        /\ Len(o) = 2 * n /\ o[Len(o)] = Main(Top(r)) /\ o[Len(o) - 1] = Env(Top(r))
  BY Inside
<1>2. Top(r).known => Top(r).observed < Top(r).declared
  BY <1>1, Continues
<1>3. Midway(r, late) /\ Top(r) \in Frames /\ FrameOK(Top(r)) /\ n \in Nat /\ n > 0
  BY Inside, TopIs DEF Live, Bounded
<1>4. Main(Announce(Top(r))) = Main(Top(r))
  BY <1>2, <1>3, AnnounceIs
<1>5. \A i \in 1..(n - 1) : o[2 * i - 1] = Env(r.stack[i]) /\ o[2 * i] = Main(r.stack[i])
  <2>1. \A i \in 1..(n - 1) : i \in 1..n
    BY <1>3
  <2>. QED
    BY <1>1, <2>1 DEF Owes
<1>6. NextIsItem(r)
  BY DEF NextIsItem, Seen
<1>. QED
  BY <1>1, <1>2, <1>3, <1>4, <1>5, <1>6, AnnouncedServes

\* A field: its name is consumed, and its value begins.
LEMMA FieldServes ==
  ASSUME NEW r, NEW late, Live(r), Sound(r, late), r.raw = <<>>, r.stack # <<>>,
         Top(r).kind \in {"record", "variant"}, Idle(Top(r)), ~Top(r).exhausted,
         ~(Top(r).known /\ Top(r).observed = Top(r).declared),
         Seen(r), Next_Token(r).head # "break", NEW fits \in BOOLEAN
  PROVE  Served(Announced(Charge_Item(Require_Child_Start(Advance(Scan_Text(r, fits))))), late)
<1>. DEFINE n == Len(r.stack)
            t == Scan_Text(r, fits)
            p == Past(r)
            q == Require_Child_Start(Advance(t))
<1>1. PICK o \in Seq(Entries) :
        /\ Owes(r.stack, o) /\ Stands(r.read, o) /\ o # <<>>
        /\ Len(o) = 2 * n /\ o[Len(o)] = Main(Top(r)) /\ o[Len(o) - 1] = Env(Top(r))
  BY Inside
<1>. DEFINE w == FillLast(o)
<1>2. Takes(r.read, o) /\ (Top(r).known => Top(r).observed < Top(r).declared)
  BY <1>1, Continues
<1>3. Midway(r, late) /\ Top(r) \in Frames /\ FrameOK(Top(r)) /\ n \in Nat /\ n > 0
      /\ r \in Readers /\ r.read \in Decoders /\ r.stack \in Seq(Frames)
  BY Inside, TopIs DEF Live, Bounded, Readers
<1>4. ~Grammar!Whole(r.read)
  BY <1>2, <1>3, TakesIsNotWhole
<1>5. Refused(t, late) \/ (t = r /\ IsText(Next_Token(r)))
  BY <1>4, SurfaceIs, TextScanned
<1>6. \A s : Refused(s, late) =>
        /\ Advance(s) = s /\ Require_Child_Start(s) = s /\ Charge_Item(s) = s /\ Announced(s) = s
  BY Passes DEF Refused
<1>7. CASE Refused(t, late)
  BY <1>6, <1>7 DEF Served
<1>8. CASE t = r /\ IsText(Next_Token(r))
  <2>1. ~Opens(Next_Token(r))
    BY <1>8 DEF IsText, Opens
  <2>2. Advance(r) = p
    BY PastIs
  <2>3. Sound(p, late) /\ w \in Seq(Entries) /\ Stands(p.read, w)
    BY <1>2, <2>1, PastTakes DEF Taken
  <2>4. /\ p.stack = r.stack /\ p.root = r.root /\ p.raw = r.raw /\ p.scopes = r.scopes
        /\ p.complete = r.complete
    BY <1>3, PastKeeps
  <2>. DEFINE c == Announce(Top(r))
  <2>5. /\ Pending(Main(Top(r))) /\ Main(c) = Grammar!Filled(Main(Top(r)))
        /\ ~Main(c).indefinite \/ Main(c).odd
        /\ Ready(c) /\ c \in Frames /\ FrameOK(c)
    BY <1>2, <1>3, AnnounceIs
  <2>6. Pending(Main(c))
    BY <2>5, MainIs
  <2>. HIDE DEF c, p
  <2>7. /\ Len(w) = 2 * n /\ w[2 * n] = Main(c)
        /\ \A i \in 1..(2 * n) : i # 2 * n => w[i] = o[i]
    <3>1. w = [o EXCEPT ![2 * n] = Main(c)]
      BY <1>1, <2>5 DEF FillLast
    <3>2. 2 * n \in 1..(2 * n) /\ Main(c) \in Entries
      BY <1>3, <2>5, MainIs
    <3>. HIDE DEF w
    <3>. QED
      BY <1>1, <3>1, <3>2, ExceptSeq
  <2>. HIDE DEF w
  <2>8. w # <<>> /\ w[Len(w)] = Main(c)
    BY <1>3, <2>3, <2>7, EmptySeq
  <2>9. Takes(p.read, w)
    BY <2>3, <2>6, <2>8 DEF Takes
  <2>10. \/ Refused(Require_Child_Start(p), late)
         \/ Require_Child_Start(p) = p /\ Seen(p) /\ Next_Token(p).head # "break"
    BY <2>3, <2>5, <2>8, <2>9, ChildStarts
  <2>11. q = Require_Child_Start(p)
    BY <1>8, <2>2
  <2>. HIDE DEF q
  <2>12. CASE Refused(q, late)
    BY <1>6, <2>12 DEF Served, q
  <2>13. CASE q = p /\ Seen(p) /\ Next_Token(p).head # "break"
    <3>1. Midway(p, late) /\ Top(p) = Top(r) /\ NextIsItem(p)
      BY <1>3, <2>3, <2>4, <2>13 DEF Midway, Charged_As, Top, NextIsItem, Seen
    <3>2. \A i \in 1..(n - 1) : w[2 * i - 1] = Env(p.stack[i]) /\ w[2 * i] = Main(p.stack[i])
      <4>1. \A i \in 1..(n - 1) : /\ 2 * i \in 1..(2 * n) /\ 2 * i # 2 * n /\ i \in 1..n
                                  /\ 2 * i - 1 \in 1..(2 * n) /\ 2 * i - 1 # 2 * n
        BY <1>3
      <4>. QED
        BY <1>1, <2>4, <2>7, <4>1 DEF Owes
    <3>3. w[2 * n - 1] = Env(Top(p))
      <4>1. 2 * n - 1 \in 1..(2 * n) /\ 2 * n - 1 # 2 * n
        BY <1>3
      <4>. QED
        BY <1>1, <2>7, <3>1, <4>1
    <3>4. Served(Announced(Charge_Item(p)), late)
      BY <1>2, <2>3, <2>4, <2>7, <3>1, <3>2, <3>3, AnnouncedServes DEF c
    <3>. QED
      BY <2>13, <3>4 DEF q
  <2>. QED
    BY <2>10, <2>11, <2>12, <2>13
<1>. QED
  BY <1>5, <1>7, <1>8

\* The three handlers that ask for the next child serve.
LEMMA NextServes ==
  ASSUME NEW r, NEW late, Live(r), Sound(r, late), r.raw = <<>>, NEW fits \in BOOLEAN
  PROVE  /\ Served(Next_Element(r), late)
         /\ Served(Next_Map_Entry(r), late)
         /\ Served(Next_Field(r, fits), late)
<1>. DEFINE b(kinds) == \/ r.stack = <<>> \/ Top(r).kind \notin kinds
                        \/ ~Idle(Top(r)) \/ Top(r).exhausted
            t(kinds) == Unless(r, b(kinds), "Invalid_State")
            f == Top(r)
            v(s) == Inspect_Head(s)
            e == Charge_Item(Require_Child_Start(r))
            Tail_Of(s, x) ==
              IF Latched(s) THEN s
              ELSE IF f.known /\ f.observed = f.declared THEN Exhausted(s)
              ELSE IF f.indefinite /\ Latched(v(s)) THEN v(s)
              ELSE IF f.indefinite /\ At_Break(v(s)) THEN Exhausted(v(s))
              ELSE x
            Named(s) == Require_Child_Start(Advance(Scan_Text(Require_Child_Start(s), fits)))
<1>1. Require_Ready(r) = r
  BY DEF Require_Ready, Unless, Sound
<1>2. /\ Next_Element(r) =
           Tail_Of(t({"sequence"}), Announced(Charge_Item(Require_Child_Start(t({"sequence"})))))
      /\ Next_Map_Entry(r) =
           Tail_Of(t({"map"}), Announced(Charge_Item(Require_Child_Start(t({"map"})))))
      /\ Next_Field(r, fits) =
           Tail_Of(t({"record", "variant"}), Announced(Charge_Item(Named(t({"record", "variant"})))))
  BY <1>1 DEF Next_Element, Next_Map_Entry, Next_Field, Next_Child, Itself
<1>3. ASSUME NEW kinds \in {{"sequence"}, {"map"}, {"record", "variant"}}
      PROVE  \/ Latched(t(kinds)) /\ Refused(t(kinds), late)
             \/ /\ r.stack # <<>> /\ f.kind \in kinds /\ Idle(f) /\ ~f.exhausted
                /\ t(kinds) = r /\ ~Latched(r)
  <2>1. b(kinds) \in BOOLEAN
    OBVIOUS
  <2>2. IF b(kinds) THEN Refused(t(kinds), late) ELSE t(kinds) = r
    BY <2>1, UnlessSplits DEF Codes, Starved
  <2>. QED
    BY <2>2 DEF Refused, Sound
<1>. HIDE DEF t
<1>4. ASSUME NEW x, r.stack # <<>>, f.kind # "optional", Idle(f), ~f.exhausted,
             /\ ~(f.known /\ f.observed = f.declared)
             /\ \/ Refused(Require_Child_Start(r), late)
                \/ Require_Child_Start(r) = r /\ Seen(r) /\ Next_Token(r).head # "break"
             => Served(x, late)
      PROVE  Served(Tail_Of(r, x), late)
  <2>1. ~Latched(r)
    BY DEF Sound
  <2>2. CASE f.known /\ f.observed = f.declared
    <3>1. Served(Exhausted(r), late)
      BY <1>4, <2>2, ExhaustedServes
    <3>. QED
      BY <2>1, <2>2, <3>1
  <2>3. CASE ~(f.known /\ f.observed = f.declared) /\ ~f.indefinite
    <3>1. \/ Refused(Require_Child_Start(r), late)
          \/ Require_Child_Start(r) = r /\ Seen(r) /\ Next_Token(r).head # "break"
      BY <1>4, <2>3, Sought
    <3>. QED
      BY <1>4, <2>1, <2>3, <3>1
  <2>4. CASE ~(f.known /\ f.observed = f.declared) /\ f.indefinite
    <3>1. \/ Latched(Inspect_Head(r)) /\ Refused(Inspect_Head(r), late)
          \/ /\ Inspect_Head(r) = r /\ ~Latched(Inspect_Head(r))
             /\ At_Break(r) => NextIsBreak(r)
      BY <1>4, <2>4, Sought
    <3>2. CASE Latched(Inspect_Head(r)) /\ Refused(Inspect_Head(r), late)
      BY <2>1, <2>4, <3>2 DEF Served
    <3>3. CASE Inspect_Head(r) = r /\ At_Break(r) /\ NextIsBreak(r)
      <4>1. Served(Exhausted(r), late)
        BY <1>4, <2>4, <3>3, ExhaustedServes
      <4>. QED
        BY <2>1, <2>4, <3>3, <4>1
    <3>4. CASE Inspect_Head(r) = r /\ ~At_Break(r)
      <4>1. \/ Refused(Require_Child_Start(r), late)
            \/ Require_Child_Start(r) = r /\ Seen(r) /\ Next_Token(r).head # "break"
        BY <1>4, <2>4, <3>4, Sought
      <4>. QED
        BY <1>4, <2>1, <2>4, <3>4, <4>1
    <3>. QED
      BY <3>1, <3>2, <3>3, <3>4
  <2>. QED
    BY <2>2, <2>3, <2>4
<1>5. \A s : Refused(s, late) =>
        /\ Advance(s) = s /\ Require_Child_Start(s) = s /\ Charge_Item(s) = s
        /\ Announced(s) = s /\ Scan_Text(s, fits) = s
  BY Passes DEF Refused
<1>6. ASSUME NEW kind \in {"sequence", "map"}
      PROVE  Served(Tail_Of(t({kind}), Announced(Charge_Item(Require_Child_Start(t({kind}))))), late)
  <2>1. CASE Latched(t({kind})) /\ Refused(t({kind}), late)
    BY <2>1 DEF Served
  <2>2. CASE /\ r.stack # <<>> /\ f.kind \in {kind} /\ Idle(f) /\ ~f.exhausted
             /\ t({kind}) = r /\ ~Latched(r)
    <3>. DEFINE x == Announced(Charge_Item(Require_Child_Start(r)))
    <3>1. Refused(Require_Child_Start(r), late) => Served(x, late)
      BY <1>5 DEF Served
    <3>2. /\ ~(f.known /\ f.observed = f.declared)
          /\ Require_Child_Start(r) = r /\ Seen(r) /\ Next_Token(r).head # "break"
          => Served(x, late)
      BY <2>2, ItemServes
    <3>. HIDE DEF x
    <3>3. Served(Tail_Of(r, x), late)
      BY <1>4, <2>2, <3>1, <3>2
    <3>. QED
      BY <2>2, <3>3 DEF x
  <2>. QED
    BY <1>3, <2>1, <2>2
<1>7. Served(Tail_Of(t({"record", "variant"}),
                     Announced(Charge_Item(Named(t({"record", "variant"}))))), late)
  <2>. DEFINE k == {"record", "variant"}
  <2>1. CASE Latched(t(k)) /\ Refused(t(k), late)
    BY <2>1 DEF Served
  <2>2. CASE /\ r.stack # <<>> /\ f.kind \in k /\ Idle(f) /\ ~f.exhausted
             /\ t(k) = r /\ ~Latched(r)
    <3>. DEFINE x == Announced(Charge_Item(Named(r)))
    <3>1. Refused(Require_Child_Start(r), late) => Served(x, late)
      BY <1>5 DEF Served
    <3>2. /\ ~(f.known /\ f.observed = f.declared)
          /\ Require_Child_Start(r) = r /\ Seen(r) /\ Next_Token(r).head # "break"
          => Served(x, late)
      BY <2>2, FieldServes
    <3>. HIDE DEF x
    <3>3. Served(Tail_Of(r, x), late)
      BY <1>4, <2>2, <3>1, <3>2
    <3>. QED
      BY <2>2, <3>3 DEF x
  <2>. QED
    BY <1>3, <2>1, <2>2
<1>. QED
  BY <1>2, <1>6, <1>7

-----------------------------------------------------------------------------
(* Optionals and variants. *)

\* Filling the entry just appended touches no other.
LEMMA FillAppend ==
  ASSUME NEW w \in Seq(Entries), NEW e \in Entries, Grammar!Filled(e) \in Entries
  PROVE  /\ Append(w, e) \in Seq(Entries) /\ Append(w, e) # <<>>
         /\ Append(w, e)[Len(Append(w, e))] = e
         /\ FillLast(Append(w, e)) = Append(w, Grammar!Filled(e))
<1>. DEFINE x == Append(w, e)
            y == Append(w, Grammar!Filled(e))
            n == Len(w) + 1
<1>1. Len(w) \in Nat /\ n \in 1..n
  BY LenProperties
<1>2. x \in Seq(Entries) /\ Len(x) = n /\ x[n] = e /\ \A i \in 1..Len(w) : x[i] = w[i]
  BY AppendProperties
<1>3. /\ y \in Seq(Entries) /\ Len(y) = n /\ y[n] = Grammar!Filled(e)
      /\ \A i \in 1..Len(w) : y[i] = w[i]
  BY AppendProperties
<1>. HIDE DEF x, y
<1>4. x # <<>>
  BY <1>1, <1>2, EmptySeq
<1>. DEFINE z == FillLast(x)
<1>5. z = [x EXCEPT ![n] = Grammar!Filled(e)]
  BY <1>2, <1>4 DEF FillLast
<1>. HIDE DEF z
<1>6. /\ z \in Seq(Entries) /\ Len(z) = n
      /\ \A i \in 1..n : z[i] = IF i = n THEN Grammar!Filled(e) ELSE x[i]
  BY <1>1, <1>2, <1>5, ExceptSeq
<1>7. \A i \in 1..n : z[i] = y[i]
  <2>1. \A i \in 1..n : i = n \/ i \in 1..Len(w)
    BY <1>1
  <2>. QED
    BY <1>2, <1>3, <1>6, <2>1
<1>8. z = y
  BY <1>3, <1>6, <1>7, SeqEqual
<1>. QED
  BY <1>2, <1>4, <1>8 DEF x, y, z

\* The next item is consumed in the middle of a call.
LEMMA PastMidway ==
  ASSUME NEW t, NEW late, Midway(t, late), Seen(t), NEW x \in Seq(Entries), Takes(t.read, x),
         Next_Token(t).head # "break"
  PROVE  /\ Advance(t) = Past(t) /\ Midway(Past(t), late) /\ Past(t).stack = t.stack
         /\ Taken(x, Next_Token(t)) \in Seq(Entries)
         /\ Stands(Past(t).read, Taken(x, Next_Token(t)))
<1>1. Sound(t, late) /\ t \in Readers
  BY DEF Midway, Sound, Bounded
<1>2. Advance(t) = Past(t)
  BY <1>1, PastIs
<1>3. Sound(Past(t), late) /\ Taken(x, Next_Token(t)) \in Seq(Entries)
      /\ Stands(Past(t).read, Taken(x, Next_Token(t)))
  BY <1>1, PastTakes
<1>4. Midway(Past(t), late) /\ Past(t).stack = t.stack
  BY <1>1, <1>3, PastKeeps DEF Midway, Charged_As
<1>. QED
  BY <1>2, <1>3, <1>4

\* What may not follow inside of an envelope.
LEMMA InnerRefused ==
  ASSUME NEW s, NEW late, Sound(s, late), NEW x \in Seq(Entries), Takes(s.read, x),
         NEW envelope, ~Indefinite(envelope) => x # <<>> /\ ~x[Len(x)].indefinite,
         NEW b \in BOOLEAN
  PROVE  LET t == Next_Token(s)
             untagged == Unless(Inspect_Head(s), t.head = "tag", "Unsupported_Value")
             present == Unless(untagged, t.head = "break",
                               IF Indefinite(envelope) THEN "Invalid_Value" ELSE "Syntax_Error")
             last == Unless(present, b, "Invalid_Value")
         IN  \/ Refused(last, late)
             \/ last = s /\ Seen(s) /\ ~b /\ Next_Token(s).head \notin {"tag", "break"}
<1>. DEFINE t == Next_Token(s)
            i == Inspect_Head(s)
            c == IF Indefinite(envelope) THEN "Invalid_Value" ELSE "Syntax_Error"
            untagged == Unless(i, t.head = "tag", "Unsupported_Value")
            present == Unless(untagged, t.head = "break", c)
            last == Unless(present, b, "Invalid_Value")
<1>1. s.read \in Decoders
  BY DEF Sound, Bounded, Readers
<1>2. ~Grammar!Whole(s.read)
  BY <1>1, TakesIsNotWhole
<1>3. Refused(i, late) \/ (i = s /\ Seen(s))
  BY <1>2, Inspected
<1>4. \A q : Refused(q, late) => Latched(q)
  BY DEF Refused
<1>5. Refused(i, late) => untagged = i
  BY <1>4, Passes
<1>6. i = s => IF t.head = "tag" THEN Refused(untagged, late) ELSE untagged = s
  BY UnlessSplits DEF Starved, Codes
<1>7. Refused(untagged, late) => present = untagged
  BY <1>4, Passes
<1>8. untagged = s => IF t.head = "break" THEN Refused(present, late) ELSE present = s
  <2>1. t.head = "break" /\ c = "Syntax_Error" => Malformed(s)
    <3>1. ASSUME t.head = "break", ~Indefinite(envelope)
          PROVE  Malformed(s)
      <4>1. Grammar!ReadBreak(s.read).bad
        BY <1>1, <3>1, BreakRefused
      <4>. QED
        BY <3>1, <4>1, BreakIsBreak DEF Malformed
    <3>. QED
      BY <3>1
  <2>2. c \in Codes /\ c # Starved
    BY DEF Codes, Starved
  <2>3. IF t.head = "break" THEN Refused(Unless(s, t.head = "break", c), late)
        ELSE Unless(s, t.head = "break", c) = s
    BY <2>1, <2>2, UnlessSplits
  <2>. HIDE DEF untagged, c
  <2>. QED
    BY <2>3
<1>9. Refused(present, late) => last = present
  BY <1>4, Passes
<1>10. present = s => IF b THEN Refused(last, late) ELSE last = s
  <2>1. IF b THEN Refused(Unless(s, b, "Invalid_Value"), late)
        ELSE Unless(s, b, "Invalid_Value") = s
    BY UnlessSplits DEF Starved, Codes
  <2>. HIDE DEF present
  <2>. QED
    BY <2>1
<1>. HIDE DEF i, c, untagged, present, last
<1>11. \/ Refused(last, late)
       \/ last = s /\ Seen(s) /\ ~b /\ Next_Token(s).head \notin {"tag", "break"}
  BY <1>3, <1>5, <1>6, <1>7, <1>8, <1>9, <1>10
<1>. QED
  BY <1>11 DEF i, c, untagged, present, last

\* The envelope is an array, and is entered.
LEMMA EnvelopeServes ==
  ASSUME NEW r, NEW late, Live(r), Sound(r, late), r.raw = <<>>, NEW counts \in {{1, 2}, {2}}
  PROVE  LET s == Advance(Prepare_Value(Envelope(r, counts)))
             e == Next_Token(r)
         IN  \/ Refused(s, late)
             \/ /\ Midway(s, late) /\ IsArray(e) /\ e \in Tokens
                /\ ~Indefinite(e) => e.count \in counts
                /\ \E w \in Seq(Entries) :
                     /\ Owes(s.stack, w)
                     /\ Append(w, Opened(e)) \in Seq(Entries)
                     /\ Stands(s.read, Append(w, Opened(e)))
<1>. DEFINE e == Next_Token(r)
            b == ~Indefinite(e) /\ e.count \notin counts
            k == Require_Kind(r, IsArray)
            v == Unless(k, b, "Invalid_Value")
            s == Advance(Prepare_Value(v))
<1>1. Refused(k, late) \/ (k = r /\ IsArray(e) /\ Familiar(r) /\ Expects(r))
  <2>1. k = Unless(Inspect_Surface_Head(Check_Value_Ready(r)), ~IsArray(e), "Unexpected_Kind")
    BY DEF Require_Kind, IsArray
  <2>2. (~IsArray(e)) \in BOOLEAN
    BY DEF IsArray
  <2>. QED
    BY <2>1, <2>2, KindChecked
<1>2. Envelope(r, counts) = v
  BY DEF Envelope
<1>3. \A q : Refused(q, late) => /\ Unless(q, b, "Invalid_Value") = q
                                 /\ Prepare_Value(q) = q /\ Advance(q) = q
  BY Passes DEF Refused
<1>4. IF b THEN Refused(Unless(r, b, "Invalid_Value"), late)
      ELSE Unless(r, b, "Invalid_Value") = r
  <2>1. b \in BOOLEAN
    BY DEF Indefinite
  <2>. QED
    BY <2>1, UnlessSplits DEF Starved, Codes
<1>. HIDE DEF k
<1>5. Refused(v, late) \/ (v = r /\ ~b /\ IsArray(e) /\ Familiar(r) /\ Expects(r))
  BY <1>1, <1>3, <1>4
<1>. HIDE DEF v
<1>6. CASE Refused(v, late)
  BY <1>2, <1>3, <1>6
<1>7. CASE v = r /\ ~b /\ IsArray(e) /\ Familiar(r) /\ Expects(r)
  <2>1. PICK o \in Seq(Entries) : Offers(r, o)
    BY <1>7, LiveOffers
  <2>. DEFINE w == FillLast(o)
  <2>2. Seen(r) /\ e.head # "break" /\ e \in Tokens
    BY <1>7 DEF Familiar, Seen
  <2>3. s = Advance(Prepare_Value(r))
    BY <1>7
  <2>4. \/ Refused(s, late)
        \/ /\ Midway(s, late) /\ w \in Seq(Entries) /\ Owes(s.stack, w)
           /\ Taken(o, e) \in Seq(Entries) /\ Stands(s.read, Taken(o, e))
    BY <2>1, <2>2, <2>3, Taking
  <2>5. Taken(o, e) = Append(w, Opened(e))
    BY <1>7 DEF Taken, Opens, IsArray
  <2>. HIDE DEF s, w, e
  <2>6. \/ Refused(s, late)
        \/ /\ Midway(s, late)
           /\ \E x \in Seq(Entries) :
                /\ Owes(s.stack, x)
                /\ Append(x, Opened(e)) \in Seq(Entries)
                /\ Stands(s.read, Append(x, Opened(e)))
    BY <2>4, <2>5
  <2>. QED
    BY <1>2, <1>7, <2>2, <2>6 DEF s, e
<1>. QED
  BY <1>5, <1>6, <1>7

\* What is left of an envelope when n of its items are to come.
Remains(e, n) == IF Indefinite(e) THEN Grammar!Indefinite(FALSE) ELSE Grammar!Definite(n)

\* What remains of an envelope after some of its items, definite or not.
LEMMA RemainsIs ==
  ASSUME NEW e, NEW n \in Nat
  PROVE  /\ Remains(e, n) \in Entries
         /\ n > 0 => Pending(Remains(e, n)) /\ Grammar!Filled(Remains(e, n)) = Remains(e, n - 1)
         /\ Indefinite(e) => /\ Pending(Remains(e, n)) /\ \A k : Remains(e, k) = Remains(e, n)
                             /\ Grammar!Filled(Remains(e, n)) = Remains(e, n)
         /\ ~Indefinite(e) => ~Remains(e, n).indefinite
<1>1. CASE Indefinite(e)
  <2>1. \A k : Remains(e, k) = Grammar!Indefinite(FALSE)
    BY <1>1 DEF Remains
  <2>2. /\ Grammar!Indefinite(FALSE) \in Entries /\ Pending(Grammar!Indefinite(FALSE))
        /\ Grammar!Filled(Grammar!Indefinite(FALSE)) = Grammar!Indefinite(FALSE)
    BY DEF Grammar!Indefinite, Grammar!Filled, Entries, Pending
  <2>. QED
    BY <1>1, <2>1, <2>2
<1>2. CASE ~Indefinite(e)
  <2>1. Remains(e, n) = Grammar!Definite(n) /\ Remains(e, n - 1) = Grammar!Definite(n - 1)
    BY <1>2 DEF Remains
  <2>2. Grammar!Definite(n) \in Entries /\ ~Grammar!Definite(n).indefinite
    BY DEF Grammar!Definite, Entries
  <2>3. n > 0 => /\ Pending(Grammar!Definite(n))
                 /\ Grammar!Filled(Grammar!Definite(n)) = Grammar!Definite(n - 1)
    BY DEF Grammar!Definite, Grammar!Filled, Pending
  <2>. QED
    BY <1>2, <2>1, <2>2, <2>3
<1>. QED
  BY <1>1, <1>2

\* Entering an optional serves, absent or present.
LEMMA OptionalPushed ==
  ASSUME NEW p, NEW late, Midway(p, late), NEW w \in Seq(Entries), Owes(p.stack, w),
         NEW e, NEW k \in {0, 1},
         Stands(p.read, Append(w, Remains(e, k))), k = 1 => NextIsItem(p)
  PROVE  /\ k = 0 => Served(Push_Optional(p, e, FALSE), late)
         /\ k = 1 => Served(Push_Optional(p, e, TRUE), late)
<1>. DEFINE present == k = 1
            f == [Frame("optional", [head |-> "array", count |-> IF present THEN 1 ELSE 0]) EXCEPT
                    !.child = IF present THEN "ready" ELSE "none", !.exhausted = TRUE,
                    !.indefinite = Indefinite(e), !.envelope = Indefinite(e)]
            b == Pushed(p, f)
            n == Len(p.stack)
<1>1. /\ f.kind = "optional" /\ f.child = (IF present THEN "ready" ELSE "none")
      /\ f.phase = "needs_entry" /\ f.known = TRUE /\ f.declared = k /\ f.observed = 0
      /\ f.exhausted = TRUE /\ f.indefinite = Indefinite(e) /\ f.envelope = Indefinite(e)
      /\ f \in Frames /\ k \in {0, 1}
  <2>. DEFINE a == [head |-> "array", count |-> IF present THEN 1 ELSE 0]
              i == Indefinite(e)
              z == Frame("optional", a)
  <2>1. a.head = "array" /\ a.count = k
    OBVIOUS
  <2>. HIDE DEF a
  <2>2. /\ z.kind = "optional" /\ z.phase = "needs_entry" /\ z.known = TRUE
        /\ z.declared = k /\ z.observed = 0 /\ z \in Frames
    <3>1. Indefinite(a) = FALSE
      BY <2>1 DEF Indefinite
    <3>2. z = [kind |-> "optional", child |-> "none", phase |-> "needs_entry", known |-> TRUE,
               declared |-> k, observed |-> 0, exhausted |-> FALSE, indefinite |-> FALSE,
               envelope |-> FALSE]
      BY <2>1, <3>1 DEF Frame
    <3>. HIDE DEF z
    <3>. QED
      BY <3>2 DEF Frames
  <2>3. i \in BOOLEAN
    BY DEF Indefinite
  <2>4. f = [z EXCEPT !.child = IF present THEN "ready" ELSE "none", !.exhausted = TRUE,
                      !.indefinite = i, !.envelope = i]
    BY DEF a
  <2>. HIDE DEF z, i, f
  <2>5. /\ f.kind = "optional" /\ f.child = (IF present THEN "ready" ELSE "none")
        /\ f.phase = "needs_entry" /\ f.known = TRUE /\ f.declared = k /\ f.observed = 0
        /\ f.exhausted = TRUE /\ f.indefinite = i /\ f.envelope = i /\ f \in Frames
    BY <2>2, <2>3, <2>4 DEF Frames
  <2>. QED
    BY <2>5 DEF i
<1>2. Push_Optional(p, e, present) = IF present THEN Charge_Item(Push(p, f)) ELSE Push(p, f)
  BY DEF Push_Optional
<1>. HIDE DEF f
<1>3. FrameOK(f) /\ Charge(f) = k /\ Env(f) = Grammar!Definite(0) /\ (Ready(f) => present)
  BY <1>1 DEF FrameOK, Charge, Env, Ready
<1>4. Main(f) = Remains(e, k)
  <2>1. CASE Indefinite(e)
    BY <1>1, <2>1 DEF Main, Remains, Run_Of, Grammar!Indefinite
  <2>2. CASE ~Indefinite(e)
    <3>1. Slots(f) = k
      BY <1>1 DEF Slots
    <3>. QED
      BY <1>1, <2>2, <3>1 DEF Main, Remains
  <2>. QED
    BY <2>1, <2>2
<1>5. Stands(p.read, Append(Append(w, Env(f)), Main(f)))
  <2>1. Same(Append(w, Main(f)), Append(Append(w, Grammar!Definite(0)), Main(f)))
    BY <1>1, <1>3, FilledUp, InsertFilled, MainIs
  <2>. QED
    BY <1>3, <1>4, <2>1, StandsElsewhere
<1>6. p \in Readers /\ p.scopes \in Seq(Nat) /\ Sound(p, late) /\ n \in Nat /\ Len(p.scopes) = n
  BY ReaderIs DEF Midway, Sound, Bounded, Charged_As
<1>7. \/ Refused(Push(p, f), late)
      \/ Push(p, f) = b /\ Sound(b, late)
  BY <1>1, <1>6, PushIs
<1>8. /\ b.stack = Append(p.stack, f) /\ b.scopes = Append(p.scopes, 0) /\ b.raw = p.raw
      /\ b.root = p.root /\ b.complete = p.complete /\ b.read = p.read /\ b.ahead = p.ahead
  BY <1>6 DEF Pushed, Readers
<1>. HIDE DEF b
<1>. DEFINE Done == Served(Push_Optional(p, e, present), late)
<1>9. ASSUME Refused(Push(p, f), late)
      PROVE  Done
  <2>1. Charge_Item(Push(p, f)) = Push(p, f)
    BY <1>9, Passes DEF Refused
  <2>. QED
    BY <1>2, <1>9, <2>1 DEF Served
<1>10. ASSUME Push(p, f) = b, Sound(b, late), ~present
       PROVE  Done
  <2>1. k = 0
    BY <1>10
  <2>2. Served(b, late)
    BY <1>1, <1>3, <1>5, <1>8, <1>10, <2>1, NestServes
  <2>. QED
    BY <1>2, <1>10, <2>2
<1>11. ASSUME Push(p, f) = b, Sound(b, late), present
       PROVE  Done
  <2>0. k = 1
    BY <1>11
  <2>. DEFINE c == Consume_Container_Item(b)
  <2>1. b \in Readers /\ ~Latched(b) /\ Charge_Item(b) = Latch(c)
    BY <1>11 DEF Sound, Bounded, Charge_Item, Charged
  <2>2. b.scopes \in Seq(Nat) /\ Len(b.scopes) = n + 1 /\ b.scopes[n + 1] = 0
    BY <1>6, <1>8, <2>1, AppendProperties DEF Readers
  <2>3. CASE 0 >= DecodeLimits.items
    <3>1. Charge_Item(b) = Fail(b, "Capacity_Exceeded")
      BY <1>6, <2>1, <2>2, <2>3 DEF Consume_Container_Item, Fail
    <3>2. Refused(Charge_Item(b), late)
      BY <1>11, <3>1, FailIsRefused DEF Starved, Codes
    <3>. QED
      BY <1>2, <1>11, <3>2 DEF Served
  <2>4. CASE ~(0 >= DecodeLimits.items)
    <3>. DEFINE q == [b.scopes EXCEPT ![n + 1] = @ + 1]
                u == [b EXCEPT !.scopes = q]
    <3>1. c = u
      BY <1>6, <2>1, <2>2, <2>4 DEF Consume_Container_Item, Readers
    <3>3. q \in Seq(Nat) /\ Len(q) = n + 1 /\ \A i \in 1..(n + 1) : q[i] = IF i = n + 1 THEN 1 ELSE b.scopes[i]
      BY <1>6, <2>2, ExceptSeq
    <3>. HIDE DEF q, c
    <3>2. q = Append(p.scopes, 1)
      <4>. DEFINE a == Append(p.scopes, 1)
      <4>1. /\ a \in Seq(Nat) /\ Len(a) = n + 1 /\ a[n + 1] = 1
            /\ \A i \in 1..n : a[i] = p.scopes[i] /\ b.scopes[i] = p.scopes[i]
        BY <1>6, <1>8, AppendProperties
      <4>. HIDE DEF a
      <4>2. \A i \in 1..(n + 1) : i = n + 1 \/ (i # n + 1 /\ i \in 1..n)
        BY <1>6
      <4>3. \A i \in 1..(n + 1) : q[i] = a[i]
        BY <3>3, <4>1, <4>2
      <4>4. q = a
        BY <3>3, <4>1, <4>3, SeqEqual
      <4>. QED
        BY <4>4 DEF a
    <3>4. /\ u \in Readers /\ u.scopes = q /\ u.stack = b.stack
          /\ u.root = b.root /\ u.failed = b.failed /\ u.complete = b.complete
          /\ u.error = b.error /\ u.values = b.values
          /\ u.input = b.input /\ u.raw = b.raw /\ u.ahead = b.ahead /\ u.read = b.read
      BY <2>1, <3>3 DEF Readers
    <3>. HIDE DEF u
    <3>5. Charge_Item(b) = u
      BY <2>1, <3>1, <3>4 DEF Latch, Latched
    <3>6. Sound(u, late)
      <4>1. Bounded(b)
        BY <1>11 DEF Sound
      <4>2. DecodeLimits.items \in Nat
        BY DecodeLimitsAssumption
      <4>3. 1 <= DecodeLimits.items
        BY <2>4, <4>2
      <4>4. \A i \in 1..(n + 1) : q[i] <= DecodeLimits.items
        BY <2>2, <3>3, <4>1, <4>3 DEF Bounded
      <4>5. Bounded(u)
        BY <2>2, <3>3, <3>4, <4>1, <4>4 DEF Bounded
      <4>. QED
        BY <1>11, <3>4, <4>5 DEF Sound, Latched, Ended
    <3>7. NextIsItem(u)
      BY <1>8, <1>11, <3>4 DEF NextIsItem, Next_Token
    <3>8. Served(u, late)
      BY <1>1, <1>3, <1>5, <1>8, <2>0, <3>2, <3>4, <3>6, <3>7, NestServes
    <3>. QED
      BY <1>2, <1>11, <3>5, <3>8
  <2>. QED
    BY <2>3, <2>4
<1>12. Served(Push_Optional(p, e, present), late)
  BY <1>7, <1>9, <1>10, <1>11
<1>13. (k = 0 => present = FALSE) /\ (k = 1 => present = TRUE)
  OBVIOUS
<1>. QED
  BY <1>12, <1>13

\* The head of an envelope opens what remains of all its items.
LEMMA EnvelopeIs ==
  ASSUME NEW e \in Tokens, IsArray(e)
  PROVE  /\ Opened(e) = Remains(e, e.count) /\ e.count \in Nat
         /\ Indefinite(e) \in BOOLEAN
<1>1. ~IsMap(e) /\ e.head # "tag"
  BY DEF IsArray, IsMap
<1>2. IsMap(e) = FALSE
  BY <1>1 DEF IsMap
<1>3. e.count \in Nat /\ Indefinite(e) \in BOOLEAN
  BY TokenIs DEF Indefinite
<1>4. Opened(e) = IF Indefinite(e) THEN Grammar!Indefinite(FALSE) ELSE Grammar!Definite(e.count)
  BY <1>1, <1>2 DEF Opened
<1>. QED
  BY <1>3, <1>4 DEF Remains

\* Entering an optional serves, whatever its envelope and its tag are.
LEMMA BeginOptionalServes ==
  ASSUME NEW r, NEW late, Live(r), Sound(r, late), r.raw = <<>>
  PROVE  Served(Begin_Optional(r), late)
<1>. DEFINE e == Next_Token(r)
            s == Advance(Prepare_Value(Envelope(r, {1, 2})))
            m == Refuse_Inner(s, e, IsMarker)
<1>1. Begin_Optional(r) = Take_Marker(m, e)
  BY DEF Begin_Optional
<1>2. \/ Refused(s, late)
      \/ /\ Midway(s, late) /\ IsArray(e) /\ e \in Tokens
         /\ ~Indefinite(e) => e.count \in {1, 2}
         /\ \E w \in Seq(Entries) :
              /\ Owes(s.stack, w)
              /\ Append(w, Opened(e)) \in Seq(Entries)
              /\ Stands(s.read, Append(w, Opened(e)))
  BY EnvelopeServes
<1>. HIDE DEF s, e
<1>3. \A q : Refused(q, late) => Latched(q)
  BY DEF Refused
<1>4. \A q : Refused(q, late) => Take_Marker(q, e) = q
  BY <1>3 DEF Take_Marker
<1>5. CASE Refused(s, late)
  <2>1. m = s
    BY <1>3, <1>5, Passes DEF Refuse_Inner
  <2>. QED
    BY <1>1, <1>4, <1>5, <2>1 DEF Served
<1>6. ASSUME Midway(s, late), IsArray(e), e \in Tokens, ~Indefinite(e) => e.count \in {1, 2},
             NEW w \in Seq(Entries), Owes(s.stack, w), Append(w, Opened(e)) \in Seq(Entries),
             Stands(s.read, Append(w, Opened(e)))
      PROVE  Served(Begin_Optional(r), late)
  <2>. DEFINE n == e.count
              x == Append(w, Remains(e, n))
              y == Append(w, Remains(e, n - 1))
              p == Past(s)
              tok == Next_Token(s)
              present == tok.head = "one"
              k == IF present THEN 1 ELSE 0
              t == Unless(p, ~Indefinite(e) /\ n # (IF present THEN 2 ELSE 1), "Invalid_Value")
              u == Refuse_Inner(t, e, IsAny)
  <2>1. /\ Opened(e) = Remains(e, n) /\ n \in Nat /\ Indefinite(e) \in BOOLEAN
    BY <1>6, EnvelopeIs
  <2>2. Remains(e, n) \in Entries /\ Pending(Remains(e, n))
        /\ Grammar!Filled(Remains(e, n)) = Remains(e, n - 1) /\ Remains(e, n - 1) \in Entries
        /\ (~Indefinite(e) => ~Remains(e, n).indefinite)
    <3>1. CASE Indefinite(e)
      BY <2>1, <3>1, RemainsIs
    <3>2. CASE ~Indefinite(e)
      <4>1. n > 0 /\ n - 1 \in Nat
        BY <1>6, <3>2
      <4>. QED
        BY <2>1, <3>2, <4>1, RemainsIs
    <3>. QED
      BY <3>1, <3>2
  <2>3. x \in Seq(Entries) /\ x # <<>> /\ x[Len(x)] = Remains(e, n) /\ FillLast(x) = y
    BY <2>2, FillAppend
  <2>4. Takes(s.read, x) /\ Sound(s, late)
    BY <1>6, <2>1, <2>2, <2>3 DEF Takes, Midway
  <2>. HIDE DEF x
  <2>5. \/ Refused(m, late)
        \/ m = s /\ Seen(s) /\ IsMarker(tok) /\ tok.head \notin {"tag", "break"}
    <3>1. (~IsMarker(tok)) \in BOOLEAN
      BY DEF IsMarker
    <3>2. ~Indefinite(e) => x # <<>> /\ ~x[Len(x)].indefinite
      BY <2>2, <2>3
    <3>. QED
      BY <2>3, <2>4, <3>1, <3>2, InnerRefused DEF Refuse_Inner
  <2>. HIDE DEF m
  <2>6. CASE Refused(m, late)
    BY <1>1, <1>4, <2>6 DEF Served
  <2>7. CASE m = s /\ Seen(s) /\ IsMarker(tok) /\ tok.head \notin {"tag", "break"}
    <3>1. Advance(s) = p /\ Midway(p, late) /\ p.stack = s.stack
          /\ Taken(x, tok) \in Seq(Entries) /\ Stands(p.read, Taken(x, tok))
      BY <1>6, <2>3, <2>4, <2>7, PastMidway
    <3>2. Taken(x, tok) = y
      BY <2>3, <2>7 DEF Taken, Opens, IsMarker
    <3>. HIDE DEF y
    <3>3. ~Latched(s)
      BY <2>4 DEF Sound
    <3>4. Take_Marker(s, e) = IF present THEN Push_Optional(u, e, TRUE) ELSE Push_Optional(t, e, FALSE)
      BY <3>1, <3>3 DEF Take_Marker
    <3>. HIDE DEF p
    <3>5. Sound(p, late)
      BY <3>1 DEF Midway
    <3>6. IF ~Indefinite(e) /\ n # (IF present THEN 2 ELSE 1) THEN Refused(t, late) ELSE t = p
      <4>1. (~Indefinite(e) /\ n # (IF present THEN 2 ELSE 1)) \in BOOLEAN
        BY DEF Indefinite
      <4>. QED
        BY <3>5, <4>1, UnlessSplits DEF Starved, Codes
    <3>7. \A q, b : Refused(q, late) => Push_Optional(q, e, b) = q /\ Refuse_Inner(q, e, IsAny) = q
      BY Passes DEF Refused, Push_Optional, Refuse_Inner
    <3>. HIDE DEF t
    <3>8. CASE Refused(t, late)
      <4>1. u = t
        BY <3>7, <3>8
      <4>. QED
        BY <1>1, <2>7, <3>4, <3>7, <3>8, <4>1 DEF Served
    <3>9. CASE t = p /\ (Indefinite(e) \/ n = (IF present THEN 2 ELSE 1)) /\ ~present
      <4>1. Remains(e, n - 1) = Remains(e, 0)
        <5>1. Indefinite(e) \/ n - 1 = 0
          BY <2>1, <3>9
        <5>. QED
          BY <5>1 DEF Remains
      <4>2. Served(Push_Optional(p, e, FALSE), late)
        <5>1. Stands(p.read, Append(w, Remains(e, 0)))
          BY <3>1, <3>2, <4>1 DEF y
        <5>2. Owes(p.stack, w) /\ Midway(p, late)
          BY <1>6, <3>1
        <5>3. 0 \in {0, 1} /\ (0 = 1 => NextIsItem(p))
          OBVIOUS
        <5>. QED
          BY ONLY w \in Seq(Entries), <5>1, <5>2, <5>3, OptionalPushed
      <4>. QED
        BY <1>1, <2>7, <3>4, <3>9, <4>2
    <3>10. CASE t = p /\ (Indefinite(e) \/ n = (IF present THEN 2 ELSE 1)) /\ present
      <4>1. Remains(e, n - 1) = Remains(e, 1)
        <5>1. Indefinite(e) \/ n - 1 = 1
          BY <2>1, <3>10
        <5>. QED
          BY <5>1 DEF Remains
      <4>2. Pending(Remains(e, 1)) /\ Remains(e, 1) \in Entries
            /\ (~Indefinite(e) => ~Remains(e, 1).indefinite)
        BY RemainsIs
      <4>3. y \in Seq(Entries) /\ y # <<>> /\ y[Len(y)] = Remains(e, 1)
        <5>1. Append(w, Remains(e, 1))[Len(w) + 1] = Remains(e, 1)
              /\ Len(Append(w, Remains(e, 1))) = Len(w) + 1 /\ Append(w, Remains(e, 1)) \in Seq(Entries)
          BY <4>2, AppendProperties
        <5>. QED
          BY <4>1, <5>1, EmptySeq, LenProperties DEF y
      <4>4. Takes(p.read, y)
        BY <3>1, <3>2, <4>2, <4>3 DEF Takes
      <4>5. \/ Refused(u, late)
            \/ u = p /\ Seen(p) /\ Next_Token(p).head \notin {"tag", "break"}
        <5>1. (~IsAny(Next_Token(p))) \in BOOLEAN
          BY DEF IsAny
        <5>2. ~Indefinite(e) => y # <<>> /\ ~y[Len(y)].indefinite
          BY <4>2, <4>3
        <5>. QED
          BY <3>5, <3>10, <4>3, <4>4, <5>1, <5>2, InnerRefused DEF Refuse_Inner
      <4>. HIDE DEF u
      <4>6. CASE Refused(u, late)
        BY <1>1, <2>7, <3>4, <3>7, <3>10, <4>6 DEF Served
      <4>7. CASE u = p /\ Seen(p) /\ Next_Token(p).head \notin {"tag", "break"}
        <5>1. NextIsItem(p)
          BY <4>7 DEF NextIsItem, Seen
        <5>2. Served(Push_Optional(p, e, TRUE), late)
          <6>1. Stands(p.read, Append(w, Remains(e, 1)))
            BY <3>1, <3>2, <4>1 DEF y
          <6>2. Owes(p.stack, w) /\ Midway(p, late)
            BY <1>6, <3>1
          <6>. QED
            BY <2>1, <5>1, <6>1, <6>2, OptionalPushed
        <5>. QED
          BY <1>1, <2>7, <3>4, <3>10, <4>7, <5>2
      <4>. QED
        BY <4>5, <4>6, <4>7
    <3>. QED
      BY <3>6, <3>8, <3>9, <3>10
  <2>. QED
    BY <2>5, <2>6, <2>7
<1>. QED
  BY <1>2, <1>5, <1>6

\* The frame of a variant owes its map, inside its envelope when it has one.
LEMMA VariantFrame ==
  ASSUME NEW n \in Tokens, IsMap(n), NEW b \in BOOLEAN
  PROVE  LET f == [Frame("variant", n) EXCEPT !.envelope = b] IN
         /\ f \in Frames /\ FrameOK(f) /\ Charge(f) = 0 /\ ~Ready(f) /\ ~f.exhausted
         /\ f.kind = "variant" /\ Main(f) = Opened(n)
         /\ Env(f) = IF b THEN Grammar!Indefinite(FALSE) ELSE Grammar!Definite(0)
<1>. DEFINE z == Frame("variant", n)
            f == [z EXCEPT !.envelope = b]
<1>1. /\ z \in Frames /\ FrameOK(z) /\ Charge(z) = 0 /\ ~Ready(z) /\ ~z.exhausted
      /\ z.kind = "variant" /\ Main(z) = Opened(n)
  BY FrameOfToken
<1>. HIDE DEF z
<1>2. /\ f \in Frames /\ f.kind = z.kind /\ f.known = z.known /\ f.declared = z.declared
      /\ f.observed = z.observed /\ f.exhausted = z.exhausted /\ f.child = z.child
      /\ f.phase = z.phase /\ f.indefinite = z.indefinite /\ f.envelope = b
  BY <1>1 DEF Frames
<1>. HIDE DEF f
<1>3. FrameOK(f)
  <2>1. Idle(f) <=> Idle(z)
    BY <1>2 DEF Idle
  <2>. QED
    BY <1>1, <1>2, <2>1 DEF FrameOK
<1>4. Charge(f) = Charge(z) /\ (Ready(f) <=> Ready(z)) /\ Odd(f) = Odd(z)
  BY <1>2 DEF Charge, Ready, Odd
<1>5. Slots(f) = Slots(z)
  BY <1>2, <1>4 DEF Slots
<1>6. Main(f) = Main(z)
  BY <1>2, <1>4, <1>5 DEF Main
<1>7. Env(f) = IF b THEN Grammar!Indefinite(FALSE) ELSE Grammar!Definite(0)
  BY <1>1, <1>2 DEF Env
<1>. QED
  BY <1>1, <1>2, <1>3, <1>4, <1>6, <1>7 DEF f, z

\* Entering a variant serves, with its envelope and its name.
LEMMA BeginVariantServes ==
  ASSUME NEW r, NEW late, Live(r), Sound(r, late), r.raw = <<>>, NEW fits \in BOOLEAN
  PROVE  Served(Begin_Variant(r, fits), late)
<1>. DEFINE e == Next_Token(r)
            s == Advance(Prepare_Value(Envelope(r, {2})))
            m == Refuse_Inner(s, e, IsText)
            t == Scan_Text(m, fits)
            q == Refuse_Inner(Advance(t), e, IsMap)
<1>1. Begin_Variant(r, fits) = Take_Head(q, e)
  BY DEF Begin_Variant
<1>2. \/ Refused(s, late)
      \/ /\ Midway(s, late) /\ IsArray(e) /\ e \in Tokens
         /\ ~Indefinite(e) => e.count \in {2}
         /\ \E w \in Seq(Entries) :
              /\ Owes(s.stack, w)
              /\ Append(w, Opened(e)) \in Seq(Entries)
              /\ Stands(s.read, Append(w, Opened(e)))
  BY EnvelopeServes
<1>. HIDE DEF s, e
<1>3. ASSUME NEW x, Refused(x, late)
      PROVE  /\ Refuse_Inner(x, e, IsText) = x /\ Refuse_Inner(x, e, IsMap) = x
             /\ Scan_Text(x, fits) = x /\ Advance(x) = x /\ Take_Head(x, e) = x
  <2>1. Latched(x)
    BY <1>3 DEF Refused
  <2>. QED
    BY <2>1, Passes DEF Refuse_Inner, Take_Head
<1>4. CASE Refused(s, late)
  BY <1>1, <1>3, <1>4 DEF Served
<1>5. ASSUME Midway(s, late), IsArray(e), e \in Tokens, ~Indefinite(e) => e.count = 2,
             NEW w \in Seq(Entries), Owes(s.stack, w), Append(w, Opened(e)) \in Seq(Entries),
             Stands(s.read, Append(w, Opened(e)))
      PROVE  Served(Begin_Variant(r, fits), late)
  <2>. DEFINE x == Append(w, Remains(e, 2))
              y == Append(w, Remains(e, 1))
              z == Append(w, Remains(e, 0))
              p == Past(s)
              tok == Next_Token(s)
  <2>1. Opened(e) = Remains(e, 2) /\ Indefinite(e) \in BOOLEAN
    <3>1. Opened(e) = Remains(e, e.count) /\ Indefinite(e) \in BOOLEAN
      BY <1>5, EnvelopeIs
    <3>2. CASE Indefinite(e)
      BY <3>1, <3>2 DEF Remains
    <3>3. CASE ~Indefinite(e)
      BY <1>5, <3>1, <3>3
    <3>. QED
      BY <3>2, <3>3
  <2>2. /\ Remains(e, 2) \in Entries /\ Pending(Remains(e, 2))
        /\ Grammar!Filled(Remains(e, 2)) = Remains(e, 1) /\ Remains(e, 1) \in Entries
        /\ Pending(Remains(e, 1)) /\ Grammar!Filled(Remains(e, 1)) = Remains(e, 0)
        /\ Remains(e, 0) \in Entries
        /\ (~Indefinite(e) => ~Remains(e, 2).indefinite /\ ~Remains(e, 1).indefinite)
    <3>1. 2 - 1 = 1 /\ 1 - 1 = 0 /\ 2 > 0 /\ 1 > 0 /\ 2 \in Nat /\ 1 \in Nat /\ 0 \in Nat
      OBVIOUS
    <3>2. /\ Remains(e, 2) \in Entries /\ Pending(Remains(e, 2))
          /\ Grammar!Filled(Remains(e, 2)) = Remains(e, 2 - 1)
          /\ (~Indefinite(e) => ~Remains(e, 2).indefinite)
      BY RemainsIs
    <3>3. /\ Remains(e, 1) \in Entries /\ Pending(Remains(e, 1))
          /\ Grammar!Filled(Remains(e, 1)) = Remains(e, 1 - 1)
          /\ (~Indefinite(e) => ~Remains(e, 1).indefinite)
      BY RemainsIs
    <3>4. Remains(e, 0) \in Entries
      BY RemainsIs
    <3>. QED
      BY <3>1, <3>2, <3>3, <3>4
  <2>3. x \in Seq(Entries) /\ x # <<>> /\ x[Len(x)] = Remains(e, 2) /\ FillLast(x) = y
    BY <2>2, FillAppend
  <2>4. y \in Seq(Entries) /\ y # <<>> /\ y[Len(y)] = Remains(e, 1) /\ FillLast(y) = z
    BY <2>2, FillAppend
  <2>5. Takes(s.read, x) /\ Sound(s, late) /\ s.read \in Decoders
    BY <1>5, <2>1, <2>2, <2>3 DEF Takes, Midway, Sound, Bounded, Readers
  <2>. HIDE DEF x, y
  <2>6. \/ Refused(m, late)
        \/ m = s /\ Seen(s) /\ IsText(tok) /\ tok.head \notin {"tag", "break"}
    <3>1. (~IsText(tok)) \in BOOLEAN
      BY DEF IsText
    <3>2. ~Indefinite(e) => x # <<>> /\ ~x[Len(x)].indefinite
      BY <2>2, <2>3
    <3>. QED
      BY <2>3, <2>5, <3>1, <3>2, InnerRefused DEF Refuse_Inner
  <2>. HIDE DEF m
  <2>7. CASE Refused(m, late)
    BY <1>1, <1>3, <2>7 DEF Served
  <2>8. CASE m = s /\ Seen(s) /\ IsText(tok) /\ tok.head \notin {"tag", "break"}
    <3>1. Refused(t, late) \/ t = s
      <4>1. ~Grammar!Whole(s.read)
        BY <2>3, <2>5, TakesIsNotWhole
      <4>2. \/ Refused(Inspect_Surface_Head(s), late)
            \/ Inspect_Surface_Head(s) = s /\ Familiar(s)
        BY <2>5, <2>8, <4>1, SurfaceIs
      <4>. QED
        BY <2>5, <2>8, <4>2, TextScanned
    <3>. HIDE DEF t
    <3>2. CASE Refused(t, late)
      BY <1>1, <1>3, <3>2 DEF Served
    <3>3. CASE t = s
      <4>1. /\ Advance(s) = p /\ Midway(p, late) /\ p.stack = s.stack
            /\ Taken(x, tok) \in Seq(Entries) /\ Stands(p.read, Taken(x, tok))
        BY <1>5, <2>3, <2>5, <2>8, PastMidway
      <4>2. Taken(x, tok) = y
        BY <2>3, <2>8 DEF Taken, Opens, IsText
      <4>. HIDE DEF p
      <4>3. Takes(p.read, y) /\ Sound(p, late)
        BY <2>2, <2>4, <4>1, <4>2 DEF Takes, Midway
      <4>. DEFINE n == Next_Token(p)
      <4>4. \/ Refused(q, late)
            \/ q = p /\ Seen(p) /\ IsMap(n) /\ n.head \notin {"tag", "break"}
        <5>1. (~IsMap(n)) \in BOOLEAN
          BY DEF IsMap
        <5>2. ~Indefinite(e) => y # <<>> /\ ~y[Len(y)].indefinite
          BY <2>2, <2>4
        <5>3. q = Refuse_Inner(p, e, IsMap)
          BY <3>3, <4>1
        <5>. QED
          BY <2>4, <4>3, <5>1, <5>2, <5>3, InnerRefused DEF Refuse_Inner
      <4>. HIDE DEF q
      <4>5. CASE Refused(q, late)
        BY <1>1, <1>3, <4>5 DEF Served
      <4>6. CASE q = p /\ Seen(p) /\ IsMap(n) /\ n.head \notin {"tag", "break"}
        <5>. DEFINE f == [Frame("variant", n) EXCEPT !.envelope = Indefinite(e)]
        <5>1. /\ Advance(p) = Past(p) /\ Midway(Past(p), late) /\ Past(p).stack = p.stack
              /\ Taken(y, n) \in Seq(Entries) /\ Stands(Past(p).read, Taken(y, n))
          BY <2>4, <4>1, <4>3, <4>6, PastMidway
        <5>2. n \in Tokens
          BY <4>6 DEF Seen
        <5>3. /\ f \in Frames /\ FrameOK(f) /\ Charge(f) = 0 /\ ~Ready(f) /\ ~f.exhausted
              /\ f.kind = "variant" /\ Main(f) = Opened(n)
              /\ Env(f) = IF Indefinite(e) THEN Grammar!Indefinite(FALSE) ELSE Grammar!Definite(0)
          BY <2>1, <4>6, <5>2, VariantFrame
        <5>4. Take_Head(p, e) = Push(Past(p), f)
          BY <5>1 DEF Take_Head
        <5>. HIDE DEF f, n
        <5>5. Env(f) = Remains(e, 0)
          BY <5>3 DEF Remains
        <5>6. Taken(y, n) = Append(Append(w, Env(f)), Main(f))
          BY <2>4, <4>6, <5>3, <5>5 DEF Taken, Opens, IsMap
        <5>7. Owes(Past(p).stack, w)
          BY <1>5, <4>1, <5>1
        <5>8. Served(Push(Past(p), f), late)
          BY <5>1, <5>3, <5>6, <5>7, PushServes
        <5>. QED
          BY <1>1, <4>6, <5>4, <5>8
      <4>. QED
        BY <4>4, <4>5, <4>6
    <3>. QED
      BY <3>1, <3>2, <3>3
  <2>. QED
    BY <2>6, <2>7, <2>8
<1>6. (~Indefinite(e) => e.count \in {2}) => (~Indefinite(e) => e.count = 2)
  OBVIOUS
<1>. QED
  BY <1>2, <1>4, <1>5, <1>6


-----------------------------------------------------------------------------
(* The end of the document. *)

\* Finishing the document serves, or starves on a source not yet shown to its end.
LEMMA DocumentServes ==
  ASSUME NEW r, NEW late, Live(r), Sound(r, late), r.raw = <<>>
  PROVE  LET t == Finish_Document(r) IN Served(t, late) \/ (t.error = Starved /\ ~late)
<1>. DEFINE b == r.root # "complete" \/ r.stack # <<>>
            t == Unless(r, b, "Invalid_State")
            d == Finish_Document(r)
<1>1. r \in Readers /\ ~Latched(r) /\ ~r.failed /\ r.read \in Decoders
  BY DEF Sound, Bounded, Readers
<1>2. d = IF Latched(t) THEN t
          ELSE IF t.ahead = <<>> THEN [t EXCEPT !.error = Starved]
          ELSE IF Next_Token(t).head # "end" THEN Fail(t, "Syntax_Error")
          ELSE [t EXCEPT !.complete = TRUE]
  <2>1. Require_Ready(r) = r
    BY <1>1 DEF Require_Ready, Unless
  <2>. QED
    BY <2>1 DEF Finish_Document
<1>3. IF b THEN Refused(t, late) ELSE t = r
  BY UnlessSplits DEF Codes, Starved
<1>. HIDE DEF d, t
<1>4. CASE b
  BY <1>2, <1>3, <1>4 DEF Refused, Served, d
<1>5. CASE ~b /\ r.ahead = <<>>
  <2>1. d = [r EXCEPT !.error = Starved]
    BY <1>1, <1>2, <1>3, <1>5
  <2>2. d.error = Starved
    BY <1>1, <2>1 DEF Readers
  <2>3. ~late
    BY <1>1, <1>5, ReaderIs DEF Sound, Ended
  <2>. QED
    BY <2>2, <2>3 DEF d
<1>6. CASE ~b /\ r.ahead # <<>>
  <2>1. /\ Next_Token(r) \in Tokens /\ Next_Token(r) = r.ahead[1]
        /\ Len(r.ahead) \in Nat /\ Len(r.ahead) > 0 /\ r.ahead \in Seq(Tokens)
    BY <1>1, <1>6, NextIs, ReaderIs
  <2>2. r.root = "complete" /\ r.stack = <<>>
    BY <1>6
  <2>3. CASE Next_Token(r).head # "end"
    <3>1. d = Fail(r, "Syntax_Error")
      BY <1>1, <1>2, <1>3, <1>6, <2>3
    <3>2. PICK o \in Seq(Entries) : Owes(r.stack, o) /\ Stands(r.read, o)
      BY <2>2 DEF Live, Read_Right
    <3>3. o = <<>>
      BY <1>1, <2>2, <3>2, OwesIs, ReaderIs
    <3>4. Grammar!ReadToken(r.read, Structure(Next_Token(r))).bad
      BY <1>1, <2>1, <3>2, <3>3, NothingOwed
    <3>5. Refused(d, late)
      BY <3>1, <3>4, FailIsRefused DEF Malformed, Codes, Starved
    <3>. QED
      BY <3>5 DEF Served, d
  <2>4. CASE Next_Token(r).head = "end"
    <3>. DEFINE u == [r EXCEPT !.complete = TRUE]
                e == <<EndToken>>
    <3>1. d = u
      BY <1>1, <1>2, <1>3, <1>6, <2>4
    <3>2. /\ u \in Readers /\ u.root = r.root /\ u.failed = r.failed /\ u.complete = TRUE
          /\ u.error = r.error /\ u.scopes = r.scopes /\ u.values = r.values
          /\ u.input = r.input /\ u.raw = r.raw /\ u.ahead = r.ahead /\ u.read = r.read
          /\ u.stack = r.stack
      BY <1>1 DEF Readers
    <3>. HIDE DEF u
    <3>3. r.ahead = e
      <4>1. Len(r.ahead) = 1
        <5>1. 1 \in 1..Len(r.ahead) /\ (1 < Len(r.ahead) => r.ahead[1].head # "end")
          BY <2>1 DEF Sound, Bounded
        <5>2. r.ahead[1].head = "end"
          BY <2>1, <2>4
        <5>3. ~(1 < Len(r.ahead))
          BY <5>1, <5>2
        <5>4. \A n \in Nat : n > 0 /\ ~(1 < n) => n = 1
          OBVIOUS
        <5>5. Len(r.ahead) \in Nat /\ Len(r.ahead) > 0
          BY <2>1
        <5>. QED
          BY <5>3, <5>4, <5>5
      <4>2. r.ahead[1] = EndToken
        <5>1. r.ahead[1] \in Tokens /\ r.ahead[1].head = "end"
          BY <2>1, <2>4
        <5>2. r.ahead[1] \in [head : Plain, count : {0}, name : {NoName}]
          BY <5>1 DEF Tokens
        <5>. QED
          BY <5>1, <5>2 DEF EndToken
      <4>3. \A x \in Tokens : <<x>> \in Seq(Tokens) /\ Len(<<x>>) = 1 /\ <<x>>[1] = x
        OBVIOUS
      <4>4. EndToken \in Tokens
        BY <2>1, <4>2
      <4>5. e \in Seq(Tokens) /\ Len(e) = 1 /\ e[1] = EndToken
        BY <4>3, <4>4
      <4>. HIDE DEF e
      <4>. QED
        BY <2>1, <4>1, <4>2, <4>5, SeqEqual
    <3>4. Sound(u, late)
      BY <1>1, <3>2 DEF Sound, Bounded, Latched, Ended
    <3>5. Charged_As(u) /\ Rooted(u) /\ Foreseen(u)
      BY <2>2, <3>2, <3>3 DEF Live, Charged_As, Rooted, Foreseen
    <3>6. \E o \in Seq(Entries) : Read_Right(u, o)
      BY <3>2 DEF Live, Read_Right
    <3>7. Live(u)
      BY <3>2, <3>4, <3>5, <3>6 DEF Live, Sound
    <3>. QED
      BY <3>1, <3>4, <3>7 DEF Served, d
  <2>. QED
    BY <2>3, <2>4
<1>. QED
  BY <1>4, <1>5, <1>6

-----------------------------------------------------------------------------
(* A value is skipped. *)

\* Filling the innermost entry touches no other.
LEMMA FillLastIs ==
  ASSUME NEW o \in Seq(Entries), o # <<>>, Grammar!Filled(o[Len(o)]) \in Entries
  PROVE  /\ FillLast(o) \in Seq(Entries) /\ Len(FillLast(o)) = Len(o)
         /\ FillLast(o)[Len(o)] = Grammar!Filled(o[Len(o)])
         /\ \A k \in 1..Len(o) : k # Len(o) => FillLast(o)[k] = o[k]
<1>. DEFINE e == Grammar!Filled(o[Len(o)])
<1>1. Len(o) \in Nat /\ Len(o) > 0 /\ Len(o) \in 1..Len(o)
  BY LastIs
<1>2. FillLast(o) = [o EXCEPT ![Len(o)] = e]
  BY DEF FillLast
<1>. HIDE DEF e
<1>3. /\ FillLast(o) \in Seq(Entries) /\ Len(FillLast(o)) = Len(o)
      /\ \A k \in 1..Len(o) : FillLast(o)[k] = IF k = Len(o) THEN e ELSE o[k]
  BY <1>1, <1>2, ExceptSeq DEF e
<1>. QED
  BY <1>1, <1>3 DEF e

\* A frame with a value under way is not exhausted, unless it is an optional.
LEMMA BusyIsNotDone ==
  ASSUME NEW f, FrameOK(f), Busy(f)
  PROVE  ~(f.kind # "optional" /\ f.exhausted)
BY DEF FrameOK, Busy, Idle

\* Beginning to skip a value serves.
LEMMA SkipValueServes ==
  ASSUME NEW r, NEW late, Live(r), Sound(r, late), r.raw = <<>>
  PROVE  Served(Skip_Value(r), late)
<1>. DEFINE t == Prepare_Value(r)
            q == <<RawItems(1)>>
            u == [t EXCEPT !.raw = q]
<1>1. Skip_Value(r) = IF Latched(t) THEN t ELSE u
  BY DEF Skip_Value
<1>2. CASE Refused(t, late)
  BY <1>1, <1>2 DEF Refused, Served
<1>3. CASE t = Begun(r) /\ Expects(r) /\ r.values + 1 <= DecodeLimits.values
  <2>1. PICK o \in Seq(Entries) : Offers(r, o)
    BY <1>3, LiveOffers
  <2>. DEFINE w == FillLast(o)
  <2>2. /\ Midway(t, late) /\ w \in Seq(Entries) /\ Owes(t.stack, w) /\ InProgress(t)
        /\ t.read = r.read /\ t.ahead = r.ahead
    BY <1>3, <2>1, BegunIs
  <2>3. r \in Readers /\ t \in Readers /\ Sound(t, late) /\ ~Latched(t)
    BY <2>2 DEF Midway, Sound, Bounded
  <2>4. t.stack # <<>> => r.stack # <<>>
    BY <1>3, <2>3 DEF Begun, Readers
  <2>. HIDE DEF t, w
  <2>5. /\ q \in Seq(Skips) /\ Len(q) = 1 /\ q # <<>> /\ q[1] = RawItems(1)
        /\ \A j \in 1..Len(q) : ~q[j].odd
    <3>1. RawItems(1) \in Skips /\ ~RawItems(1).odd
      BY DEF RawItems, Skips
    <3>2. \A x \in Skips : <<x>> \in Seq(Skips) /\ Len(<<x>>) = 1 /\ <<x>> # <<>> /\ <<x>>[1] = x
      OBVIOUS
    <3>3. q \in Seq(Skips) /\ Len(q) = 1 /\ q # <<>> /\ q[1] = RawItems(1)
      BY <3>1, <3>2
    <3>. HIDE DEF q
    <3>4. \A j \in 1..Len(q) : q[j] = RawItems(1)
      BY <3>3
    <3>. QED
      BY <3>1, <3>3, <3>4
  <2>. HIDE DEF q
  <2>6. /\ u \in Readers /\ u.root = t.root /\ u.failed = t.failed /\ u.complete = t.complete
        /\ u.error = t.error /\ u.scopes = t.scopes /\ u.values = t.values
        /\ u.input = t.input /\ u.raw = q /\ u.ahead = t.ahead /\ u.read = t.read
        /\ u.stack = t.stack
    BY ONLY <2>3, <2>5 DEF Readers
  <2>. HIDE DEF u
  <2>0. Len(u.raw) = 1 /\ 1 \in Nat
    BY <2>5, <2>6
  <2>7. Sound(u, late)
    BY <2>3, <2>6 DEF Sound, Bounded, Latched, Ended
  <2>8. Waiting(u)
    BY <2>5, <2>6 DEF Waiting, RawItems
  <2>9. \A i \in 1..Len(u.stack) : FrameOK(u.stack[i])
    BY <2>2, <2>6 DEF Midway
  <2>10. u.stack # <<>> => Busy(Top(u)) /\ FrameOK(Top(u))
    <3>1. u.stack # <<>> => Busy(Top(u))
      BY <2>2, <2>6 DEF InProgress, Busy, Top
    <3>. QED
      BY <2>6, <2>9, <3>1, TopIs
  <2>11. Charged_As(u) /\ Rooted(u)
    BY <2>2, <2>6 DEF Midway, Charged_As, Rooted
  <2>12. RawOK(u)
    <3>1. Len(u.scopes) + Len(u.raw) <= DecodeLimits.nesting + 1
      <4>1. Len(u.scopes) <= DecodeLimits.nesting /\ Len(u.scopes) \in Nat
        BY <2>6, <2>7, ReaderIs DEF Sound, Bounded
      <4>. QED
        BY <2>0, <4>1, DecodeLimitsAssumption
    <3>. QED
      BY <2>5, <2>6, <2>10, <3>1 DEF RawOK
  <2>13. Foreseen(u)
    <3>1. u.stack # <<>> => NextIsItem(u)
      BY <2>1, <2>2, <2>4, <2>6 DEF Offers, NextIsItem, Next_Token
    <3>2. u.stack # <<>> => ~(Top(u).kind # "optional" /\ Top(u).exhausted)
      BY <2>10, BusyIsNotDone
    <3>. QED
      BY <3>1, <3>2 DEF Foreseen
  <2>14. OwesRaw(u, o)
    <3>. DEFINE n == Len(t.stack)
    <3>1. n \in Nat /\ Len(w) = 2 * n
          /\ \A i \in 1..n : w[2 * i - 1] = Env(t.stack[i]) /\ w[2 * i] = Main(t.stack[i])
      BY <2>2, <2>3, ReaderIs DEF Owes
    <3>2. CASE o = <<>>
      <4>1. w = <<>>
        BY <3>2 DEF w, FillLast
      <4>2. n = 0
        BY <3>1, <4>1
      <4>3. Len(o) = 0
        BY <3>2
      <4>. HIDE DEF n
      <4>4. Len(o) = 2 * n + Len(u.raw) - 1
        BY <2>0, <4>2, <4>3
      <4>5. (\A j \in 2..Len(u.raw) : FALSE) /\ (\A i \in 1..n : FALSE)
        BY <2>0, <4>2
      <4>. QED
        BY <2>6, <4>2, <4>4, <4>5 DEF OwesRaw, n
    <3>3. CASE o # <<>>
      <4>1. Pending(o[Len(o)]) /\ Len(o) \in Nat /\ Len(o) > 0 /\ o[Len(o)] \in Entries
        BY <2>1, <3>3, LastIs DEF Offers, Takes
      <4>2. /\ Len(w) = Len(o) /\ w[Len(o)] = Grammar!Filled(o[Len(o)])
            /\ \A k \in 1..Len(o) : k # Len(o) => w[k] = o[k]
        BY <3>3, <4>1, FilledIs, FillLastIs DEF w
      <4>3. ASSUME NEW i \in 1..n
            PROVE  /\ o[2 * i - 1] = Env(t.stack[i])
                   /\ i < n => o[2 * i] = Main(t.stack[i])
        <5>1. 2 * i - 1 \in 1..Len(o) /\ 2 * i - 1 # Len(o)
          BY <3>1, <4>2
        <5>2. i < n => 2 * i \in 1..Len(o) /\ 2 * i # Len(o)
          BY <3>1, <4>2
        <5>. QED
          BY <3>1, <4>2, <5>1, <5>2
      <4>4. n \in 1..n /\ Len(o) = 2 * n
        BY <3>1, <4>1, <4>2
      <4>5. Pending(o[2 * n]) /\ Grammar!Filled(o[2 * n]) = Main(t.stack[n])
        BY <3>1, <4>1, <4>2, <4>4
      <4>. HIDE DEF n
      <4>6. Len(o) = 2 * n + Len(u.raw) - 1
        BY <2>0, <3>1, <4>4
      <4>7. \A j \in 2..Len(u.raw) : FALSE
        BY <2>0
      <4>. QED
        BY <2>6, <2>8, <4>3, <4>5, <4>6, <4>7 DEF OwesRaw, n
    <3>. QED
      BY <3>2, <3>3
  <2>15. Read_Right(u, o)
    BY <2>1, <2>2, <2>5, <2>6, <2>8, <2>14 DEF Read_Right, Offers
  <2>16. Live(u)
    BY <2>7, <2>9, <2>11, <2>12, <2>13, <2>15 DEF Live, Sound
  <2>. QED
    BY <1>1, <2>3, <2>7, <2>16 DEF Served
<1>. HIDE DEF t
<1>. QED
  BY <1>2, <1>3, Prepared DEF t

\* Between two heads of a skipped value.
Skipping(t, late) ==
  /\ Sound(t, late)
  /\ t.raw # <<>> /\ RawOK(t)
  /\ t.root = "progress"
  /\ ~t.complete
  /\ \A i \in 1..Len(t.stack) : FrameOK(t.stack[i])
  /\ Charged_As(t)

\* A live reader with skipped entries is skipping.
LEMMA LiveSkips ==
  ASSUME NEW r, NEW late, Live(r), Sound(r, late), r.raw # <<>>
  PROVE  Skipping(r, late)
<1>1. r.root = "progress" /\ ~r.complete
  BY DEF Live, Rooted
<1>. QED
  BY <1>1 DEF Live, Skipping

\* A skip whose decoder stands where its entries say is a live reader.
LEMMA SkippingServes ==
  ASSUME NEW t, NEW late, Skipping(t, late), ~Waiting(t),
         NEW w \in Seq(Entries), OwesRaw(t, w), Stands(t.read, w)
  PROVE  Served(t, late)
<1>1. t \in Readers
  BY DEF Skipping, Sound, Bounded
<1>2. t.stack # <<>> => FrameOK(Top(t)) /\ Busy(Top(t))
  BY <1>1, TopIs DEF Skipping, RawOK
<1>3. Foreseen(t)
  <2>1. t.stack # <<>> => ~(Top(t).kind # "optional" /\ Top(t).exhausted)
    BY <1>2, BusyIsNotDone
  <2>. QED
    BY <2>1 DEF Foreseen, Skipping
<1>4. Read_Right(t, w) /\ Rooted(t)
  BY DEF Read_Right, Skipping, Rooted
<1>. QED
  BY <1>3, <1>4 DEF Served, Live, Skipping, Sound

\* The skipped items are refused by their depth, or a step inside is made.
LEMMA DepthChecked ==
  ASSUME NEW t, NEW late, Skipping(t, late)
  PROVE  \/ Refused(Check_Raw_Depth(t), late)
         \/ /\ Check_Raw_Depth(t) = t
            /\ Len(t.scopes) + Len(t.raw) <= DecodeLimits.nesting
<1>. DEFINE b == Len(t.raw) > DecodeLimits.nesting - Len(t.scopes)
<1>1. t \in Readers /\ Sound(t, late)
  BY DEF Skipping, Sound, Bounded
<1>2. Len(t.raw) \in Nat /\ Len(t.scopes) \in Nat /\ DecodeLimits.nesting \in Nat
  BY <1>1, ReaderIs, DecodeLimitsAssumption
<1>3. b \in BOOLEAN /\ (~b => Len(t.scopes) + Len(t.raw) <= DecodeLimits.nesting)
  <2>1. \A x, y, z \in Nat : ~(x > z - y) => y + x <= z
    OBVIOUS
  <2>2. b \in BOOLEAN
    OBVIOUS
  <2>. QED
    BY <1>2, <2>1, <2>2
<1>4. Check_Raw_Depth(t) = Unless(t, b, "Depth_Exceeded")
  BY DEF Check_Raw_Depth
<1>. HIDE DEF b
<1>5. IF b THEN Refused(Unless(t, b, "Depth_Exceeded"), late)
      ELSE Unless(t, b, "Depth_Exceeded") = t
  BY <1>1, <1>3, UnlessSplits DEF Codes, Starved
<1>. QED
  BY <1>3, <1>4, <1>5

\* Entering a container that is skipped serves, within the nesting limit.
LEMMA EnterRawServes ==
  ASSUME NEW t, NEW late, Skipping(t, late), ~Waiting(t),
         NEW w \in Seq(Entries), OwesRaw(t, w), NEW e \in Skips, ~e.odd,
         Stands(t.read, Append(w, RawEntry(e)))
  PROVE  Served(Enter_Raw(t, e), late)
<1>. DEFINE k == Check_Raw_Depth(t)
            q == Append(t.raw, e)
            u == [t EXCEPT !.raw = q]
            v == Append(w, RawEntry(e))
            n == Len(t.stack)
            m == Len(t.raw)
<1>1. /\ t \in Readers /\ ~Latched(t) /\ t.raw \in Seq(Skips) /\ m \in Nat /\ m > 0
      /\ n \in Nat /\ Len(t.scopes) \in Nat
  BY ReaderIs DEF Skipping, Sound, Bounded
<1>2. Enter_Raw(t, e) = IF Latched(k) THEN k ELSE [k EXCEPT !.raw = Append(k.raw, e)]
  BY DEF Enter_Raw
<1>3. CASE Refused(k, late)
  BY <1>2, <1>3 DEF Refused, Served
<1>4. CASE k = t /\ Len(t.scopes) + m <= DecodeLimits.nesting
  <2>1. Enter_Raw(t, e) = u
    BY <1>1, <1>2, <1>4
  <2>2. /\ q \in Seq(Skips) /\ Len(q) = m + 1 /\ q # <<>> /\ q[1] = t.raw[1] /\ q[m + 1] = e
        /\ \A j \in 1..m : q[j] = t.raw[j]
    <3>1. q \in Seq(Skips) /\ Len(q) = m + 1 /\ (\A j \in 1..m : q[j] = t.raw[j]) /\ q[m + 1] = e
      BY <1>1, AppendProperties
    <3>. HIDE DEF q
    <3>2. 1 \in 1..m
      BY <1>1
    <3>3. q # <<>>
      BY <1>1, <3>1, EmptySeq
    <3>. QED
      BY <3>1, <3>2, <3>3
  <2>. HIDE DEF q
  <2>3. /\ u \in Readers /\ u.root = t.root /\ u.failed = t.failed /\ u.complete = t.complete
        /\ u.error = t.error /\ u.scopes = t.scopes /\ u.values = t.values
        /\ u.input = t.input /\ u.raw = q /\ u.ahead = t.ahead /\ u.read = t.read
        /\ u.stack = t.stack
    BY ONLY <1>1, <2>2 DEF Readers
  <2>. HIDE DEF u
  <2>4. Sound(u, late)
    BY <2>3 DEF Skipping, Sound, Bounded, Latched, Ended
  <2>5. ~Waiting(u)
    BY <2>2, <2>3 DEF Waiting
  <2>6. \A j \in 1..(m + 1) : q[j].odd => q[j].isMap
    <3>1. \A j \in 1..m : t.raw[j].odd => t.raw[j].isMap
      BY DEF Skipping, RawOK
    <3>2. \A j \in 1..(m + 1) : j \in 1..m \/ j = m + 1
      BY <1>1
    <3>. QED
      BY <2>2, <3>1, <3>2
  <2>7. RawOK(u)
    <3>1. Len(u.scopes) + Len(u.raw) <= DecodeLimits.nesting + 1
      <4>1. Len(u.raw) = m + 1 /\ Len(u.scopes) = Len(t.scopes)
        BY <2>2, <2>3
      <4>2. \A x, y, z \in Nat : x + y <= z => x + (y + 1) <= z + 1
        OBVIOUS
      <4>3. DecodeLimits.nesting \in Nat
        BY DecodeLimitsAssumption
      <4>. QED
        BY <1>1, <1>4, <4>1, <4>2, <4>3
    <3>2. u.raw[1] \in {RawItems(0), RawItems(1)}
      BY <2>2, <2>3 DEF Skipping, RawOK
    <3>3. u.stack # <<>> => Busy(Top(u))
      BY <2>3 DEF Skipping, RawOK, Top
    <3>. QED
      BY <2>2, <2>3, <2>5, <2>6, <3>1, <3>2, <3>3 DEF RawOK
  <2>8. Skipping(u, late)
    BY <2>2, <2>3, <2>4, <2>7 DEF Skipping, Charged_As
  <2>9. RawEntry(e) \in Entries
    BY DEF RawEntry, Run_Of, Grammar!Definite, Skips, Entries
  <2>10. /\ v \in Seq(Entries) /\ Len(v) = Len(w) + 1 /\ (\A j \in 1..Len(w) : v[j] = w[j])
         /\ v[Len(w) + 1] = RawEntry(e)
    BY <2>9, AppendProperties
  <2>. HIDE DEF v, n, m
  <2>11. OwesRaw(u, v)
    <3>1. /\ Len(w) = 2 * n + m - 1
          /\ \A i \in 1..n : w[2 * i - 1] = Env(t.stack[i]) /\ w[2 * i] = Main(t.stack[i])
          /\ \A j \in 2..m : w[2 * n + j - 1] = RawEntry(t.raw[j])
      BY DEF OwesRaw, n, m
    <3>2. Len(v) = 2 * n + Len(u.raw) - 1
      <4>1. Len(u.raw) = m + 1
        BY <2>2, <2>3
      <4>. QED
        BY <1>1, <2>10, <3>1, <4>1
    <3>3. ASSUME NEW i \in 1..n
          PROVE  v[2 * i - 1] = Env(u.stack[i]) /\ v[2 * i] = Main(u.stack[i])
      <4>1. 2 * i - 1 \in 1..Len(w) /\ 2 * i \in 1..Len(w)
        BY <1>1, <3>1
      <4>. QED
        BY <2>3, <2>10, <3>1, <4>1
    <3>4. ASSUME NEW j \in 2..(m + 1)
          PROVE  v[2 * n + j - 1] = RawEntry(u.raw[j])
      <4>1. CASE j \in 2..m
        <5>1. 2 * n + j - 1 \in 1..Len(w) /\ j \in 1..m
          BY <1>1, <3>1, <4>1
        <5>. QED
          BY <2>2, <2>3, <2>10, <3>1, <4>1, <5>1
      <4>2. CASE j = m + 1
        <5>1. 2 * n + j - 1 = Len(w) + 1
          BY <1>1, <3>1, <4>2
        <5>. QED
          BY <2>2, <2>3, <2>10, <4>2, <5>1
      <4>. QED
        BY <1>1, <4>1, <4>2
    <3>5. Len(u.stack) = n /\ Len(u.raw) = m + 1
      BY <2>2, <2>3 DEF n
    <3>. QED
      BY <2>5, <3>2, <3>3, <3>4, <3>5 DEF OwesRaw
  <2>12. Stands(u.read, v)
    BY <2>3 DEF v
  <2>. QED
    BY <2>1, <2>5, <2>8, <2>10, <2>11, <2>12, SkippingServes
<1>. HIDE DEF k
<1>. QED
  BY <1>3, <1>4, DepthChecked DEF k

\* The entries a skip enters owe what the heads it consumed open.
LEMMA EntriesInside ==
  /\ \A n \in Nat : /\ RawItems(n) \in Skips /\ ~RawItems(n).odd
                    /\ RawEntry(RawItems(n)) = Grammar!Definite(n)
  /\ \A b \in BOOLEAN : /\ RawRun(b) \in Skips /\ ~RawRun(b).odd
                        /\ RawEntry(RawRun(b)) = Grammar!Indefinite(b)
BY DEF RawItems, RawRun, RawEntry, Run_Of, Skips, Grammar!Definite, Grammar!Indefinite

\* The head of an item inside the skipped value, and what it says is inside.
LEMMA SkipHeadServes ==
  ASSUME NEW s, NEW late, Skipping(s, late), ~Waiting(s),
         NEW o \in Seq(Entries), Takes(s.read, o),
         FillLast(o) \in Seq(Entries), OwesRaw(s, FillLast(o)),
         NextIsBreak(s) => Grammar!ReadBreak(s.read) = Grammar!Malformed
  PROVE  Served(Skip_Head(s), late)
<1>. DEFINE t == Advance(s)
            h == Next_Token(s)
            v == FillLast(o)
            d == Skip_Head(s)
<1>1. Sound(s, late) /\ s \in Readers /\ s.read \in Decoders
  BY DEF Skipping, Sound, Bounded, Readers
<1>2. d = Enter_Skipped(t, h)
  BY DEF Skip_Head
<1>3. Refused(t, late) \/ (Seen(s) /\ t = Past(s))
  BY <1>1, TakesIsNotWhole, Advanced
<1>4. CASE Refused(t, late)
  <2>1. Latched(t)
    BY <1>4 DEF Refused
  <2>2. Enter_Skipped(t, h) = t
    BY <2>1 DEF Enter_Skipped
  <2>. QED
    BY <1>2, <1>4, <2>2 DEF Served
<1>5. CASE Seen(s) /\ t = Past(s) /\ h.head = "break"
  <2>1. Grammar!ReadBreak(s.read) = Grammar!Malformed
    BY <1>5 DEF NextIsBreak, Seen
  <2>2. Grammar!ReadToken(s.read, Structure(h)) = Grammar!Malformed
    BY <1>5, <2>1, BreakIsBreak
  <2>3. Grammar!Malformed \in Decoders /\ Grammar!Malformed.bad
    <3>1. <<>> \in Seq(Entries)
      OBVIOUS
    <3>. QED
      BY <3>1 DEF Grammar!Malformed, Decoders
  <2>4. Sound(t, late)
    BY <1>1, <1>5, <2>2, <2>3, PastIs
  <2>5. t.read.bad
    BY <1>1, <1>5, <2>2, <2>3 DEF Past, Readers
  <2>. HIDE DEF t, h
  <2>6. Enter_Skipped(t, h) = Fail(t, "Syntax_Error")
    <3>1. ~Latched(t)
      BY <2>4 DEF Sound
    <3>2. h.head \in DOMAIN Unskippable /\ Unskippable[h.head] = "Syntax_Error"
      BY <1>5 DEF Unskippable
    <3>. QED
      BY <3>1, <3>2 DEF Enter_Skipped
  <2>7. Refused(d, late)
    BY <1>2, <2>4, <2>5, <2>6, FailIsRefused DEF Malformed, Codes, Starved
  <2>. QED
    BY <2>7 DEF Served
<1>6. CASE Seen(s) /\ t = Past(s) /\ h.head # "break"
  <2>1. h \in Tokens /\ h.head \in Plain \cup {"text", "array", "map"}
    BY <1>6 DEF Seen, Tokens
  <2>2. Sound(t, late) /\ Taken(o, h) \in Seq(Entries) /\ Stands(t.read, Taken(o, h))
    BY <1>1, <1>6, PastTakes
  <2>3. /\ t.stack = s.stack /\ t.root = s.root /\ t.raw = s.raw
        /\ t.scopes = s.scopes /\ t.complete = s.complete
    BY <1>1, <1>6, PastKeeps
  <2>. HIDE DEF t, h, v, d
  <2>4. Skipping(t, late) /\ ~Waiting(t) /\ ~Latched(t)
    <3>1. RawOK(t) /\ ~Waiting(t)
      BY <2>3 DEF Skipping, RawOK, Waiting, Top
    <3>. QED
      BY <2>2, <2>3, <3>1 DEF Skipping, Charged_As, Sound
  <2>5. OwesRaw(t, v) /\ v \in Seq(Entries)
    BY <2>3 DEF OwesRaw, Waiting, v
  <2>6. ~Opens(h) => Served(t, late)
    <3>1. ~Opens(h) => Stands(t.read, v)
      BY <2>2 DEF Taken, v
    <3>. QED
      BY <2>4, <2>5, <3>1, SkippingServes
  <2>7. ASSUME NEW e \in Skips, ~e.odd, Opens(h), RawEntry(e) = Opened(h)
        PROVE  Served(Enter_Raw(t, e), late)
    <3>1. Stands(t.read, Append(v, RawEntry(e)))
      BY <2>2, <2>7 DEF Taken, v
    <3>. QED
      BY <2>4, <2>5, <2>7, <3>1, EnterRawServes
  <2>8. \A c \in {"Invalid_Text", "Capacity_Exceeded"} : Refused(Fail(t, c), late)
    BY <2>2, FailIsRefused DEF Codes, Starved
  <2>9. Refused(Check_Raw_Depth(t), late) \/ Check_Raw_Depth(t) = t
    BY <2>4, DepthChecked
  <2>10. CASE h.head \in {"bad_text", "long_text"}
    <3>1. h.head \in DOMAIN Unskippable /\ Unskippable[h.head] \in {"Invalid_Text", "Capacity_Exceeded"}
      BY <2>10 DEF Unskippable
    <3>2. d = Fail(t, Unskippable[h.head])
      BY <1>2, <2>4, <3>1 DEF Enter_Skipped
    <3>. QED
      BY <2>8, <3>1, <3>2 DEF Served, d
  <2>11. h.head \notin {"break", "bad_text", "long_text"} => h.head \notin DOMAIN Unskippable
    BY DEF Unskippable
  <2>12. CASE h.head = "chunked"
    <3>1. d = Check_Raw_Depth(t)
      BY <1>2, <2>4, <2>11, <2>12 DEF Enter_Skipped
    <3>2. ~Opens(h)
      BY <2>12 DEF Opens
    <3>. QED
      BY <2>6, <2>9, <3>1, <3>2 DEF Served, d
  <2>13. CASE h.head = "tag"
    <3>1. d = Enter_Raw(t, RawItems(1))
      BY <1>2, <2>4, <2>11, <2>13 DEF Enter_Skipped
    <3>2. Opens(h) /\ Opened(h) = Grammar!Definite(1)
      BY <2>13 DEF Opens, Opened, Indefinite
    <3>. QED
      BY <2>7, <3>1, <3>2, EntriesInside DEF d
  <2>14. CASE Indefinite(h)
    <3>1. d = Enter_Raw(t, RawRun(IsMap(h)))
      BY <1>2, <2>4, <2>11, <2>14 DEF Enter_Skipped, Indefinite
    <3>2. Opens(h) /\ Opened(h) = Grammar!Indefinite(IsMap(h))
      BY <2>14 DEF Opens, Opened, Indefinite
    <3>3. IsMap(h) \in BOOLEAN
      BY DEF IsMap
    <3>. QED
      BY <2>7, <3>1, <3>2, <3>3, EntriesInside DEF d
  <2>15. CASE h.head \in {"array", "map"}
    <3>. DEFINE k == Check_Raw_Depth(t)
                b == h.count > DecodeLimits.items
                c == Unless(k, b, "Capacity_Exceeded")
                n == IF IsMap(h) THEN 2 * h.count ELSE h.count
    <3>1. d = Enter_Raw(c, RawItems(n))
      BY <1>2, <2>4, <2>11, <2>15 DEF Enter_Skipped, Indefinite
    <3>2. Opens(h) /\ Opened(h) = Grammar!Definite(n)
      BY <2>15 DEF Opens, Opened, Indefinite
    <3>3. n \in Nat
      <4>1. h.count \in Nat
        BY <2>1, TokenIs
      <4>. QED
        BY <4>1
    <3>4. Refused(c, late) \/ c = t
      <4>1. CASE Refused(k, late)
        BY <4>1, Passes DEF Refused
      <4>2. CASE k = t
        <5>1. b \in BOOLEAN
          OBVIOUS
        <5>. HIDE DEF b
        <5>2. IF b THEN Refused(Unless(t, b, "Capacity_Exceeded"), late)
              ELSE Unless(t, b, "Capacity_Exceeded") = t
          BY <2>2, <5>1, UnlessSplits DEF Codes, Starved
        <5>. QED
          BY <4>2, <5>2
      <4>. HIDE DEF c, k
      <4>. QED
        BY <2>9, <4>1, <4>2 DEF k
    <3>. HIDE DEF c, n
    <3>5. CASE Refused(c, late)
      <4>1. Latched(c)
        BY <3>5 DEF Refused
      <4>2. Enter_Raw(c, RawItems(n)) = c
        BY <4>1 DEF Enter_Raw, Check_Raw_Depth, Unless
      <4>. QED
        BY <3>1, <3>5, <4>2 DEF Served, d
    <3>6. CASE c = t
      BY <2>7, <3>1, <3>2, <3>3, <3>6, EntriesInside DEF d
    <3>. QED
      BY <3>4, <3>5, <3>6
  <2>16. CASE h.head \notin {"bad_text", "long_text", "chunked", "tag", "array", "map"} /\ ~Indefinite(h)
    <3>1. d = t
      BY <1>2, <1>6, <2>4, <2>11, <2>16 DEF Enter_Skipped
    <3>2. ~Opens(h)
      BY <2>16 DEF Opens, Indefinite
    <3>. QED
      BY <2>6, <3>1, <3>2 DEF d
  <2>. QED
    BY <2>10, <2>12, <2>13, <2>14, <2>15, <2>16 DEF d
<1>. QED
  BY <1>3, <1>4, <1>5, <1>6

\* The innermost of the items being skipped, counted.
LEMMA Recounted ==
  ASSUME NEW r, NEW late, Skipping(r, late), NEW g \in Skips, g.odd => g.isMap,
         Len(r.raw) = 1 => g = RawItems(0)
  PROVE  LET s == [r EXCEPT !.raw[Len(r.raw)] = g] IN
         /\ Skipping(s, late) /\ ~Waiting(s)
         /\ s.stack = r.stack /\ s.read = r.read /\ s.ahead = r.ahead
         /\ Len(s.raw) = Len(r.raw)
         /\ \A j \in 1..Len(r.raw) : s.raw[j] = IF j = Len(r.raw) THEN g ELSE r.raw[j]
<1>. DEFINE m == Len(r.raw)
            q == [r.raw EXCEPT ![m] = g]
            s == [r EXCEPT !.raw[Len(r.raw)] = g]
<1>1. /\ r \in Readers /\ r.raw \in Seq(Skips) /\ m \in Nat /\ m > 0 /\ m \in 1..m /\ 1 \in 1..m
  <2>1. r \in Readers /\ r.raw \in Seq(Skips) /\ m \in Nat /\ m # 0
    BY ReaderIs DEF Skipping, Sound, Bounded
  <2>. QED
    BY <2>1
<1>2. q \in Seq(Skips) /\ Len(q) = m /\ \A j \in 1..m : q[j] = IF j = m THEN g ELSE r.raw[j]
  BY <1>1, ExceptSeq
<1>3. s = [r EXCEPT !.raw = q]
  BY <1>1 DEF Readers
<1>. HIDE DEF q, s
<1>4. /\ s \in Readers /\ s.root = r.root /\ s.failed = r.failed /\ s.complete = r.complete
      /\ s.error = r.error /\ s.scopes = r.scopes /\ s.values = r.values
      /\ s.input = r.input /\ s.raw = q /\ s.ahead = r.ahead /\ s.read = r.read
      /\ s.stack = r.stack
  BY ONLY <1>1, <1>2, <1>3 DEF Readers
<1>5. Sound(s, late)
  BY <1>4 DEF Skipping, Sound, Bounded, Latched, Ended
<1>6. q[1] \in {RawItems(0), RawItems(1)} /\ q[1].left # 1
  <2>1. CASE m = 1
    BY <1>2, <2>1 DEF RawItems
  <2>2. CASE m # 1
    <3>1. q[1] = r.raw[1]
      BY <1>1, <1>2, <2>2
    <3>2. r.raw[1] \in {RawItems(0), RawItems(1)} /\ r.raw[1].left # 1
      BY <2>2 DEF Skipping, RawOK, Waiting
    <3>. QED
      BY <3>1, <3>2
  <2>. QED
    BY <2>1, <2>2
<1>7. \A j \in 1..m : q[j].odd => q[j].isMap
  BY <1>2 DEF Skipping, RawOK
<1>. HIDE DEF m
<1>8. RawOK(s) /\ ~Waiting(s)
  <2>1. Len(s.scopes) + Len(s.raw) <= DecodeLimits.nesting + 1
    BY <1>2, <1>4 DEF Skipping, RawOK, m
  <2>2. s.stack # <<>> => Busy(Top(s))
    BY <1>4 DEF Skipping, RawOK, Top
  <2>. QED
    BY <1>2, <1>4, <1>6, <1>7, <2>1, <2>2 DEF RawOK, Waiting
<1>9. q # <<>>
  BY <1>1, <1>2, EmptySeq
<1>10. Skipping(s, late)
  BY <1>4, <1>5, <1>8, <1>9 DEF Skipping, Charged_As
<1>. QED
  BY <1>2, <1>4, <1>8, <1>10 DEF m, s

\* Where the entries of the frames and of the skipped items lie.
LEMMA Places ==
  ASSUME NEW n \in Nat, NEW m \in Nat, m > 0, NEW l \in Nat, l = 2 * n + m - 1
  PROVE  /\ \A i \in 1..n :
              /\ 2 * i - 1 \in 1..l /\ 2 * i - 1 # l
              /\ i = n /\ m = 1 => 2 * i = l /\ n > 0
              /\ i # n \/ m # 1 => 2 * i \in 1..l /\ 2 * i # l
         /\ \A j \in 2..m :
              /\ j = m => 2 * n + j - 1 = l /\ m # 1
              /\ j # m => 2 * n + j - 1 \in 1..l /\ 2 * n + j - 1 # l
OBVIOUS

\* One more of the innermost items is read.
LEMMA SkipInside ==
  ASSUME NEW r, NEW late, Skipping(r, late), NEW g \in Skips, g.odd => g.isMap,
         NEW o \in Seq(Entries), OwesRaw(r, o), Takes(r.read, o),
         Len(r.raw) = 1 => Waiting(r) /\ g = RawItems(0),
         Len(r.raw) # 1 => Grammar!Filled(RawEntry(r.raw[Len(r.raw)])) = RawEntry(g),
         NextIsBreak(r) => (o # <<>> => ~o[Len(o)].indefinite \/ o[Len(o)].odd)
  PROVE  Served(Skip_Head([r EXCEPT !.raw[Len(r.raw)] = g]), late)
<1>. DEFINE s == [r EXCEPT !.raw[Len(r.raw)] = g]
            v == FillLast(o)
            n == Len(r.stack)
            m == Len(r.raw)
<1>1. /\ Skipping(s, late) /\ ~Waiting(s)
      /\ s.stack = r.stack /\ s.read = r.read /\ s.ahead = r.ahead
      /\ Len(s.raw) = m
      /\ \A j \in 1..m : s.raw[j] = IF j = m THEN g ELSE r.raw[j]
  BY Recounted
<1>. HIDE DEF s
<1>2. r \in Readers /\ r.read \in Decoders /\ n \in Nat /\ m \in Nat /\ m > 0
  <2>1. r \in Readers /\ r.read \in Decoders /\ n \in Nat /\ m \in Nat /\ m # 0
    BY ReaderIs DEF Skipping, Sound, Bounded
  <2>. QED
    BY <2>1
<1>3. /\ Len(o) = 2 * n + m - 1
      /\ \A i \in 1..n : /\ o[2 * i - 1] = Env(r.stack[i])
                         /\ i < n \/ ~Waiting(r) => o[2 * i] = Main(r.stack[i])
      /\ Waiting(r) /\ n > 0 => Grammar!Filled(o[2 * n]) = Main(r.stack[n])
      /\ \A j \in 2..m : o[2 * n + j - 1] = RawEntry(r.raw[j])
  BY DEF OwesRaw
<1>4. Waiting(r) => m = 1
  BY DEF Skipping, RawOK
<1>5. v \in Seq(Entries) /\ OwesRaw(s, v)
  <2>1. CASE o = <<>>
    <3>1. v = o /\ Len(o) = 0
      BY <2>1 DEF FillLast
    <3>2. n = 0 /\ m = 1
      <4>1. \A x, y \in Nat : y > 0 /\ 0 = 2 * x + y - 1 => x = 0 /\ y = 1
        OBVIOUS
      <4>. QED
        BY <1>2, <1>3, <3>1, <4>1
    <3>. HIDE DEF v, m, n
    <3>3. (\A i \in 1..n : FALSE) /\ (\A j \in 2..m : FALSE) /\ Len(v) = 2 * n + m - 1
      BY <3>1, <3>2
    <3>. QED
      BY <1>1, <3>1, <3>3 DEF OwesRaw, n
  <2>2. CASE o # <<>>
    <3>. DEFINE l == Len(o)
    <3>1. l \in Nat /\ l > 0 /\ Pending(o[l]) /\ o[l] \in Entries
      BY <2>2, LastIs DEF Takes
    <3>2. /\ v \in Seq(Entries) /\ Len(v) = l /\ v[l] = Grammar!Filled(o[l])
          /\ \A k \in 1..l : k # l => v[k] = o[k]
      BY <2>2, <3>1, FilledIs, FillLastIs
    <3>. HIDE DEF v
    <3>3. l = 2 * n + m - 1
      BY <1>3
    <3>. HIDE DEF l
    <3>6. /\ \A i \in 1..n :
               /\ 2 * i - 1 \in 1..l /\ 2 * i - 1 # l
               /\ i = n /\ m = 1 => 2 * i = l /\ n > 0
               /\ i # n \/ m # 1 => 2 * i \in 1..l /\ 2 * i # l
          /\ \A j \in 2..m :
               /\ j = m => 2 * n + j - 1 = l /\ m # 1
               /\ j # m => 2 * n + j - 1 \in 1..l /\ 2 * n + j - 1 # l
      <4>1. n \in Nat /\ m \in Nat /\ m > 0 /\ l \in Nat
        BY <1>2, <3>1
      <4>. HIDE DEF n, m
      <4>. QED
        BY <3>3, <4>1, Places
    <3>4. ASSUME NEW i \in 1..n
          PROVE  v[2 * i - 1] = Env(r.stack[i]) /\ v[2 * i] = Main(r.stack[i])
      <4>1. 2 * i - 1 \in 1..l /\ 2 * i - 1 # l
        BY <3>6
      <4>2. v[2 * i - 1] = Env(r.stack[i])
        BY <1>3, <3>2, <4>1
      <4>3. CASE i = n /\ m = 1
        <5>1. 2 * i = l /\ n > 0
          BY <3>6, <4>3
        <5>2. Waiting(r)
          BY <4>3
        <5>. QED
          BY <1>3, <3>2, <4>2, <4>3, <5>1, <5>2
      <4>4. CASE i # n \/ m # 1
        <5>1. 2 * i \in 1..l /\ 2 * i # l
          BY <3>6, <4>4
        <5>2. i < n \/ ~Waiting(r)
          BY <1>2, <1>4, <4>4
        <5>. QED
          BY <1>3, <3>2, <4>2, <5>1, <5>2
      <4>. QED
        BY <4>3, <4>4
    <3>5. ASSUME NEW j \in 2..m
          PROVE  v[2 * n + j - 1] = RawEntry(s.raw[j])
      <4>1. o[2 * n + j - 1] = RawEntry(r.raw[j]) /\ j \in 1..m
        BY <1>2, <1>3
      <4>2. CASE j = m
        <5>1. 2 * n + j - 1 = l /\ m # 1
          BY <3>6, <4>2
        <5>. QED
          BY <1>1, <3>2, <4>1, <4>2, <5>1
      <4>3. CASE j # m
        <5>1. 2 * n + j - 1 \in 1..l /\ 2 * n + j - 1 # l
          BY <3>6, <4>3
        <5>. QED
          BY <1>1, <3>2, <4>1, <4>3, <5>1
      <4>. QED
        BY <4>2, <4>3
    <3>. HIDE DEF m, n
    <3>. QED
      BY <1>1, <3>2, <3>3, <3>4, <3>5 DEF OwesRaw, n
  <2>. QED
    BY <2>1, <2>2
<1>6. NextIsBreak(s) => Grammar!ReadBreak(s.read) = Grammar!Malformed
  <2>1. NextIsBreak(s) => NextIsBreak(r)
    BY <1>1 DEF NextIsBreak, Next_Token
  <2>. QED
    BY <1>1, <1>2, <2>1, BreakRefused
<1>. HIDE DEF v
<1>. QED
  BY <1>1, <1>5, <1>6, SkipHeadServes DEF s, v

\* The innermost items were the last of theirs: what is left is skipped.
LEMMA DropServes ==
  ASSUME NEW t, NEW late, Skipping(t, late), Len(t.raw) # 1,
         NEW o \in Seq(Entries), OwesRaw(t, o),
         NEW w \in Seq(Entries), Len(w) = Len(o),
         \A k \in 1..Len(o) : k # Len(o) => w[k] = o[k], ~Pending(w[Len(o)]),
         Stands(t.read, w)
  PROVE  Served([t EXCEPT !.raw = SubSeq(t.raw, 1, Len(t.raw) - 1)], late)
<1>. DEFINE m == Len(t.raw)
            n == Len(t.stack)
            l == Len(o)
            q == SubSeq(t.raw, 1, m - 1)
            u == [t EXCEPT !.raw = q]
            v == SubSeq(w, 1, l - 1)
<1>1. /\ t \in Readers /\ t.raw \in Seq(Skips) /\ m \in Nat /\ m > 1 /\ n \in Nat
      /\ Len(t.scopes) \in Nat
  <2>1. /\ t \in Readers /\ t.raw \in Seq(Skips) /\ m \in Nat /\ m # 0 /\ n \in Nat
        /\ Len(t.scopes) \in Nat
    BY ReaderIs DEF Skipping, Sound, Bounded
  <2>2. \A x \in Nat : x # 0 /\ x # 1 => x > 1
    OBVIOUS
  <2>. QED
    BY <2>1, <2>2
<1>2. ~Waiting(t)
  BY <1>1 DEF Skipping, RawOK
<1>3. /\ l = 2 * n + m - 1 /\ l \in Nat
      /\ \A i \in 1..n : o[2 * i - 1] = Env(t.stack[i]) /\ o[2 * i] = Main(t.stack[i])
      /\ \A j \in 2..m : o[2 * n + j - 1] = RawEntry(t.raw[j])
  BY <1>2, LenProperties DEF OwesRaw
<1>4. q \in Seq(Skips) /\ Len(q) = m - 1 /\ \A j \in 1..(m - 1) : q[j] = t.raw[j]
  BY <1>1, SubSeqProperties
<1>. HIDE DEF q
<1>5. /\ u \in Readers /\ u.root = t.root /\ u.failed = t.failed /\ u.complete = t.complete
      /\ u.error = t.error /\ u.scopes = t.scopes /\ u.values = t.values
      /\ u.input = t.input /\ u.raw = q /\ u.ahead = t.ahead /\ u.read = t.read
      /\ u.stack = t.stack
  BY ONLY <1>1, <1>4 DEF Readers
<1>. HIDE DEF u
<1>6. Sound(u, late)
  BY <1>5 DEF Skipping, Sound, Bounded, Latched, Ended
<1>7. q # <<>> /\ q[1] = t.raw[1]
  <2>1. 1 \in 1..(m - 1) /\ m - 1 # 0
    BY <1>1
  <2>. QED
    BY <1>4, <2>1, EmptySeq
<1>8. ~Waiting(u)
  BY <1>2, <1>5, <1>7 DEF Waiting
<1>9. RawOK(u)
  <2>1. Len(u.scopes) + Len(u.raw) <= DecodeLimits.nesting + 1
    <3>1. Len(t.scopes) + m <= DecodeLimits.nesting + 1 /\ DecodeLimits.nesting \in Nat
      BY DecodeLimitsAssumption DEF Skipping, RawOK
    <3>2. \A x, y, z \in Nat : x + y <= z + 1 => x + (y - 1) <= z + 1
      OBVIOUS
    <3>3. Len(u.scopes) = Len(t.scopes) /\ Len(u.raw) = m - 1
      BY <1>4, <1>5
    <3>. QED
      BY <1>1, <3>1, <3>2, <3>3
  <2>2. \A j \in 1..Len(u.raw) : u.raw[j].odd => u.raw[j].isMap
    <3>1. \A j \in 1..(m - 1) : j \in 1..m
      BY <1>1
    <3>2. \A j \in 1..m : t.raw[j].odd => t.raw[j].isMap
      BY DEF Skipping, RawOK
    <3>. QED
      BY <1>4, <1>5, <3>1, <3>2
  <2>3. u.stack # <<>> => Busy(Top(u))
    BY <1>5 DEF Skipping, RawOK, Top
  <2>. QED
    BY <1>5, <1>7, <1>8, <2>1, <2>2, <2>3 DEF Skipping, RawOK
<1>10. Skipping(u, late)
  BY <1>5, <1>6, <1>7, <1>9 DEF Skipping, Charged_As
<1>. HIDE DEF m, n, l
<1>11. l > 0 /\ l - 1 \in Nat
  BY <1>1, <1>3
<1>12. v \in Seq(Entries) /\ Len(v) = l - 1 /\ \A k \in 1..(l - 1) : v[k] = w[k]
  <2>1. Len(w) = l
    BY DEF l
  <2>. QED
    BY <1>11, <2>1, SubSeqProperties
<1>13. \A k \in 1..(l - 1) : v[k] = o[k]
  <2>1. \A k \in 1..(l - 1) : k \in 1..l /\ k # l
    BY <1>3
  <2>. QED
    BY <1>12, <2>1 DEF l
<1>. HIDE DEF v
<1>14. Stands(u.read, v)
  <2>1. Len(w) = l
    BY DEF l
  <2>2. \A k \in 1..l : k > l - 1 => k = l
    BY <1>3
  <2>3. \A k \in 1..Len(w) : k > Len(v) => ~Pending(w[k])
    BY <1>12, <2>1, <2>2 DEF l
  <2>4. Len(v) <= Len(w)
    BY <1>3, <1>12, <2>1
  <2>5. \A k \in 1..Len(v) : v[k] = w[k]
    BY <1>12
  <2>6. Same(w, v)
    BY <1>12, <2>3, <2>4, <2>5, DropFilled
  <2>. QED
    BY <1>5, <2>6, StandsElsewhere
<1>15. OwesRaw(u, v)
  <2>1. Len(v) = 2 * n + (m - 1) - 1
    BY <1>1, <1>3, <1>12
  <2>2. ASSUME NEW i \in 1..n
        PROVE  v[2 * i - 1] = Env(u.stack[i]) /\ v[2 * i] = Main(u.stack[i])
    <3>1. 2 * i - 1 \in 1..(l - 1) /\ 2 * i \in 1..(l - 1)
      BY <1>1, <1>3
    <3>. QED
      BY <1>3, <1>5, <1>13, <3>1
  <2>3. ASSUME NEW j \in 2..(m - 1)
        PROVE  v[2 * n + j - 1] = RawEntry(u.raw[j])
    <3>1. 2 * n + j - 1 \in 1..(l - 1) /\ j \in 2..m /\ j \in 1..(m - 1)
      BY <1>1, <1>3
    <3>. QED
      BY <1>3, <1>4, <1>5, <1>13, <3>1
  <2>4. Len(u.stack) = n /\ Len(u.raw) = m - 1
    BY <1>4, <1>5 DEF n
  <2>. QED
    BY <1>8, <2>1, <2>2, <2>3, <2>4 DEF OwesRaw
<1>. QED
  BY <1>8, <1>10, <1>12, <1>14, <1>15, SkippingServes DEF u, q, m

\* The whole value was skipped.
LEMMA SkippedServes ==
  ASSUME NEW r, NEW late, Skipping(r, late), Len(r.raw) = 1, ~Waiting(r),
         NEW o \in Seq(Entries), OwesRaw(r, o), Stands(r.read, o)
  PROVE  Served(Finish_Value([r EXCEPT !.raw = <<>>]), late)
<1>. DEFINE t == [r EXCEPT !.raw = <<>>]
<1>1. r \in Readers /\ Len(r.stack) \in Nat /\ <<>> \in Seq(Skips)
  BY ReaderIs DEF Skipping, Sound, Bounded
<1>2. /\ t \in Readers /\ t.root = r.root /\ t.failed = r.failed /\ t.complete = r.complete
      /\ t.error = r.error /\ t.scopes = r.scopes /\ t.values = r.values
      /\ t.input = r.input /\ t.raw = <<>> /\ t.ahead = r.ahead /\ t.read = r.read
      /\ t.stack = r.stack
  BY ONLY <1>1 DEF Readers
<1>. HIDE DEF t
<1>3. Sound(t, late)
  BY <1>2 DEF Skipping, Sound, Bounded, Latched, Ended
<1>4. Midway(t, late)
  BY <1>2, <1>3 DEF Skipping, Midway, Charged_As
<1>5. Owes(t.stack, o)
  <2>1. Len(o) = 2 * Len(r.stack)
    BY <1>1 DEF OwesRaw
  <2>. QED
    BY <1>2, <2>1 DEF OwesRaw, Owes
<1>6. Stands(t.read, o)
  BY <1>2
<1>. QED
  BY <1>4, <1>5, <1>6, FinishServes DEF t

\* The last entry owed is that of the innermost items.
LEMMA InnermostIs ==
  ASSUME NEW r, NEW late, Skipping(r, late), Len(r.raw) # 1,
         NEW o \in Seq(Entries), OwesRaw(r, o)
  PROVE  /\ o # <<>> /\ Len(o) \in Nat /\ o[Len(o)] = RawEntry(r.raw[Len(r.raw)])
         /\ ~Waiting(r)
<1>. DEFINE m == Len(r.raw)
            n == Len(r.stack)
<1>1. n \in Nat /\ m \in Nat /\ m # 0 /\ m # 1
  BY ReaderIs DEF Skipping, Sound, Bounded
<1>2. /\ Len(o) = 2 * n + m - 1
      /\ \A j \in 2..m : o[2 * n + j - 1] = RawEntry(r.raw[j])
  BY DEF OwesRaw
<1>3. ~Waiting(r)
  BY DEF Skipping, RawOK
<1>. HIDE DEF n, m
<1>4. m \in 2..m /\ 2 * n + m - 1 \in Nat /\ 2 * n + m - 1 # 0
  BY <1>1
<1>5. o[Len(o)] = RawEntry(r.raw[m])
  BY <1>2, <1>4
<1>6. o # <<>>
  BY <1>2, <1>4
<1>. QED
  BY <1>2, <1>3, <1>4, <1>5, <1>6 DEF m

\* The innermost skipped entry; the outermost is the value itself.
LEMMA RawIs ==
  ASSUME NEW r, NEW late, Skipping(r, late)
  PROVE  LET f == r.raw[Len(r.raw)] IN
         /\ f \in Skips /\ f.left \in Nat /\ f.indefinite \in BOOLEAN /\ f.isMap \in BOOLEAN
         /\ f.odd \in BOOLEAN /\ f.count \in Nat
         /\ f.odd => f.isMap
         /\ Len(r.raw) = 1 => f \in {RawItems(0), RawItems(1)} /\ ~f.indefinite
<1>1. r \in Readers /\ Len(r.raw) \in Nat /\ Len(r.raw) # 0
  BY ReaderIs DEF Skipping, Sound, Bounded
<1>2. Len(r.raw) \in 1..Len(r.raw)
  BY <1>1
<1>3. r.raw[Len(r.raw)] \in Skips
  BY <1>1, <1>2, ReaderIs
<1>4. r.raw[Len(r.raw)].odd => r.raw[Len(r.raw)].isMap
  BY <1>2 DEF Skipping, RawOK
<1>5. Len(r.raw) = 1 => r.raw[Len(r.raw)] \in {RawItems(0), RawItems(1)}
  BY DEF Skipping, RawOK
<1>6. ~RawItems(0).indefinite /\ ~RawItems(1).indefinite
  BY DEF RawItems
<1>. QED
  BY <1>3, <1>4, <1>5, <1>6 DEF Skips

\* An entry of an indefinite run, counted, owes what the decoder expects after one item.
LEMMA CountedIs ==
  ASSUME NEW f \in Skips, f.indefinite, f.odd => f.isMap
  PROVE  /\ Counted(f) \in Skips /\ (Counted(f).odd => Counted(f).isMap)
         /\ Grammar!Filled(RawEntry(f)) = RawEntry(Counted(f))
         /\ RawEntry(f).indefinite /\ RawEntry(f).odd = f.odd
<1>. DEFINE g == Counted(f)
<1>1. /\ f.left \in Nat /\ f.indefinite \in BOOLEAN /\ f.isMap \in BOOLEAN
      /\ f.odd \in BOOLEAN /\ f.count \in Nat
  BY DEF Skips
<1>. DEFINE c == IF f.odd THEN f.count ELSE f.count + 1
            b == f.isMap /\ ~f.odd
<1>2. c \in Nat /\ b \in BOOLEAN
  BY <1>1
<1>3. g = [f EXCEPT !.odd = b, !.count = c]
  BY DEF Counted, Skips
<1>. HIDE DEF c, b, g
<1>4. g \in Skips /\ g.indefinite = f.indefinite /\ g.isMap = f.isMap /\ g.odd = b
  BY <1>2, <1>3 DEF Skips
<1>5. g.odd => g.isMap
  BY <1>4 DEF b
<1>6. RawEntry(f) = Run_Of(f.isMap, f.odd) /\ RawEntry(g) = Run_Of(f.isMap, b)
  BY <1>4 DEF RawEntry
<1>7. Grammar!Filled(Run_Of(f.isMap, f.odd)) = Run_Of(f.isMap, b)
  <2>1. CASE f.isMap
    <3>1. Grammar!Filled(Run_Of(f.isMap, f.odd)) = [Run_Of(f.isMap, f.odd) EXCEPT !.odd = ~@]
      BY <2>1 DEF Grammar!Filled, Run_Of
    <3>2. b = ~f.odd
      BY <1>1, <2>1 DEF b
    <3>. QED
      BY <3>1, <3>2 DEF Run_Of
  <2>2. CASE ~f.isMap
    <3>1. Grammar!Filled(Run_Of(f.isMap, f.odd)) = Run_Of(f.isMap, f.odd)
      BY <2>2 DEF Grammar!Filled, Run_Of
    <3>2. b = f.odd
      BY <1>1, <2>2 DEF b
    <3>. QED
      BY <3>1, <3>2
  <2>. QED
    BY <2>1, <2>2
<1>. QED
  BY <1>4, <1>5, <1>6, <1>7 DEF g, Run_Of

\* One step of skipping an indefinite container serves: its end, or one of its items.
LEMMA SkipRunServes ==
  ASSUME NEW r, NEW late, Skipping(r, late), r.raw[Len(r.raw)].indefinite,
         NEW o \in Seq(Entries), OwesRaw(r, o), ~Waiting(r) => Stands(r.read, o)
  PROVE  Served(Skip_Run(r), late)
<1>. DEFINE m == Len(r.raw)
            f == r.raw[m]
            i == Inspect_Head(r)
            b1 == At_Break(i) /\ f.odd
            whole == Unless(i, b1, "Syntax_Error")
            b2 == ~At_Break(i) /\ ~f.odd /\ f.count = DecodeLimits.items
            counted == Unless(whole, b2, "Capacity_Exceeded")
            d == Skip_Run(r)
<1>1. /\ f \in Skips /\ f.indefinite /\ f.odd \in BOOLEAN
      /\ f.odd => f.isMap
      /\ m # 1
  BY RawIs
<1>2. o # <<>> /\ o[Len(o)] = RawEntry(f) /\ ~Waiting(r) /\ Stands(r.read, o)
  BY <1>1, InnermostIs
<1>3. RawEntry(f).indefinite /\ RawEntry(f).odd = f.odd
  BY <1>1, CountedIs
<1>4. Takes(r.read, o)
  BY <1>2, <1>3 DEF Takes, Pending
<1>5. Sound(r, late) /\ r \in Readers /\ r.read \in Decoders /\ ~Latched(r)
  BY DEF Skipping, Sound, Bounded, Readers
<1>6. Refused(i, late) \/ (i = r /\ Seen(r))
  BY <1>4, <1>5, Inspected, TakesIsNotWhole
<1>7. d = IF Latched(counted) THEN counted
          ELSE IF At_Break(i) THEN [Advance(i) EXCEPT !.raw = SubSeq(@, 1, Len(@) - 1)]
          ELSE Skip_Head([i EXCEPT !.raw[m] = Counted(f)])
  BY DEF Skip_Run
<1>. HIDE DEF f, d
<1>8. CASE Refused(i, late)
  <2>1. Latched(i)
    BY <1>8 DEF Refused
  <2>2. whole = i /\ counted = i
    BY <2>1, Passes
  <2>. QED
    BY <1>7, <1>8, <2>1, <2>2 DEF Served, d
<1>9. CASE i = r /\ Seen(r)
  <2>1. At_Break(i) \in BOOLEAN /\ (At_Break(i) => Next_Token(r).head = "break")
        /\ (~At_Break(i) => Next_Token(r).head # "break")
    BY <1>5, <1>9 DEF At_Break
  <2>2. b1 \in BOOLEAN /\ b2 \in BOOLEAN
    OBVIOUS
  <2>3. b1 => Malformed(r)
    <3>1. b1 => Grammar!ReadBreak(r.read).bad
      BY <1>1, <1>2, <1>3, <1>4, <1>5, BreakRefused
    <3>. QED
      BY <2>1, <3>1, BreakIsBreak DEF Malformed
  <2>. HIDE DEF b1, b2, i
  <2>4. IF b1 THEN Refused(Unless(r, b1, "Syntax_Error"), late)
        ELSE Unless(r, b1, "Syntax_Error") = r
    BY <1>5, <2>2, <2>3, UnlessSplits DEF Codes, Starved
  <2>5. Refused(whole, late) \/ (whole = r /\ ~b1)
    BY <1>9, <2>4
  <2>6. IF b2 THEN Refused(Unless(r, b2, "Capacity_Exceeded"), late)
        ELSE Unless(r, b2, "Capacity_Exceeded") = r
    BY <1>5, <2>2, UnlessSplits DEF Codes, Starved
  <2>7. Refused(counted, late) \/ (counted = r /\ ~b1)
    <3>1. CASE Refused(whole, late)
      BY <3>1, Passes DEF Refused
    <3>2. CASE whole = r /\ ~b1
      BY <2>6, <3>2
    <3>. HIDE DEF whole, counted
    <3>. QED
      BY <2>5, <3>1, <3>2
  <2>. HIDE DEF whole, counted
  <2>8. CASE Refused(counted, late)
    <3>1. Latched(counted)
      BY <2>8 DEF Refused
    <3>. QED
      BY <1>7, <2>8, <3>1 DEF Served, d
  <2>9. CASE counted = r /\ ~b1 /\ At_Break(i)
    <3>. DEFINE t == Past(r)
                w == [o EXCEPT ![Len(o)] = Grammar!Definite(0)]
    <3>1. Advance(r) = t
      BY <1>5, <1>9, PastIs
    <3>2. ~f.odd
      BY <2>9 DEF b1
    <3>3. Grammar!ReadToken(r.read, Structure(Next_Token(r))) = Grammar!ReadBreak(r.read)
      BY <2>1, <2>9, BreakIsBreak
    <3>4. /\ Grammar!ReadBreak(r.read) \in Decoders /\ w \in Seq(Entries)
          /\ Stands(Grammar!ReadBreak(r.read), w)
      BY <1>2, <1>3, <1>5, <3>2, BreakTaken
    <3>5. Sound(t, late)
      BY <1>5, <1>9, <3>3, <3>4, PastIs
    <3>6. t.read = Grammar!ReadBreak(r.read)
      BY <1>5, <3>3 DEF Past, Readers
    <3>7. /\ t.stack = r.stack /\ t.root = r.root /\ t.raw = r.raw
          /\ t.scopes = r.scopes /\ t.complete = r.complete
      BY <1>5, PastKeeps
    <3>8. Len(w) = Len(o) /\ \A k \in 1..Len(o) : w[k] = IF k = Len(o) THEN Grammar!Definite(0) ELSE o[k]
      BY <1>2, FilledUp, ExceptSeq
    <3>9. ~Pending(w[Len(o)])
      <4>1. Len(o) \in 1..Len(o)
        BY <1>2, LastIs
      <4>. QED
        BY <3>8, <4>1, FilledUp
    <3>. HIDE DEF t, w, m
    <3>10. Skipping(t, late)
      <4>1. RawOK(t)
        BY <3>7 DEF Skipping, RawOK, Waiting, Top
      <4>. QED
        BY <3>5, <3>7, <4>1 DEF Skipping, Charged_As
    <3>11. OwesRaw(t, o) /\ Len(t.raw) # 1
      BY <1>1, <3>7 DEF OwesRaw, Waiting, m
    <3>12. Served([t EXCEPT !.raw = SubSeq(t.raw, 1, Len(t.raw) - 1)], late)
      BY <3>4, <3>6, <3>8, <3>9, <3>10, <3>11, DropServes
    <3>13. d = [t EXCEPT !.raw = SubSeq(t.raw, 1, Len(t.raw) - 1)]
      <4>1. d = [t EXCEPT !.raw = SubSeq(@, 1, Len(@) - 1)]
        BY <1>5, <1>7, <1>9, <2>9, <3>1
      <4>2. t \in Readers
        BY <3>5 DEF Sound, Bounded
      <4>. QED
        BY <4>1, <4>2 DEF Readers
    <3>. QED
      BY <3>12, <3>13 DEF d
  <2>10. CASE counted = r /\ ~At_Break(i)
    <3>1. d = Skip_Head([r EXCEPT !.raw[m] = Counted(f)])
      BY <1>5, <1>7, <1>9, <2>10
    <3>2. /\ Counted(f) \in Skips /\ (Counted(f).odd => Counted(f).isMap)
          /\ Grammar!Filled(RawEntry(f)) = RawEntry(Counted(f))
      BY <1>1, CountedIs
    <3>3. ~NextIsBreak(r)
      BY <2>1, <2>10 DEF NextIsBreak
    <3>4. Served(Skip_Head([r EXCEPT !.raw[m] = Counted(f)]), late)
      BY <1>1, <1>4, <3>2, <3>3, SkipInside DEF f
    <3>. QED
      BY <3>1, <3>4 DEF d
  <2>. QED
    BY <2>7, <2>8, <2>9, <2>10
<1>. HIDE DEF i
<1>. QED
  BY <1>6, <1>8, <1>9

\* Filling a definite entry takes one from it.
LEMMA DefiniteFilled ==
  ASSUME NEW x
  PROVE  Grammar!Filled(Grammar!Definite(x)) = Grammar!Definite(x - 1)
<1>1. ~Grammar!Definite(x).indefinite
  BY DEF Grammar!Definite
<1>2. Grammar!Filled(Grammar!Definite(x)) = [Grammar!Definite(x) EXCEPT !.left = @ - 1]
  BY <1>1 DEF Grammar!Filled
<1>. QED
  BY <1>2 DEF Grammar!Definite

\* Every step of a skip serves.
LEMMA SkipStepServes ==
  ASSUME NEW r, NEW late, Live(r), Sound(r, late), r.raw # <<>>
  PROVE  Served(Skip_Step(r), late)
<1>. DEFINE m == Len(r.raw)
            f == r.raw[m]
            q == SubSeq(r.raw, 1, m - 1)
            closed == [r EXCEPT !.raw = q]
            g == [f EXCEPT !.left = f.left - 1]
            d == Skip_Step(r)
<1>1. Skipping(r, late)
  BY LiveSkips
<1>2. PICK o \in Seq(Entries) : /\ OwesRaw(r, o)
                                /\ IF Waiting(r) THEN Takes(r.read, o) ELSE Stands(r.read, o)
  BY DEF Live, Read_Right
<1>3. /\ r \in Readers /\ r.raw \in Seq(Skips) /\ m \in Nat /\ m # 0 /\ Len(r.stack) \in Nat
      /\ (r.stack = <<>> <=> Len(r.stack) = 0)
  BY ReaderIs DEF Sound, Bounded
<1>4. /\ f \in Skips /\ f.left \in Nat /\ f.indefinite \in BOOLEAN
      /\ f.odd => f.isMap
      /\ m = 1 => f \in {RawItems(0), RawItems(1)} /\ f = r.raw[1]
  BY <1>1, RawIs
<1>5. d = IF f.indefinite THEN Skip_Run(r)
          ELSE IF f.left > 0 THEN Skip_Head([r EXCEPT !.raw[m] = [f EXCEPT !.left = @ - 1]])
          ELSE IF closed.raw = <<>> THEN Finish_Value(closed) ELSE closed
  <2>1. [r EXCEPT !.raw = SubSeq(@, 1, Len(@) - 1)] = closed
    BY <1>3 DEF Readers
  <2>. QED
    BY <2>1 DEF Skip_Step
<1>6. m # 1 => o # <<>> /\ o[Len(o)] = RawEntry(f) /\ ~Waiting(r)
  BY <1>1, <1>2, InnermostIs
<1>. HIDE DEF f, d
<1>7. CASE f.indefinite
  <2>1. Served(Skip_Run(r), late)
    BY <1>1, <1>2, <1>7, SkipRunServes DEF f
  <2>. QED
    BY <1>5, <1>7, <2>1 DEF d
<1>8. CASE ~f.indefinite /\ f.left > 0
  <2>1. /\ g \in Skips /\ g.left = f.left - 1 /\ g.indefinite = f.indefinite
        /\ g.isMap = f.isMap /\ g.odd = f.odd /\ g.count = f.count
    <3>1. f.left - 1 \in Nat
      BY <1>4, <1>8
    <3>. QED
      BY <1>4, <3>1 DEF Skips
  <2>2. d = Skip_Head([r EXCEPT !.raw[m] = g])
    <3>1. [f EXCEPT !.left = @ - 1] = g
      BY <1>4 DEF Skips
    <3>. QED
      BY <1>5, <1>8, <3>1
  <2>3. m = 1 => Waiting(r) /\ g = RawItems(0)
    <3>1. m = 1 => f = RawItems(1)
      <4>1. RawItems(0).left = 0
        BY DEF RawItems
      <4>. QED
        BY <1>4, <1>8, <4>1
    <3>2. RawItems(1).left = 1 /\ [RawItems(1) EXCEPT !.left = 0] = RawItems(0)
      <4>1. \A x : RawItems(x).left = x
        BY DEF RawItems
      <4>2. \A e \in Skips : [e EXCEPT !.left = 0] =
              [left |-> 0, indefinite |-> e.indefinite, isMap |-> e.isMap, odd |-> e.odd,
               count |-> e.count]
        BY DEF Skips
      <4>3. RawItems(1) \in Skips
        BY EntriesInside
      <4>. QED
        BY <4>1, <4>2, <4>3 DEF RawItems
    <3>3. f.left = 1 => g = [f EXCEPT !.left = 0]
      OBVIOUS
    <3>. HIDE DEF g
    <3>. QED
      BY <1>4, <3>1, <3>2, <3>3 DEF Waiting
  <2>4. RawEntry(f) = Grammar!Definite(f.left) /\ RawEntry(g) = Grammar!Definite(f.left - 1)
    BY <1>8, <2>1 DEF RawEntry
  <2>5. Grammar!Filled(RawEntry(f)) = RawEntry(g)
    BY <2>4, DefiniteFilled
  <2>6. ~RawEntry(f).indefinite /\ Pending(RawEntry(f))
    BY <1>8, <2>4 DEF Pending, Grammar!Definite
  <2>7. Takes(r.read, o)
    <3>1. CASE m = 1
      BY <1>2, <2>3, <3>1
    <3>2. CASE m # 1
      BY <1>2, <1>6, <2>6, <3>2 DEF Takes
    <3>. QED
      BY <3>1, <3>2
  <2>8. NextIsBreak(r) => (o # <<>> => ~o[Len(o)].indefinite \/ o[Len(o)].odd)
    <3>1. CASE m = 1
      <4>1. o # <<>> => r.stack # <<>>
        <5>1. r.stack = <<>> => Len(o) = 0
          BY <1>2, <1>3, <3>1 DEF OwesRaw
        <5>. QED
          BY <5>1, EmptySeq
      <4>2. r.stack # <<>> => ~NextIsBreak(r)
        BY <2>3, <3>1 DEF Live, Foreseen, NextIsItem, NextIsBreak
      <4>. QED
        BY <4>1, <4>2
    <3>2. CASE m # 1
      BY <1>6, <2>6, <3>2
    <3>. QED
      BY <3>1, <3>2
  <2>. HIDE DEF g
  <2>9. Served(Skip_Head([r EXCEPT !.raw[m] = g]), late)
    BY <1>1, <1>2, <1>4, <2>1, <2>3, <2>5, <2>7, <2>8, SkipInside DEF f
  <2>. QED
    BY <2>2, <2>9 DEF d
<1>9. CASE ~f.indefinite /\ ~(f.left > 0)
  <2>1. f.left = 0
    BY <1>4, <1>9
  <2>2. d = IF closed.raw = <<>> THEN Finish_Value(closed) ELSE closed
    BY <1>5, <1>9
  <2>3. q \in Seq(Skips) /\ Len(q) = m - 1
    <3>1. m >= 0 /\ m - 1 <= m /\ m - 1 \in Nat
      BY <1>3
    <3>. QED
      BY <1>3, <3>1, SubSeqProperties
  <2>4. closed.raw = q
    BY <1>3 DEF Readers
  <2>5. CASE m = 1
    <3>1. q = <<>>
      BY <2>3, <2>5, EmptySeq
    <3>2. ~Waiting(r)
      BY <1>4, <2>1, <2>5 DEF Waiting
    <3>3. d = Finish_Value([r EXCEPT !.raw = <<>>])
      BY <2>2, <2>4, <3>1
    <3>4. Served(Finish_Value([r EXCEPT !.raw = <<>>]), late)
      BY <1>1, <1>2, <2>5, <3>2, SkippedServes
    <3>. QED
      BY <3>3, <3>4 DEF d
  <2>6. CASE m # 1
    <3>1. q # <<>>
      <4>1. m - 1 # 0
        BY <1>3, <2>6
      <4>. QED
        BY <2>3, <4>1, EmptySeq
    <3>2. d = closed
      BY <2>2, <2>4, <3>1
    <3>3. o # <<>> /\ o[Len(o)] = RawEntry(f) /\ Stands(r.read, o)
      BY <1>2, <1>6, <2>6
    <3>4. ~Pending(o[Len(o)])
      BY <1>9, <2>1, <3>3 DEF RawEntry, Pending, Grammar!Definite
    <3>5. Served(closed, late)
      BY <1>1, <1>2, <2>6, <3>3, <3>4, DropServes
    <3>. QED
      BY <3>2, <3>5 DEF d
  <2>. QED
    BY <2>5, <2>6
<1>. QED
  BY <1>4, <1>7, <1>8, <1>9

-----------------------------------------------------------------------------
(* Every call. *)

\* Every handler serves, or finishing starves on a source not yet shown to its end.
LEMMA EventServes ==
  ASSUME NEW r, NEW late, Live(r), Sound(r, late), r.raw = <<>>, NEW c \in Calls
  PROVE  Served(Event(r, c), late) \/ (Event(r, c).error = Starved /\ ~late)
<1>. DEFINE Done == Served(Event(r, c), late) \/ (Event(r, c).error = Starved /\ ~late)
<1>1. CASE c \in [op : {"Peek_Kind", "Read_Null", "Read_Unsigned", "Read_Signed", "Skip_Value"}]
  <2>1. CASE c.op = "Peek_Kind"
    BY <2>1, ReadScalars DEF Event
  <2>2. CASE c.op = "Read_Null"
    BY <2>2, ReadScalars DEF Event
  <2>3. CASE c.op = "Read_Unsigned"
    BY <2>3, ReadScalars DEF Event
  <2>4. CASE c.op = "Read_Signed"
    BY <2>4, ReadScalars DEF Event
  <2>5. CASE c.op = "Skip_Value"
    BY <2>5, SkipValueServes DEF Event
  <2>. QED
    BY <1>1, <2>1, <2>2, <2>3, <2>4, <2>5
<1>2. CASE c \in [op : {"Begin_Optional", "Begin_Sequence", "Begin_Map", "Begin_Record"}]
  <2>1. CASE c.op = "Begin_Optional"
    BY <2>1, BeginOptionalServes DEF Event
  <2>2. CASE c.op = "Begin_Sequence"
    BY <2>2, BeginContainers DEF Event
  <2>3. CASE c.op = "Begin_Map"
    BY <2>3, BeginContainers DEF Event
  <2>4. CASE c.op = "Begin_Record"
    BY <2>4, BeginContainers DEF Event
  <2>. QED
    BY <1>2, <2>1, <2>2, <2>3, <2>4
<1>3. CASE c \in [op : {"Next_Element", "Next_Map_Entry"}]
  <2>1. CASE c.op = "Next_Element"
    BY <2>1, NextServes DEF Event
  <2>2. CASE c.op = "Next_Map_Entry"
    BY <2>2, NextServes DEF Event
  <2>. QED
    BY <1>3, <2>1, <2>2
<1>4. CASE c \in [op : {"End_Optional", "End_Sequence", "End_Map", "End_Record", "End_Variant"}]
  <2>1. CASE c.op = "End_Optional"
    BY <2>1, EndsServe DEF Event
  <2>2. CASE c.op = "End_Sequence"
    BY <2>2, EndsServe DEF Event
  <2>3. CASE c.op = "End_Map"
    BY <2>3, EndsServe DEF Event
  <2>4. CASE c.op = "End_Record"
    BY <2>4, EndsServe DEF Event
  <2>5. CASE c.op = "End_Variant"
    BY <2>5, EndsServe DEF Event
  <2>. QED
    BY <1>4, <2>1, <2>2, <2>3, <2>4, <2>5
<1>5. CASE c.op = "Finish_Document"
  BY <1>5, DocumentServes DEF Event
<1>6. CASE c \in [op : {"Read_Text", "Next_Field", "Begin_Variant"}, fits : BOOLEAN]
  <2>0. c.fits \in BOOLEAN
    BY <1>6
  <2>1. CASE c.op = "Read_Text"
    BY <2>0, <2>1, ReadScalars DEF Event
  <2>2. CASE c.op = "Next_Field"
    BY <2>0, <2>2, NextServes DEF Event
  <2>3. CASE c.op = "Begin_Variant"
    BY <2>0, <2>3, BeginVariantServes DEF Event
  <2>. QED
    BY <1>6, <2>1, <2>2, <2>3
<1>. QED
  BY <1>1, <1>2, <1>3, <1>4, <1>5, <1>6 DEF Calls

\* A call that may not run changes nothing else.
LEMMA Halted ==
  ASSUME NEW r, Latched(Require_Ready(r)), NEW c \in Calls
  PROVE  Event(r, c) = Require_Ready(r)
<1>. DEFINE z == Require_Ready(r)
<1>1. Latched(z)
  OBVIOUS
<1>2. /\ \A b, e : Unless(z, b, e) = z
      /\ Inspect_Head(z) = z /\ Inspect_Surface_Head(z) = z /\ Require_Child_Start(z) = z
      /\ Advance(z) = z /\ Charge_Value(z) = z /\ Started(z) = z /\ Prepare_Value(z) = z
      /\ Take_Value(z) = z
      /\ \A f : Push(z, f) = z
      /\ \A f : Scan_Text(z, f) = z
  BY <1>1, Passes
<1>3. Check_Value_Ready(r) = z
  BY <1>2 DEF Check_Value_Ready
<1>4. \A b, e : Unless(Inspect_Surface_Head(Check_Value_Ready(r)), b, e) = z
  BY <1>2, <1>3
<1>5. Prepare_Value(r) = z
  BY <1>2, <1>3 DEF Prepare_Value
<1>. HIDE DEF z
<1>6. /\ Peek_Kind(r) = z /\ Read_Null(r) = z /\ Read_Unsigned(r) = z /\ Read_Signed(r) = z
      /\ Skip_Value(r) = z /\ \A f : Read_Text(r, f) = z
  BY <1>1, <1>2, <1>3, <1>4, <1>5
     DEF Peek_Kind, Read_Null, Read_Unsigned, Read_Signed, Skip_Value, Read_Text, Require_Kind
<1>7. Begin_Sequence(r) = z /\ Begin_Map(r) = z /\ Begin_Record(r) = z
  BY <1>2, <1>4 DEF Begin_Sequence, Begin_Map, Begin_Record, Begin_Container, Require_Kind
<1>8. Begin_Optional(r) = z /\ \A f : Begin_Variant(r, f) = z
  <2>1. \A counts : Envelope(r, counts) = z
    BY <1>2, <1>4 DEF Envelope, Require_Kind
  <2>2. \A counts : Advance(Prepare_Value(Envelope(r, counts))) = z
    BY <1>2, <2>1
  <2>3. \A e : /\ Refuse_Inner(z, e, IsMarker) = z /\ Refuse_Inner(z, e, IsText) = z
               /\ Refuse_Inner(z, e, IsMap) = z
    BY <1>2 DEF Refuse_Inner
  <2>4. \A e : Take_Marker(z, e) = z /\ Take_Head(z, e) = z
    BY <1>1, <1>2 DEF Take_Marker, Take_Head
  <2>5. Begin_Optional(r) = z
    BY <2>2, <2>3, <2>4 DEF Begin_Optional
  <2>6. \A f : Begin_Variant(r, f) = z
    BY <1>2, <2>2, <2>3, <2>4 DEF Begin_Variant
  <2>. QED
    BY <2>5, <2>6
<1>9. /\ Next_Element(r) = z /\ Next_Map_Entry(r) = z /\ \A f : Next_Field(r, f) = z
  BY <1>1, <1>2 DEF Next_Element, Next_Map_Entry, Next_Field, Next_Child, z
<1>10. /\ End_Optional(r) = z /\ End_Sequence(r) = z /\ End_Map(r) = z /\ End_Record(r) = z
       /\ End_Variant(r) = z
  BY <1>1, <1>2 DEF End_Optional, End_Sequence, End_Map, End_Record, End_Variant, End_Item, z
<1>11. Finish_Document(r) = z
  BY <1>1, <1>2 DEF Finish_Document, z
<1>12. c.op \in {"Peek_Kind", "Read_Null", "Read_Unsigned", "Read_Signed", "Read_Text", "Skip_Value"}
         => Event(r, c) = z
  BY <1>6 DEF Event
<1>13. c.op \in {"Begin_Optional", "Begin_Sequence", "Begin_Map", "Begin_Record", "Begin_Variant"}
         => Event(r, c) = z
  BY <1>7, <1>8 DEF Event
<1>14. c.op \in {"Next_Element", "Next_Map_Entry", "Next_Field", "Finish_Document"}
         => Event(r, c) = z
  BY <1>9, <1>11 DEF Event
<1>15. c.op \in {"End_Optional", "End_Sequence", "End_Map", "End_Record", "End_Variant"}
         => Event(r, c) = z
  BY <1>10 DEF Event
<1>. QED
  BY <1>12, <1>13, <1>14, <1>15 DEF Calls, z

-----------------------------------------------------------------------------
(* The steps of the client. *)

\* A reader that failed refuses the call.
LEMMA DeadStays ==
  ASSUME NEW r, Dead(r), ~Latched(r), NEW c \in Calls
  PROVE  /\ Dead(Event(r, c)) /\ Event(r, c).error = "Invalid_State"
         /\ Latched(Event(r, c))
<1>. DEFINE u == [r EXCEPT !.error = "Invalid_State", !.scopes = <<>>, !.failed = TRUE]
<1>1. r \in Readers /\ r.failed /\ r.scopes = <<>> /\ r.error = NoError /\ <<>> \in Seq(Nat)
  BY DEF Dead, Bounded, Latched
<1>2. Require_Ready(r) = u
  <2>1. LatchCode(r, "Invalid_State") = [r EXCEPT !.error = "Invalid_State"]
    BY DEF LatchCode
  <2>2. Latched([r EXCEPT !.error = "Invalid_State"])
    BY <1>1 DEF Latched, NoError, Readers
  <2>3. Fail(r, "Invalid_State") =
          [[[r EXCEPT !.error = "Invalid_State"] EXCEPT !.scopes = <<>>] EXCEPT !.failed = TRUE]
    BY <2>1, <2>2 DEF Fail, Latch, Unwind
  <2>4. Fail(r, "Invalid_State") = u
    BY <1>1, <2>3 DEF Readers
  <2>. QED
    BY <1>1, <2>4 DEF Require_Ready, Unless
<1>3. /\ u \in Readers /\ u.failed = TRUE /\ u.error = "Invalid_State" /\ u.scopes = <<>>
      /\ u.values = r.values /\ u.input = r.input /\ u.raw = r.raw /\ u.ahead = r.ahead
  <2>1. "Invalid_State" \in Errors
    BY DEF Codes, Errors
  <2>. QED
    BY ONLY <1>1, <2>1 DEF Readers
<1>. HIDE DEF u
<1>4. Dead(u)
  BY <1>1, <1>3 DEF Dead, Bounded
<1>5. Latched(u)
  BY <1>3 DEF Latched, NoError
<1>6. Event(r, c) = u
  BY <1>2, <1>5, Halted
<1>. QED
  BY <1>3, <1>4, <1>5, <1>6

\* The reader once the handler has run: an operation that failed skips nothing more.
LEMMA Unraw ==
  ASSUME NEW t \in Readers
  PROVE  LET u == [t EXCEPT !.raw = IF Latched(t) THEN <<>> ELSE @] IN
         /\ (Latched(t) => t.raw = <<>>) => u = t
         /\ u \in Readers /\ u.failed = t.failed /\ u.error = t.error /\ u.scopes = t.scopes
         /\ u.values = t.values /\ u.input = t.input /\ u.ahead = t.ahead /\ u.read = t.read
         /\ Latched(t) => u.raw = <<>>
<1>. DEFINE k == IF Latched(t) THEN <<>> ELSE t.raw
            u == [t EXCEPT !.raw = k]
<1>1. u = [t EXCEPT !.raw = IF Latched(t) THEN <<>> ELSE @]
  BY DEF Readers
<1>2. k \in Seq(Skips)
  BY DEF Readers
<1>3. (Latched(t) => t.raw = <<>>) => k = t.raw
  OBVIOUS
<1>4. Latched(t) => k = <<>>
  OBVIOUS
<1>. HIDE DEF k
<1>5. /\ u \in Readers /\ u.failed = t.failed /\ u.error = t.error /\ u.scopes = t.scopes
      /\ u.values = t.values /\ u.input = t.input /\ u.ahead = t.ahead /\ u.read = t.read
      /\ u.raw = k
  BY <1>2 DEF Readers
<1>6. k = t.raw => u = t
  BY DEF Readers
<1>. HIDE DEF u
<1>. QED
  BY <1>1, <1>3, <1>4, <1>5, <1>6

\* A call of the client, or a step of a skip, keeps the invariant, and fails with a
\* Syntax_Error only on a malformed source.
LEMMA RunKeeps ==
  ASSUME NEW r, NEW c, Run(r, c), Live(r) \/ Dead(r), r.error # Starved,
         r.raw # <<>> => ~Latched(r),
         IF r.raw = <<>> THEN c \in Calls ELSE c = [op |-> "Skip_Step"]
  PROVE  /\ Kept(reader', call')
         /\ r.error # "Syntax_Error" /\ reader'.error = "Syntax_Error" => Malformed(reader')
<1>. DEFINE t == Event(r, c)
            u == [t EXCEPT !.raw = IF Latched(t) THEN <<>> ELSE @]
<1>1. \/ t.error = Starved /\ reader' = r /\ call' = c
      \/ t.error # Starved /\ reader' = u /\ call' = NoCall
  BY DEF Run
<1>2. \A x : Waits(x, NoCall)
  BY DEF Waits
<1>3. r \in Readers /\ (Dead(r) => r.raw = <<>>)
  BY DEF Live, Dead, Bounded
<1>4. CASE Latched(r)
  <2>1. r.raw = <<>> /\ c \in Calls
    BY <1>4
  <2>2. Require_Ready(r) = r
    BY <1>4, Passes
  <2>3. t = r
    BY <1>4, <2>1, <2>2, Halted
  <2>4. u = r
    <3>1. [r EXCEPT !.raw = IF Latched(r) THEN <<>> ELSE @] = r
      BY <1>3, <2>1, Unraw
    <3>. QED
      BY <2>3, <3>1
  <2>. HIDE DEF t, u
  <2>. QED
    BY <1>1, <1>2, <2>1, <2>3, <2>4 DEF Kept
<1>5. CASE ~Latched(r) /\ Dead(r)
  <2>1. Dead(t) /\ t.error = "Invalid_State" /\ Latched(t)
    BY <1>3, <1>5, DeadStays
  <2>2. t \in Readers /\ t.raw = <<>>
    BY <2>1 DEF Dead, Bounded
  <2>. HIDE DEF t
  <2>3. u = t
    BY <2>2, Unraw
  <2>. HIDE DEF u
  <2>4. t.error # Starved /\ t.error # "Syntax_Error"
    BY <2>1 DEF Starved
  <2>. QED
    BY <1>1, <1>2, <2>1, <2>2, <2>3, <2>4 DEF Kept
<1>6. CASE ~Latched(r) /\ Live(r)
  <2>. DEFINE late == Ended(r)
  <2>1. Sound(r, late)
    BY <1>6 DEF Live, Sound
  <2>2. Served(t, late) \/ (t.error = Starved /\ ~late)
    <3>1. CASE r.raw = <<>>
      BY <1>6, <2>1, <3>1, EventServes
    <3>2. CASE r.raw # <<>>
      <4>1. t = Skip_Step(r)
        BY <3>2 DEF Event
      <4>. HIDE DEF t, late
      <4>. QED
        BY <1>6, <2>1, <3>2, <4>1, SkipStepServes
    <3>. QED
      BY <3>1, <3>2
  <2>. HIDE DEF t
  <2>3. CASE t.error = Starved
    <3>1. ~late
      <4>1. Sound(t, late) => t.error = NoError
        BY DEF Sound, Latched
      <4>2. NoError # Starved
        BY DEF NoError, Starved
      <4>. HIDE DEF late
      <4>. QED
        BY <2>2, <2>3, <4>1, <4>2 DEF Served, Refused
    <3>2. reader' = r /\ call' = c
      BY <1>1, <2>3
    <3>3. Waits(r, c)
      BY <1>6, <3>1 DEF Waits, Live
    <3>. QED
      BY <1>6, <3>2, <3>3 DEF Kept
  <2>4. CASE t.error # Starved /\ Refused(t, late)
    <3>1. t \in Readers /\ Latched(t)
      BY <2>4 DEF Refused, Bounded
    <3>2. /\ u \in Readers /\ u.failed = t.failed /\ u.error = t.error /\ u.scopes = t.scopes
          /\ u.values = t.values /\ u.input = t.input /\ u.ahead = t.ahead /\ u.read = t.read
          /\ u.raw = <<>>
      BY <3>1, Unraw
    <3>. HIDE DEF u, late
    <3>3. Dead(u)
      BY <2>4, <3>2 DEF Refused, Dead, Bounded
    <3>4. u.error = "Syntax_Error" => Malformed(u)
      BY <2>4, <3>2 DEF Refused, Malformed, Next_Token
    <3>. QED
      BY <1>1, <1>2, <2>4, <3>2, <3>3, <3>4 DEF Kept
  <2>5. CASE t.error # Starved /\ Live(t) /\ Sound(t, late)
    <3>1. t \in Readers /\ ~Latched(t) /\ t.error = NoError
      BY <2>5 DEF Sound, Bounded, Latched
    <3>2. u = t
      BY <3>1, Unraw
    <3>. HIDE DEF u
    <3>3. NoError # "Syntax_Error"
      BY DEF NoError
    <3>. QED
      BY <1>1, <1>2, <2>5, <3>1, <3>2, <3>3 DEF Kept
  <2>. HIDE DEF u, late
  <2>. QED
    BY <2>2, <2>3, <2>4, <2>5 DEF Served
<1>. QED
  BY <1>4, <1>5, <1>6

\* The source shows a token to a reader that waits for one.
LEMMA Supplied ==
  ASSUME NEW r, Live(r), ~Ended(r), NEW token \in Tokens
  PROVE  LET s == [r EXCEPT !.ahead = Append(@, token)] IN
         Live(s) /\ s.error = r.error /\ s.raw = r.raw
<1>. DEFINE q == Append(r.ahead, token)
            s == [r EXCEPT !.ahead = q]
            n == Len(r.ahead)
<1>1. r \in Readers /\ r.ahead \in Seq(Tokens) /\ n \in Nat /\ (r.ahead = <<>> <=> n = 0)
  BY ReaderIs DEF Live, Bounded
<1>2. s = [r EXCEPT !.ahead = Append(@, token)]
  BY <1>1 DEF Readers
<1>3. /\ q \in Seq(Tokens) /\ Len(q) = n + 1 /\ (\A i \in 1..n : q[i] = r.ahead[i])
  BY <1>1, AppendProperties
<1>. HIDE DEF q
<1>4. /\ s \in Readers /\ s.root = r.root /\ s.failed = r.failed /\ s.complete = r.complete
      /\ s.error = r.error /\ s.scopes = r.scopes /\ s.values = r.values
      /\ s.input = r.input /\ s.raw = r.raw /\ s.ahead = q /\ s.read = r.read
      /\ s.stack = r.stack
  BY ONLY <1>1, <1>3 DEF Readers
<1>. HIDE DEF s
<1>5. \A i \in 1..Len(s.ahead) : i < Len(s.ahead) => s.ahead[i].head # "end"
  <2>1. \A i \in 1..n : r.ahead[i].head # "end"
    BY DEF Ended
  <2>2. \A i \in 1..(n + 1) : i < n + 1 => i \in 1..n
    BY <1>1
  <2>. QED
    BY <1>3, <1>4, <2>1, <2>2
<1>6. Bounded(s)
  BY <1>4, <1>5 DEF Live, Bounded
<1>7. r.ahead # <<>> => s.ahead # <<>> /\ Next_Token(s) = Next_Token(r)
  <2>1. r.ahead # <<>> => 1 \in 1..n /\ n + 1 # 0
    BY <1>1
  <2>2. r.ahead # <<>> => s.ahead # <<>>
    BY <1>1, <1>3, <1>4, <2>1, EmptySeq
  <2>3. r.ahead # <<>> => Next_Token(r) = r.ahead[1]
    BY <1>1, NextIs
  <2>4. s.ahead # <<>> => Next_Token(s) = s.ahead[1]
    BY <1>4, NextIs
  <2>. QED
    BY <1>3, <1>4, <2>1, <2>2, <2>3, <2>4
<1>8. (NextIsItem(r) => NextIsItem(s)) /\ (NextIsBreak(r) => NextIsBreak(s))
  BY <1>7 DEF NextIsItem, NextIsBreak
<1>9. Foreseen(s)
  BY <1>4, <1>8 DEF Live, Foreseen, Waiting, Top
<1>10. ~r.complete
  <2>1. <<EndToken>>[1].head = "end" /\ Len(<<EndToken>>) = 1
    BY DEF EndToken
  <2>2. r.ahead = <<EndToken>> => Ended(r)
    BY <2>1 DEF Ended
  <2>. QED
    BY <2>2 DEF Live, Rooted
<1>11. Rooted(s) /\ Charged_As(s)
  BY <1>4, <1>10 DEF Live, Rooted, Charged_As
<1>12. r.raw # <<>> => RawOK(s)
  BY <1>4 DEF Live, RawOK, Waiting, Top
<1>13. \A o : Read_Right(r, o) => Read_Right(s, o)
  BY <1>4 DEF Read_Right, OwesRaw, Waiting
<1>14. \A i \in 1..Len(s.stack) : FrameOK(s.stack[i])
  BY <1>4 DEF Live
<1>15. \E o \in Seq(Entries) : Read_Right(s, o)
  BY <1>13 DEF Live
<1>16. Live(s)
  BY <1>4, <1>6, <1>9, <1>11, <1>12, <1>14, <1>15 DEF Live
<1>. QED
  BY <1>2, <1>4, <1>16

\* Abort_Document leaves a dead reader with the error it had.
LEMMA AbortIs ==
  ASSUME NEW r, Live(r) \/ Dead(r), r.raw = <<>>
  PROVE  Dead(Abort_Document(r)) /\ Abort_Document(r).error = r.error
<1>. DEFINE u == [r EXCEPT !.scopes = <<>>, !.stack = <<>>, !.failed = TRUE, !.complete = FALSE]
<1>1. r \in Readers /\ <<>> \in Seq(Nat) /\ <<>> \in Seq(Frames)
  BY DEF Live, Dead, Bounded
<1>2. Abort_Document(r) = u
  <2>1. CASE Latched(r)
    BY <1>1, <2>1 DEF Abort_Document, Latch, Unwind, Readers
  <2>2. CASE ~Latched(r)
    BY <1>1, <2>2 DEF Abort_Document, Latch, Unwind, Readers
  <2>. QED
    BY <2>1, <2>2
<1>3. /\ u \in Readers /\ u.failed = TRUE /\ u.error = r.error /\ u.scopes = <<>>
      /\ u.values = r.values /\ u.input = r.input /\ u.raw = r.raw /\ u.ahead = r.ahead
  BY ONLY <1>1 DEF Readers
<1>. HIDE DEF u
<1>4. Dead(u)
  <2>1. Len(u.scopes) <= DecodeLimits.nesting /\ \A i \in 1..Len(u.scopes) : FALSE
    <3>1. Len(<<>>) = 0 /\ (\A i \in 1..0 : FALSE) /\ 0 <= DecodeLimits.nesting
      BY DecodeLimitsAssumption
    <3>. QED
      BY <1>3, <3>1
  <2>. QED
    BY <1>3, <2>1 DEF Live, Dead, Bounded
<1>. QED
  BY <1>2, <1>3, <1>4

\* A fresh reader.
LEMMA FreshIs ==
  ASSUME NEW e \in Errors
  PROVE  /\ Live([Fresh EXCEPT !.error = e]) /\ [Fresh EXCEPT !.error = e].error = e
         /\ [Fresh EXCEPT !.error = e].raw = <<>>
         /\ Fresh = [Fresh EXCEPT !.error = NoError]
<1>. DEFINE u == [Fresh EXCEPT !.error = e]
<1>1. Grammar!Start \in Decoders
  <2>1. <<>> \in Seq(Entries)
    OBVIOUS
  <2>. QED
    BY <2>1 DEF Grammar!Start, Decoders
<1>2. /\ <<>> \in Seq(Frames) /\ <<>> \in Seq(Nat) /\ <<>> \in Seq(Skips) /\ <<>> \in Seq(Tokens)
      /\ <<>> \in Seq(Entries) /\ Len(<<>>) = 0
  OBVIOUS
<1>3. Fresh \in Readers
  BY <1>1, <1>2 DEF Fresh, Readers, Errors
<1>4. /\ Fresh.stack = <<>> /\ Fresh.root = "ready" /\ Fresh.failed = FALSE /\ Fresh.complete = FALSE
      /\ Fresh.error = NoError /\ Fresh.scopes = <<>> /\ Fresh.values = 0 /\ Fresh.input = 0
      /\ Fresh.raw = <<>> /\ Fresh.ahead = <<>> /\ Fresh.read = Grammar!Start
  BY DEF Fresh
<1>5. /\ u \in Readers /\ u.stack = <<>> /\ u.root = "ready" /\ u.failed = FALSE
      /\ u.complete = FALSE /\ u.error = e /\ u.scopes = <<>> /\ u.values = 0 /\ u.input = 0
      /\ u.raw = <<>> /\ u.ahead = <<>> /\ u.read = Grammar!Start
  BY ONLY <1>3, <1>4, e \in Errors DEF Readers
<1>6. Fresh = [Fresh EXCEPT !.error = NoError]
  BY <1>3, <1>4 DEF Readers
<1>. HIDE DEF u
<1>7. Bounded(u)
  <2>1. 0 <= DecodeLimits.values /\ 0 <= DecodeLimits.input /\ 0 <= DecodeLimits.nesting
    BY DecodeLimitsAssumption
  <2>2. \A i \in 1..0 : FALSE
    OBVIOUS
  <2>. QED
    BY <1>2, <1>5, <2>1, <2>2 DEF Bounded
<1>8. Charged_As(u) /\ Rooted(u) /\ Foreseen(u) /\ \A i \in 1..Len(u.stack) : FrameOK(u.stack[i])
  BY <1>2, <1>5 DEF Charged_As, Rooted, Foreseen
<1>9. Read_Right(u, <<>>)
  <2>1. Owes(u.stack, <<>>)
    <3>1. \A i \in 1..Len(u.stack) : FALSE
      BY <1>2, <1>5
    <3>2. Len(<<>>) = 2 * Len(u.stack)
      BY <1>2, <1>5
    <3>. QED
      BY <3>1, <3>2 DEF Owes
  <2>. QED
    BY <1>5, <2>1 DEF Read_Right, Takes
<1>10. Live(u)
  BY <1>2, <1>5, <1>7, <1>8, <1>9 DEF Live
<1>. QED
  BY <1>5, <1>6, <1>10 DEF u

\* The caller's error is none of the reader's.
LEMMA ErrorSet ==
  ASSUME NEW r, Live(r) \/ Dead(r), r.raw = <<>>, NEW e \in Errors
  PROVE  LET u == [r EXCEPT !.error = e] IN
         (Live(u) \/ Dead(u)) /\ u.error = e /\ u.raw = <<>>
<1>. DEFINE u == [r EXCEPT !.error = e]
<1>1. r \in Readers
  BY DEF Live, Dead, Bounded
<1>2. /\ u \in Readers /\ u.root = r.root /\ u.failed = r.failed /\ u.complete = r.complete
      /\ u.error = e /\ u.scopes = r.scopes /\ u.values = r.values
      /\ u.input = r.input /\ u.raw = r.raw /\ u.ahead = r.ahead /\ u.read = r.read
      /\ u.stack = r.stack
  BY <1>1 DEF Readers
<1>. HIDE DEF u
<1>3. Bounded(u)
  BY <1>2 DEF Live, Dead, Bounded
<1>4. CASE Dead(r)
  BY <1>2, <1>3, <1>4 DEF Dead, u
<1>5. CASE Live(r)
  <2>1. Charged_As(u) /\ Rooted(u)
    BY <1>2, <1>5 DEF Live, Charged_As, Rooted
  <2>2. Foreseen(u)
    BY <1>2, <1>5 DEF Live, Foreseen, NextIsItem, NextIsBreak, Next_Token, Top
  <2>3. \A o : Read_Right(r, o) => Read_Right(u, o)
    BY <1>2 DEF Read_Right
  <2>4. Live(u)
    BY <1>2, <1>3, <1>5, <2>1, <2>2, <2>3 DEF Live
  <2>. QED
    BY <1>2, <2>4 DEF u
<1>. QED
  BY <1>4, <1>5

-----------------------------------------------------------------------------
(* The theorems. *)

\* The invariant holds at the start.
LEMMA InvInit == Init => IInv
<1>. SUFFICES ASSUME Init PROVE Kept(reader, call)
  BY DEF IInv
<1>1. reader = Fresh /\ call = NoCall
  BY DEF Init
<1>2. Live(Fresh) /\ Fresh.error = NoError /\ Fresh.raw = <<>>
  <2>1. NoError \in Errors
    BY DEF Errors
  <2>. QED
    BY <2>1, FreshIs
<1>3. Waits(reader, NoCall)
  BY DEF Waits
<1>. QED
  BY <1>1, <1>2, <1>3 DEF Kept, NoError, Starved

\* Every step keeps the invariant, and says Syntax_Error only of a malformed document.
LEMMA StepKeeps ==
  ASSUME IInv, [Next]_vars
  PROVE  /\ IInv'
         /\ reader.error # "Syntax_Error" /\ reader'.error = "Syntax_Error" => Malformed(reader')
<1>. DEFINE Done == /\ Kept(reader', call')
                    /\ reader.error # "Syntax_Error" /\ reader'.error = "Syntax_Error"
                         => Malformed(reader')
<1>0. /\ Live(reader) \/ Dead(reader)
      /\ reader.error # Starved
      /\ reader.raw # <<>> => ~Latched(reader)
      /\ Waits(reader, call)
      /\ reader.error \in Errors
  BY DEF IInv, Kept, Live, Dead, Bounded, Readers
<1>1. \A x : Waits(x, NoCall)
  BY DEF Waits
<1>2. ASSUME Start
      PROVE  Done
  <2>1. PICK c \in Calls : Run(reader, c)
    BY <1>2 DEF Start
  <2>2. reader.raw = <<>>
    BY <1>2 DEF Start
  <2>. QED
    BY <1>0, <2>1, <2>2, RunKeeps
<1>3. ASSUME Skip
      PROVE  Done
  <2>1. reader.raw # <<>> /\ Run(reader, [op |-> "Skip_Step"])
    BY <1>3 DEF Skip
  <2>. QED
    BY <1>0, <2>1, RunKeeps
<1>4. ASSUME Supply
      PROVE  Done
  <2>1. PICK token \in Tokens : Run([reader EXCEPT !.ahead = Append(@, token)], call)
    BY <1>4 DEF Supply
  <2>2. /\ ~Latched(reader) /\ ~reader.failed /\ ~Ended(reader)
        /\ IF reader.raw = <<>> THEN call \in Calls ELSE call = [op |-> "Skip_Step"]
    BY <1>0, <1>4 DEF Supply, Waits
  <2>3. Live(reader)
    BY <1>0, <2>2 DEF Dead
  <2>. DEFINE s == [reader EXCEPT !.ahead = Append(@, token)]
  <2>4. Live(s) /\ s.error = reader.error /\ s.raw = reader.raw
    BY <2>2, <2>3, Supplied
  <2>. HIDE DEF s
  <2>5. Latched(s) <=> Latched(reader)
    BY <2>4 DEF Latched
  <2>6. Run(s, call)
    BY <2>1 DEF s
  <2>7. /\ Kept(reader', call')
        /\ s.error # "Syntax_Error" /\ reader'.error = "Syntax_Error" => Malformed(reader')
    BY <1>0, <2>2, <2>4, <2>5, <2>6, RunKeeps
  <2>. QED
    BY <2>4, <2>7
<1>5. ASSUME Abort
      PROVE  Done
  <2>1. reader.raw = <<>> /\ reader' = Abort_Document(reader) /\ call' = NoCall
    BY <1>5 DEF Abort, Between
  <2>2. Dead(reader') /\ reader'.error = reader.error
    BY <1>0, <2>1, AbortIs
  <2>. QED
    BY <1>0, <1>1, <2>1, <2>2 DEF Kept, Dead
<1>6. ASSUME Reset
      PROVE  Done
  <2>1. reader' = [Fresh EXCEPT !.error = reader.error] /\ call' = NoCall
    BY <1>6 DEF Reset, Between
  <2>2. Live(reader') /\ reader'.error = reader.error /\ reader'.raw = <<>>
    BY <1>0, <2>1, FreshIs
  <2>. QED
    BY <1>0, <1>1, <2>1, <2>2 DEF Kept
<1>7. ASSUME NEW e \in {NoError, "Application_Error"}, SetError(e)
      PROVE  Done
  <2>1. reader.raw = <<>> /\ reader' = [reader EXCEPT !.error = e] /\ call' = NoCall
    BY <1>7 DEF SetError, Between
  <2>2. e \in Errors /\ e # Starved /\ e # "Syntax_Error"
    BY DEF Codes, Errors, NoError, Starved
  <2>3. (Live(reader') \/ Dead(reader')) /\ reader'.error = e /\ reader'.raw = <<>>
    BY <1>0, <2>1, <2>2, ErrorSet
  <2>. QED
    BY <1>1, <2>1, <2>2, <2>3 DEF Kept
<1>8. ASSUME UNCHANGED vars
      PROVE  Done
  BY <1>0, <1>8 DEF vars, Kept
<1>9. Done
  BY <1>2, <1>3, <1>4, <1>5, <1>6, <1>7, <1>8 DEF Next
<1>. QED
  BY <1>9 DEF IInv

\* The invariant holds in every reachable state.
LEMMA Invariance == Spec => []IInv
<1>1. IInv /\ [Next]_vars => IInv'
  BY StepKeeps
<1>. QED
  BY <1>1, InvInit, PTL DEF Spec

\* The invariant gives the budget's: what Live and Dead say of the scopes, and of the value
\* that is skipped, whose containers have scopes too.
LEMMA BudgetIs == IInv => BudgetTracksStack
<1>. SUFFICES ASSUME IInv PROVE BudgetTracksStack
  OBVIOUS
<1>0. Live(reader) \/ Dead(reader)
  BY DEF IInv, Kept
<1>1. Bounded(reader) /\ reader \in Readers
  BY <1>0 DEF Live, Dead, Bounded
<1>2. /\ DOMAIN reader.scopes = 1..Len(reader.scopes)
      /\ DOMAIN reader.stack = 1..Len(reader.stack)
      /\ Len(reader.scopes) \in Nat /\ DecodeLimits.nesting \in Nat
      /\ (reader.raw = <<>> => Len(reader.raw) = 0)
  BY <1>1, ReaderIs, LenProperties, DecodeLimitsAssumption
<1>3. Len(reader.scopes) + Len(reader.raw) <= DecodeLimits.nesting + 1
  <2>1. CASE reader.raw = <<>>
    <3>1. Len(reader.scopes) <= DecodeLimits.nesting
      BY <1>1 DEF Bounded
    <3>. QED
      BY <1>2, <2>1, <3>1
  <2>2. CASE reader.raw # <<>>
    BY <1>0, <2>2 DEF Live, Dead, RawOK
  <2>. QED
    BY <2>1, <2>2
<1>4. WithinLimits
  BY <1>1, <1>2, <1>3 DEF WithinLimits, Bounded
<1>5. CASE Dead(reader)
  BY <1>4, <1>5 DEF Dead, BudgetTracksStack
<1>6. CASE Live(reader)
  BY <1>2, <1>4, <1>6 DEF Live, Charged_As, Charge, BudgetTracksStack
<1>. QED
  BY <1>0, <1>5, <1>6

\* Until it fails, the budget has one scope for each container of the reader, charged with
\* the children announced in it, and none once it failed; whatever calls led there, no
\* charge went past the decode limits.
THEOREM BudgetTracksStackHolds == Spec => []BudgetTracksStack
BY BudgetIs, Invariance, PTL

\* What an unfailed reader consumed, it consumed with the grammar; a complete root owes
\* nothing more.
LEMMA LiveReads ==
  ASSUME NEW r, Live(r)
  PROVE  ~r.read.bad /\ (r.root = "complete" => Grammar!Whole(r.read))
<1>1. PICK o \in Seq(Entries) : Read_Right(r, o)
  BY DEF Live
<1>2. r \in Readers /\ r.read \in Decoders
  BY DEF Live, Bounded, Readers
<1>3. Takes(r.read, o) \/ Stands(r.read, o)
  BY <1>1 DEF Read_Right
<1>4. ~r.read.bad
  BY <1>3 DEF Takes, Stands, Grammar!Start
<1>5. ASSUME r.root = "complete"
      PROVE  Grammar!Whole(r.read)
  <2>1. r.stack = <<>> /\ r.raw = <<>>
    BY <1>5 DEF Live, Rooted
  <2>2. Owes(r.stack, o) /\ Stands(r.read, o)
    BY <1>1, <1>5, <2>1 DEF Read_Right
  <2>3. o = <<>>
    BY <1>2, <2>1, <2>2, OwesIs, ReaderIs
  <2>. QED
    BY <1>2, <2>2, <2>3, NothingOwed
<1>. QED
  BY <1>4, <1>5

\* Whatever calls led there, what an unfailed reader consumed is the beginning of one
\* well-formed CBOR item, and its root is complete only when that item is.
THEOREM ConsumedIsWellFormedHolds == Spec => []ConsumedIsWellFormed
<1>1. IInv => ConsumedIsWellFormed
  BY LiveReads DEF IInv, Kept, Dead, ConsumedIsWellFormed
<1>. QED
  BY <1>1, Invariance, PTL

\* A document is complete only when exactly one item was consumed, up to the end.
THEOREM CompleteIsWholeHolds == Spec => []CompleteIsWhole
<1>1. IInv => CompleteIsWhole
  BY LiveReads DEF IInv, Kept, Dead, Live, Rooted, CompleteIsWhole
<1>. QED
  BY <1>1, Invariance, PTL

\* A Syntax_Error is never the fault of the calls: the source ended too early or went on too
\* long, or its next token cannot follow what was consumed.
THEOREM SyntaxErrorIsRealHolds == Spec => SyntaxErrorIsReal
<1>1. IInv /\ [Next]_vars =>
        [reader.error # "Syntax_Error" /\ reader'.error = "Syntax_Error" => Malformed(reader')]_vars
  BY StepKeeps
<1>. QED
  BY <1>1, Invariance, PTL DEF Spec, SyntaxErrorIsReal

=============================================================================
