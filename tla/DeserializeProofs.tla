--------------------------- MODULE DeserializeProofs ---------------------------
(***************************************************************************)
(* Proofs about Deserialize, which reads through the CBOR reader: it is    *)
(* transactional, what it publishes is what the document says, and it      *)
(* rejects only what the policy, or the caller, rejects.                   *)
(***************************************************************************)
EXTENDS CborReaderProofs, DeserializeRoot, FiniteSetTheorems, WellFoundedInduction

\* Of a call under way the reader is unlatched, and skips only when the call does; at the
\* commit it was read to the end.
RootKept ==
  /\ setup \in [record : Records, policy : Policies]
  /\ builder = [candidate |-> builder.candidate, published |-> builder.published]
  /\ Live(from) \/ Dead(from)
  /\ from.raw # <<>> <=> pc = "skipping"
  /\ pc # "idle" => ~Latched(from)
  /\ pc = "commit" => ~from.failed /\ from.complete

\* What the caller sees of a call.
Source == IF pc \in {"idle", "prepare", "begin"} THEN Status(from) ELSE "open"
Told == IF pc = "idle" THEN from.error ELSE NoError

\* How a call on the reader can end.
LEMMA Asked ==
  ASSUME NEW r, Live(r) \/ Dead(r), ~Latched(r), NEW t,
         IF r.raw = <<>> THEN \E c \in Calls : t = Event(r, c) ELSE t = Skip_Step(r)
  PROVE  /\ t.error # Starved => t.error \in Errors /\ t.error \in Codes \cup {NoError}
         /\ t.error = Starved => Live(r) /\ ~Ended(r)
         /\ ~Latched(t) => Live(t)
<1>1. Dead(r) => r.raw = <<>>
  BY DEF Dead
<1>2. CASE Dead(r)
  <2>1. PICK c \in Calls : t = Event(r, c)
    BY <1>1, <1>2
  <2>2. Latched(t) /\ t.error = "Invalid_State"
    BY <1>2, <2>1, DeadStays
  <2>. QED
    BY <2>2 DEF Errors, Codes, Starved
<1>3. CASE Live(r)
  <2>. DEFINE late == Ended(r)
  <2>1. Sound(r, late)
    BY <1>3 DEF Live, Sound
  <2>. HIDE DEF late
  <2>2. Served(t, late) \/ (t.error = Starved /\ ~late)
    <3>1. CASE r.raw = <<>>
      <4>1. PICK c \in Calls : t = Event(r, c)
        BY <3>1
      <4>. QED
        BY <1>3, <2>1, <3>1, <4>1, EventServes
    <3>2. CASE r.raw # <<>>
      BY <1>3, <2>1, <3>2, SkipStepServes
    <3>. QED
      BY <3>1, <3>2
  <2>3. t.error # Starved => t.error \in Errors
    BY <2>2 DEF Served, Refused, Sound, Bounded, Readers
  <2>6. t.error # Starved => t.error \in Codes \cup {NoError}
    <3>1. Sound(t, late) => t.error = NoError
      BY DEF Sound, Latched
    <3>2. Refused(t, late) => t.error \in Codes \cup {Starved}
      BY DEF Refused
    <3>. QED
      BY <2>2, <3>1, <3>2 DEF Served
  <2>4. t.error = Starved => ~late
    <3>1. Sound(t, late) => t.error = NoError
      BY DEF Sound, Latched
    <3>2. NoError # Starved
      BY DEF NoError, Starved
    <3>. QED
      BY <2>2, <3>1, <3>2 DEF Served, Refused
  <2>5. ~Latched(t) => Live(t)
    <3>1. Starved # NoError
      BY DEF NoError, Starved
    <3>. QED
      BY <2>2, <3>1 DEF Served, Refused, Latched
  <2>. QED
    BY <1>3, <2>3, <2>4, <2>5, <2>6 DEF late
<1>. QED
  BY <1>2, <1>3

\* The reader after a call that failed.
LEMMA AbortedIs ==
  ASSUME NEW e \in Errors
  PROVE  Dead(Aborted(e)) /\ Aborted(e).error = e /\ Aborted(e).failed /\ Aborted(e).raw = <<>>
<1>1. /\ Live([Fresh EXCEPT !.error = e]) /\ [Fresh EXCEPT !.error = e].error = e
      /\ [Fresh EXCEPT !.error = e].raw = <<>>
  BY FreshIs
<1>2. Dead(Aborted(e)) /\ Aborted(e).error = e
  BY <1>1, AbortIs DEF Aborted
<1>. QED
  BY <1>2 DEF Dead

\* A call that ends without a commit fails: with an error or with an exception.
LEMMA EndFails ==
  ASSUME RootKept, NEW r, NEW outcome \in BOOLEAN, End(r, outcome), r.error \in Errors,
         Told = NoError, outcome \/ r.error # NoError
  PROVE  RootKept' /\ Transaction!Fail
<1>1. /\ from' = Aborted(r.error) /\ builder' = Rollback_Candidate(builder)
      /\ pc' = "idle" /\ raised' = outcome /\ setup' = setup
  BY DEF End, Settled
<1>2. Dead(from') /\ from'.error = r.error /\ from'.failed /\ from'.raw = <<>>
  BY <1>1, AbortedIs
<1>3. /\ builder' = [candidate |-> builder'.candidate, published |-> builder'.published]
      /\ builder'.published = builder.published
  BY <1>1 DEF RootKept, Rollback_Candidate
<1>4. RootKept'
  BY <1>1, <1>2, <1>3 DEF RootKept
<1>5. Status(from') = "poisoned"
  BY <1>2 DEF Status
<1>6. Transaction!Fail
  BY <1>1, <1>2, <1>3, <1>5 DEF Transaction!Fail, Told
<1>. QED
  BY <1>4, <1>6

\* Inside a call the caller sees nothing.
LEMMA WithinCall ==
  ASSUME RootKept, NEW next, NEW candidate, Continue(next, candidate),
         next # "idle", Told = NoError,
         (IF next \in {"prepare", "begin"} THEN Status(from') ELSE "open") = Source,
         Live(from') \/ Dead(from'), ~Latched(from'), from'.raw # <<>> <=> next = "skipping",
         next = "commit" => ~from'.failed /\ from'.complete
  PROVE  RootKept' /\ UNCHANGED Transaction!vars
<1>1. /\ pc' = next /\ builder' = [builder EXCEPT !.candidate = candidate]
      /\ setup' = setup /\ raised' = raised
  BY DEF Continue
<1>2. /\ builder' = [candidate |-> builder'.candidate, published |-> builder'.published]
      /\ builder'.published = builder.published
  BY <1>1 DEF RootKept
<1>3. RootKept'
  BY <1>1, <1>2 DEF RootKept
<1>4. Source' = Source
  BY <1>1 DEF Source
<1>5. Told' = Told
  BY <1>1 DEF Told
<1>. QED
  BY <1>1, <1>2, <1>3, <1>4, <1>5 DEF Transaction!vars, Source, Told

\* A call on the reader that waits for the source, or that the reader refuses.
LEMMA NotAnswered ==
  ASSUME RootKept, pc # "idle", NEW t,
         IF from.raw = <<>> THEN \E c \in Calls : t = Event(from, c) ELSE t = Skip_Step(from),
         Starves(t) \/ Rejects(t)
  PROVE  RootKept' /\ (UNCHANGED Transaction!vars \/ Transaction!Fail)
<1>1. ~Latched(from) /\ (Live(from) \/ Dead(from)) /\ Told = NoError
  BY DEF RootKept, Told
<1>2. /\ t.error # Starved => t.error \in Errors
      /\ t.error = Starved => Live(from) /\ ~Ended(from)
  BY <1>1, Asked
<1>3. CASE Starves(t)
  <2>1. PICK token \in Shown : from' = [from EXCEPT !.ahead = Append(@, token)]
    BY <1>3 DEF Starves
  <2>2. token \in Tokens
    BY DEF Shown
  <2>3. Live(from') /\ from'.error = from.error /\ from'.raw = from.raw
    BY <1>2, <1>3, <2>1, <2>2, Supplied DEF Starves
  <2>4. from'.failed = from.failed /\ from'.complete = from.complete
    BY <1>2, <1>3, <2>1 DEF Starves, Live, Bounded, Readers
  <2>5. UNCHANGED <<builder, setup, pc, raised>>
    BY <1>3 DEF Starves
  <2>6. RootKept'
    BY <2>3, <2>4, <2>5 DEF RootKept, Latched
  <2>7. Source' = Source /\ Told' = Told
    BY <2>3, <2>4, <2>5 DEF Source, Told, Status
  <2>. QED
    BY <2>5, <2>6, <2>7 DEF Transaction!vars, Source, Told
<1>4. CASE Rejects(t)
  <2>1. End(t, FALSE) /\ t.error \in Errors /\ t.error # NoError
    BY <1>2, <1>4 DEF Rejects, FailCall, Latched
  <2>. QED
    BY <1>1, <2>1, EndFails
<1>. QED
  BY <1>3, <1>4

\* A call on the reader that it answered, inside the record or after it.
LEMMA IsAnswered ==
  ASSUME RootKept, pc # "idle", NEW t,
         IF from.raw = <<>> THEN \E c \in Calls : t = Event(from, c) ELSE t = Skip_Step(from),
         Answers(t), NEW next, NEW candidate, Continue(next, candidate),
         next \notin {"idle", "prepare", "begin"}, pc # "prepare",
         pc = "begin" => ~from.failed /\ ~from.complete,
         t.raw # <<>> <=> next = "skipping",
         next = "commit" => ~t.failed /\ t.complete
  PROVE  RootKept' /\ UNCHANGED Transaction!vars
<1>1. ~Latched(from) /\ (Live(from) \/ Dead(from)) /\ Told = NoError
  BY DEF RootKept, Told
<1>2. from' = t /\ ~Latched(t)
  BY DEF Answers
<1>3. Live(from')
  BY <1>1, <1>2, Asked
<1>4. Source = "open"
  BY DEF Source, Status
<1>. QED
  BY <1>1, <1>2, <1>3, <1>4, WithinCall

\* The application's procedure fails.
LEMMA ApplicationFails ==
  ASSUME RootKept, Application_Fails, ~Latched(from)
  PROVE  RootKept' /\ Transaction!Fail
<1>1. from \in Readers /\ from.error = NoError
  BY DEF RootKept, Live, Dead, Bounded, Latched
<1>2. Told = NoError /\ NoError \in Errors
  BY <1>1 DEF Told, Errors
<1>3. CASE RaiseCall
  BY <1>1, <1>2, <1>3, EndFails DEF RaiseCall
<1>4. CASE FailCall(LatchCode(from, "Application_Error"))
  <2>1. LatchCode(from, "Application_Error").error = "Application_Error"
    BY <1>1 DEF LatchCode, Latched, Readers
  <2>2. "Application_Error" \in Errors /\ "Application_Error" # NoError
    BY DEF Errors, NoError
  <2>. QED
    BY <1>2, <1>4, <2>1, <2>2, EndFails DEF FailCall
<1>. QED
  BY <1>3, <1>4 DEF Application_Fails

\* The record adapter fails, with a code of its own.
LEMMA AdapterFails ==
  ASSUME RootKept, pc # "idle", NEW c \in {"Application_Error", "Unknown_Field", "Duplicate_Field", "Missing_Field"},
         FailWith(c)
  PROVE  RootKept' /\ Transaction!Fail
<1>1. from \in Readers /\ from.error = NoError /\ Told = NoError
  BY DEF RootKept, Live, Dead, Bounded, Latched, Told
<1>2. c \in Errors /\ c # NoError
  BY DEF Errors, NoError
<1>3. Fail(from, c).error = c
  <2>1. LatchCode(from, c) = [from EXCEPT !.error = c]
    BY <1>1 DEF LatchCode, Latched, Readers
  <2>2. [from EXCEPT !.error = c].error = c /\ [from EXCEPT !.error = c] \in Readers
    BY <1>1, <1>2 DEF Readers
  <2>3. Fail(from, c) = [[[from EXCEPT !.error = c] EXCEPT !.scopes = <<>>] EXCEPT !.failed = TRUE]
    BY <1>2, <2>1, <2>2 DEF Fail, Latch, Latched, Unwind
  <2>. QED
    BY <2>2, <2>3 DEF Readers
<1>. QED
  BY <1>1, <1>2, <1>3, EndFails DEF FailWith, FailCall

-----------------------------------------------------------------------------
(* What the handlers leave of a skip: all but Skip_Value and Skip_Step leave it alone. *)

Keeps(r, t) == "raw" \in DOMAIN t /\ t.raw = r.raw

\* Failures and charges.
LEMMA ChargesKeep ==
  ASSUME NEW r, "raw" \in DOMAIN r
  PROVE  /\ \A c : Keeps(r, Fail(r, c))
         /\ \A b, c : Keeps(r, Unless(r, b, c))
         /\ Keeps(r, Charge_Input(r)) /\ Keeps(r, Charge_Value(r)) /\ Keeps(r, Charge_Item(r))
         /\ \A b, n : Keeps(r, Charged(r, Enter_Container(r, b, n)))
         /\ Keeps(r, Leave_Container(r))
<1>1. \A s : "raw" \in DOMAIN s => Keeps(s, Latch(s)) /\ \A c : Keeps(s, LatchCode(s, c))
  BY DEF Keeps, Latch, LatchCode, Unwind
<1>2. \A c : Keeps(r, Fail(r, c))
  BY <1>1 DEF Keeps, Fail
<1>3. \A b, c : Keeps(r, Unless(r, b, c))
  BY <1>2 DEF Keeps, Unless
<1>4. \A b : Keeps(r, b) => Keeps(r, Charged(r, b))
  BY <1>1 DEF Keeps, Charged
<1>5. Keeps(r, Consume_Input(r, 1))
  BY <1>1 DEF Keeps, Consume_Input
<1>6. Keeps(r, Consume_Value(r))
  BY <1>1 DEF Keeps, Consume_Value
<1>7. Keeps(r, Consume_Container_Item(r))
  BY <1>1 DEF Keeps, Consume_Container_Item
<1>8. \A b, n : Keeps(r, Enter_Container(r, b, n))
  BY <1>1 DEF Keeps, Enter_Container
<1>9. Keeps(r, Leave_Container(r))
  BY <1>1 DEF Keeps, Leave_Container
<1>. QED
  BY <1>2, <1>3, <1>4, <1>5, <1>6, <1>7, <1>8, <1>9 DEF Charge_Input, Charge_Value, Charge_Item

\* The helpers that look at a head or consume one.
LEMMA LooksKeep ==
  ASSUME NEW r, "raw" \in DOMAIN r
  PROVE  /\ Keeps(r, Inspect_Head(r)) /\ Keeps(r, Inspect_Surface_Head(r))
         /\ Keeps(r, Require_Child_Start(r)) /\ Keeps(r, Advance(r))
         /\ Keeps(r, Require_Ready(r)) /\ Keeps(r, Check_Value_Ready(r))
         /\ \A fits : Keeps(r, Scan_Text(r, fits))
         /\ \A c : Keeps(r, Consume_Break(r, c))
<1>1. \A s, b, c : "raw" \in DOMAIN s => Keeps(s, Unless(s, b, c))
  BY ChargesKeep
<1>2. \A s : "raw" \in DOMAIN s => Keeps(s, Inspect_Head(s))
  BY <1>1 DEF Inspect_Head, Keeps
<1>3. \A s : "raw" \in DOMAIN s => Keeps(s, Advance(s))
  <2>1. \A s : "raw" \in DOMAIN s => Keeps(s, Consumed(s))
    BY DEF Consumed, Keeps
  <2>2. \A s : "raw" \in DOMAIN s => Keeps(s, Charge_Input(s))
    BY ChargesKeep
  <2>. QED
    BY <1>2, <2>1, <2>2 DEF Advance, Keeps
<1>4. \A s : "raw" \in DOMAIN s => Keeps(s, Inspect_Surface_Head(s))
  BY <1>1, <1>2 DEF Inspect_Surface_Head, Keeps
<1>5. Keeps(r, Require_Child_Start(r))
  BY <1>1, <1>2 DEF Require_Child_Start, Keeps
<1>6. Keeps(r, Require_Ready(r))
  BY <1>1 DEF Require_Ready
<1>7. Keeps(r, Check_Value_Ready(r))
  <2>. DEFINE t == Unless(Require_Ready(r), ~Expects(r), "Invalid_State")
  <2>1. Keeps(r, t)
    BY <1>1, <1>6 DEF Keeps
  <2>. HIDE DEF t
  <2>2. \A b, c : Keeps(r, Unless(Inspect_Head(t), b, c))
    BY <1>1, <1>2, <2>1 DEF Keeps
  <2>3. Check_Value_Ready(r) = IF MayBeMissing(r)
             THEN Unless(Inspect_Head(t), Next_Token(r).head = "break", "Invalid_Value") ELSE t
    BY DEF Check_Value_Ready, t
  <2>. QED
    BY <2>1, <2>2, <2>3
<1>8. \A fits : Keeps(r, Scan_Text(r, fits))
  BY <1>1, <1>4 DEF Scan_Text, Keeps
<1>9. \A c : Keeps(r, Consume_Break(r, c))
  BY <1>1, <1>2, <1>3 DEF Consume_Break, Keeps
<1>. QED
  BY <1>2, <1>3, <1>4, <1>5, <1>6, <1>7, <1>8, <1>9

\* The helpers that begin and end values and containers.
LEMMA ValuesKeep ==
  ASSUME NEW r, "raw" \in DOMAIN r
  PROVE  /\ Keeps(r, Prepare_Value(r)) /\ Keeps(r, Finish_Value(r))
         /\ \A f : Keeps(r, Push(r, f))
         /\ Keeps(r, Finish_Container(r))
         /\ Keeps(r, Exhausted(r)) /\ Keeps(r, Announced(r))
<1>1. \A s, f : "raw" \in DOMAIN s => Keeps(s, SetTop(s, f))
  BY DEF Keeps, SetTop
<1>2. \A s : "raw" \in DOMAIN s => Keeps(s, Started(s))
  BY <1>1 DEF Keeps, Started
<1>3. Keeps(r, Prepare_Value(r))
  BY <1>2, ChargesKeep, LooksKeep DEF Prepare_Value, Keeps
<1>4. \A s : "raw" \in DOMAIN s => Keeps(s, Finish_Value(s))
  <2>. SUFFICES ASSUME NEW s, "raw" \in DOMAIN s PROVE Keeps(s, Finish_Value(s))
    OBVIOUS
  <2>. DEFINE t == Unless(s, ~InProgress(s), "Invalid_State")
  <2>1. Keeps(s, t)
    BY ChargesKeep
  <2>2. Keeps(s, Finish_Key(s))
    BY <1>1, LooksKeep DEF Finish_Key, Keeps
  <2>3. Keeps(s, [s EXCEPT !.root = "complete"])
    BY DEF Keeps
  <2>. HIDE DEF t
  <2>4. Finish_Value(s) \in {t, [s EXCEPT !.root = "complete"], Finish_Key(s)}
          \/ \E f : Finish_Value(s) = SetTop(s, f)
    BY DEF Finish_Value, t
  <2>. QED
    BY <1>1, <2>1, <2>2, <2>3, <2>4
<1>5. \A f : Keeps(r, Push(r, f))
  BY ChargesKeep DEF Push, Keeps
<1>6. Keeps(r, Finish_Container(r))
  <2>. DEFINE t == [Leave_Container(r) EXCEPT !.stack = SubSeq(@, 1, Len(@) - 1)]
  <2>1. Keeps(r, t)
    BY ChargesKeep DEF Keeps
  <2>2. Finish_Container(r) \in {r, Finish_Value(t)}
    BY DEF Finish_Container
  <2>. HIDE DEF t
  <2>. QED
    BY <1>4, <2>1, <2>2 DEF Keeps
<1>7. Keeps(r, Exhausted(r)) /\ Keeps(r, Announced(r))
  BY <1>1 DEF Exhausted, Announced, Keeps
<1>. QED
  BY <1>3, <1>4, <1>5, <1>6, <1>7

\* The handlers that the record adapter calls.
LEMMA HandlersKeep ==
  ASSUME NEW r, "raw" \in DOMAIN r
  PROVE  /\ Keeps(r, Begin_Record(r)) /\ Keeps(r, Next_Field(r, TRUE))
         /\ Keeps(r, Read_Unsigned(r)) /\ Keeps(r, End_Record(r))
         /\ Keeps(r, Finish_Document(r))
<1>1. \A s, b, c : "raw" \in DOMAIN s => Keeps(s, Unless(s, b, c))
  BY ChargesKeep
<1>2. Keeps(r, Require_Kind(r, IsMap)) /\ Keeps(r, Require_Kind(r, IsUnsigned))
  <2>1. Keeps(r, Inspect_Surface_Head(Check_Value_Ready(r)))
    BY LooksKeep DEF Keeps
  <2>. QED
    BY <1>1, <2>1 DEF Require_Kind, Keeps
<1>3. Keeps(r, Begin_Record(r))
  <2>. DEFINE k == Require_Kind(r, IsMap)
  <2>1. Begin_Record(r) = Push(Advance(Prepare_Value(k)), Frame("record", Next_Token(r)))
    BY DEF Begin_Record, Begin_Container
  <2>. HIDE DEF k
  <2>2. Keeps(r, k)
    BY <1>2 DEF k
  <2>3. Keeps(r, Prepare_Value(k))
    BY <2>2, ValuesKeep DEF Keeps
  <2>4. Keeps(r, Advance(Prepare_Value(k)))
    BY <2>3, LooksKeep DEF Keeps
  <2>. QED
    BY <2>1, <2>4, ValuesKeep DEF Keeps
<1>4. Keeps(r, Read_Unsigned(r))
  <2>. DEFINE k == Require_Kind(r, IsUnsigned)
  <2>1. Read_Unsigned(r) = Finish_Value(Advance(Prepare_Value(k)))
    BY DEF Read_Unsigned, Take_Value
  <2>. HIDE DEF k
  <2>2. Keeps(r, k)
    BY <1>2 DEF k
  <2>3. Keeps(r, Prepare_Value(k))
    BY <2>2, ValuesKeep DEF Keeps
  <2>4. Keeps(r, Advance(Prepare_Value(k)))
    BY <2>3, LooksKeep DEF Keeps
  <2>. QED
    BY <2>1, <2>4, ValuesKeep DEF Keeps
<1>5. Keeps(r, Next_Field(r, TRUE))
  <2>. DEFINE misplaced == \/ r.stack = <<>> \/ Top(r).kind \notin {"record", "variant"}
                           \/ ~Idle(Top(r)) \/ Top(r).exhausted
              t == Unless(Require_Ready(r), misplaced, "Invalid_State")
              i == Inspect_Head(t)
              n == Require_Child_Start(Advance(Scan_Text(Require_Child_Start(t), TRUE)))
              a == Announced(Charge_Item(n))
  <2>1. Next_Field(r, TRUE) \in {t, Exhausted(t), i, Exhausted(i), a}
    BY DEF Next_Field, Next_Child
  <2>2. Keeps(r, t)
    <3>1. Keeps(r, Require_Ready(r))
      BY LooksKeep
    <3>. DEFINE q == Require_Ready(r)
    <3>. HIDE DEF q, misplaced
    <3>2. Keeps(q, Unless(q, misplaced, "Invalid_State"))
      BY <1>1, <3>1 DEF q, Keeps
    <3>. QED
      BY <3>1, <3>2 DEF q, Keeps
  <2>. HIDE DEF t
  <2>3. Keeps(r, i) /\ Keeps(r, Exhausted(t))
    BY <2>2, LooksKeep, ValuesKeep DEF Keeps
  <2>4. Keeps(r, Scan_Text(Require_Child_Start(t), TRUE))
    <3>. DEFINE q == Require_Child_Start(t)
    <3>1. Keeps(r, q)
      BY <2>2, LooksKeep DEF Keeps
    <3>. HIDE DEF q
    <3>2. Keeps(q, Scan_Text(q, TRUE))
      BY <3>1, LooksKeep DEF Keeps
    <3>. QED
      BY <3>1, <3>2 DEF q, Keeps
  <2>5. Keeps(r, n)
    BY <2>4, LooksKeep DEF Keeps
  <2>. HIDE DEF n, i
  <2>6. Keeps(r, Exhausted(i))
    BY <2>3, ValuesKeep DEF Keeps
  <2>7. Keeps(r, Charge_Item(n))
    BY <2>5, ChargesKeep DEF Keeps
  <2>8. Keeps(r, a)
    BY <2>7, ValuesKeep DEF Keeps
  <2>. QED
    BY <2>1, <2>2, <2>3, <2>6, <2>8
<1>6. Keeps(r, End_Record(r))
  <2>. DEFINE misplaced == \/ r.stack = <<>> \/ Top(r).kind # "record"
                           \/ ~Idle(Top(r)) \/ ~Top(r).exhausted
              u == Unless(Require_Ready(r), misplaced, "Invalid_State")
  <2>1. End_Record(r) \in {u, Finish_Container(Closed_Item(u))}
    BY DEF End_Record, End_Item
  <2>2. Keeps(r, u)
    <3>1. Keeps(r, Require_Ready(r))
      BY LooksKeep
    <3>. DEFINE q == Require_Ready(r)
    <3>. HIDE DEF q, misplaced
    <3>2. Keeps(q, Unless(q, misplaced, "Invalid_State"))
      BY <1>1, <3>1 DEF q, Keeps
    <3>. QED
      BY <3>1, <3>2 DEF q, Keeps
  <2>. HIDE DEF u
  <2>3. Keeps(r, Closed_Item(u))
    BY <2>2, LooksKeep DEF Keeps, Closed_Item
  <2>4. Keeps(r, Finish_Container(Closed_Item(u)))
    BY <2>3, ValuesKeep DEF Keeps
  <2>. QED
    BY <2>1, <2>2, <2>4
<1>7. Keeps(r, Finish_Document(r))
  <2>. DEFINE t == Unless(Require_Ready(r), r.root # "complete" \/ r.stack # <<>>, "Invalid_State")
  <2>1. Finish_Document(r) \in
          {t, [t EXCEPT !.error = Starved], Fail(t, "Syntax_Error"), [t EXCEPT !.complete = TRUE]}
    BY DEF Finish_Document
  <2>2. Keeps(r, t)
    BY <1>1, LooksKeep DEF Keeps
  <2>. HIDE DEF t
  <2>3. Keeps(r, Fail(t, "Syntax_Error"))
    BY <2>2, ChargesKeep DEF Keeps
  <2>. QED
    BY <2>1, <2>2, <2>3 DEF Keeps
<1>. QED
  BY <1>3, <1>4, <1>5, <1>6, <1>7

\* What Begin_Record and Finish_Document answer to.
LEMMA EndsAnswered ==
  ASSUME NEW r, Live(r) \/ Dead(r), ~Latched(r)
  PROVE  /\ ~Latched(Begin_Record(r)) => ~r.failed /\ ~r.complete
         /\ ~Latched(Finish_Document(r)) => ~Finish_Document(r).failed /\ Finish_Document(r).complete
<1>1. r \in Readers /\ r.error = NoError
  BY DEF Live, Dead, Bounded, Latched
<1>2. \A s, c : s \in Readers /\ ~Latched(s) /\ c # NoError => Latched(Fail(s, c))
  <2>. SUFFICES ASSUME NEW s \in Readers, NEW c, ~Latched(s), c # NoError PROVE Latched(Fail(s, c))
    OBVIOUS
  <2>1. LatchCode(s, c) = [s EXCEPT !.error = c]
    BY DEF LatchCode, Readers
  <2>2. Latched([s EXCEPT !.error = c])
    BY DEF Latched, Readers
  <2>. QED
    BY <2>1, <2>2 DEF Fail, Latch, Unwind, Latched, Readers
<1>3. "Invalid_State" # NoError /\ "Syntax_Error" # NoError /\ Starved # NoError
  BY DEF NoError, Starved
<1>4. IF r.failed THEN Latched(Require_Ready(r)) ELSE Require_Ready(r) = r
  BY <1>1, <1>2, <1>3 DEF Require_Ready, Unless, Latched
<1>5. \A s, b, c : Latched(s) => Unless(s, b, c) = s
  BY DEF Unless
<1>6. ASSUME ~Latched(Begin_Record(r))
      PROVE  ~r.failed /\ ~r.complete
  <2>. DEFINE v == Check_Value_Ready(r)
              m == Unless(Require_Ready(r), ~Expects(r), "Invalid_State")
  <2>1. \A s : Latched(s) =>
          /\ Inspect_Head(s) = s /\ Inspect_Surface_Head(s) = s /\ Advance(s) = s
          /\ Charge_Value(s) = s /\ Started(s) = s /\ \A f : Push(s, f) = s
    <3>. SUFFICES ASSUME NEW s, Latched(s)
                  PROVE  /\ Inspect_Head(s) = s /\ Inspect_Surface_Head(s) = s /\ Advance(s) = s
                         /\ Charge_Value(s) = s /\ Started(s) = s /\ \A f : Push(s, f) = s
      OBVIOUS
    <3>1. Inspect_Head(s) = s
      BY <1>5 DEF Inspect_Head
    <3>2. Inspect_Surface_Head(s) = s
      BY <3>1, <1>5 DEF Inspect_Surface_Head
    <3>3. \A b : Charged(s, b) = s
      BY DEF Charged
    <3>4. Advance(s) = s
      BY <3>1, <3>3 DEF Advance, Charge_Input, Consumed
    <3>5. Charge_Value(s) = s /\ \A f : Push(s, f) = s
      BY <3>3 DEF Charge_Value, Push
    <3>6. Started(s) = s
      BY DEF Started
    <3>. QED
      BY <3>1, <3>2, <3>4, <3>5, <3>6
  <2>2. Latched(m) => Latched(v)
    BY <1>5, <2>1 DEF Check_Value_Ready
  <2>3. Latched(v) => v.stack = v.stack /\ Require_Kind(r, IsMap) = v
    BY <1>5, <2>1 DEF Require_Kind
  <2>4. Latched(v) /\ Check_Value_Ready(v) = v => Begin_Record(r) = v
    BY <2>1, <2>3 DEF Begin_Record, Begin_Container, Prepare_Value
  <2>5. Latched(v) => Check_Value_Ready(v) = v
    BY <1>5, <2>1 DEF Check_Value_Ready, Require_Ready
  <2>6. ~Latched(m)
    BY <1>6, <2>2, <2>4, <2>5
  <2>7. ~r.failed
    BY <1>4, <1>5, <2>6
  <2>8. Expects(r)
    BY <1>1, <1>2, <1>3, <1>4, <2>6, <2>7 DEF Unless, Latched
  <2>9. r.complete => r.root = "complete" /\ r.stack = <<>>
    BY <2>7 DEF Live, Dead, Rooted
  <2>. QED
    BY <2>7, <2>8, <2>9 DEF Expects
<1>7. ASSUME ~Latched(Finish_Document(r))
      PROVE  ~Finish_Document(r).failed /\ Finish_Document(r).complete
  <2>. DEFINE t == Unless(Require_Ready(r), r.root # "complete" \/ r.stack # <<>>, "Invalid_State")
  <2>1. ~Latched(t)
    BY <1>7 DEF Finish_Document
  <2>2. ~r.failed /\ Require_Ready(r) = r
    BY <1>4, <1>5, <2>1
  <2>3. t = r
    BY <1>1, <1>2, <1>3, <2>1, <2>2 DEF Unless, Latched
  <2>4. Latched([r EXCEPT !.error = Starved])
    BY <1>1, <1>3 DEF Latched, Readers
  <2>5. Latched(Fail(r, "Syntax_Error"))
    BY <1>1, <1>2, <1>3 DEF Latched
  <2>. HIDE DEF t
  <2>6. Finish_Document(r) = [r EXCEPT !.complete = TRUE]
    BY <1>7, <2>1, <2>3, <2>4, <2>5 DEF Finish_Document, t
  <2>. QED
    BY <1>1, <2>2, <2>6 DEF Readers
<1>. QED
  BY <1>6, <1>7

-----------------------------------------------------------------------------
(* One lemma per action of Deserialize. *)

\* The calls the record adapter makes on the reader.
LEMMA AdapterCalls ==
  ASSUME RootKept, pc \notin {"idle", "skipping"}, NEW t,
         t \in {Begin_Record(from), Next_Field(from, TRUE), Read_Unsigned(from),
                Skip_Value(from), End_Record(from), Finish_Document(from)}
  PROVE  IF from.raw = <<>> THEN \E c \in Calls : t = Event(from, c) ELSE t = Skip_Step(from)
<1>1. from.raw = <<>>
  BY DEF RootKept
<1>. DEFINE plain(o) == [op |-> o]
            field == [op |-> "Next_Field", fits |-> TRUE]
<1>2. /\ \A o \in {"Begin_Record", "Read_Unsigned", "Skip_Value", "End_Record", "Finish_Document"} :
            plain(o) \in Calls /\ plain(o).op = o
      /\ field \in Calls /\ field.op = "Next_Field" /\ field.fits = TRUE
  BY DEF Calls
<1>. HIDE DEF plain, field
<1>3. CASE t = Begin_Record(from)
  <2>1. t = Event(from, plain("Begin_Record"))
    BY <1>2, <1>3 DEF Event
  <2>. QED
    BY <1>1, <1>2, <2>1
<1>4. CASE t = Next_Field(from, TRUE)
  <2>1. t = Event(from, field)
    BY <1>2, <1>4 DEF Event
  <2>. QED
    BY <1>1, <1>2, <2>1
<1>5. CASE t = Read_Unsigned(from)
  <2>1. t = Event(from, plain("Read_Unsigned"))
    BY <1>2, <1>5 DEF Event
  <2>. QED
    BY <1>1, <1>2, <2>1
<1>6. CASE t = Skip_Value(from)
  <2>1. t = Event(from, plain("Skip_Value"))
    BY <1>2, <1>6 DEF Event
  <2>. QED
    BY <1>1, <1>2, <2>1
<1>7. CASE t = End_Record(from)
  <2>1. t = Event(from, plain("End_Record"))
    BY <1>2, <1>7 DEF Event
  <2>. QED
    BY <1>1, <1>2, <2>1
<1>8. CASE t = Finish_Document(from)
  <2>1. t = Event(from, plain("Finish_Document"))
    BY <1>2, <1>8 DEF Event
  <2>. QED
    BY <1>1, <1>2, <2>1
<1>. QED
  BY <1>3, <1>4, <1>5, <1>6, <1>7, <1>8

\* The handlers of a record, called between skips, leave none under way.
LEMMA AdapterSkipsNot ==
  ASSUME RootKept, pc # "skipping"
  PROVE  /\ Begin_Record(from).raw = <<>> /\ Next_Field(from, TRUE).raw = <<>>
         /\ Read_Unsigned(from).raw = <<>> /\ End_Record(from).raw = <<>>
         /\ Finish_Document(from).raw = <<>>
<1>1. "raw" \in DOMAIN from /\ from.raw = <<>>
  BY DEF RootKept, Live, Dead, Bounded, Readers
<1>. QED
  BY <1>1, HandlersKeep DEF Keeps

\* Begin_Candidate and the check of the description: a step within the call, or a failure.
LEMMA BeginSteps ==
  ASSUME RootKept, Begin \/ Prepare_Metadata
  PROVE  RootKept' /\ (UNCHANGED Transaction!vars \/ Transaction!Fail)
<1>1. (Live(from) \/ Dead(from)) /\ (from.raw # <<>> <=> pc = "skipping")
  BY DEF RootKept
<1>2. CASE Begin
  <2>1. pc = "idle" /\ ~Latched(from) /\ Told = NoError
    BY <1>2 DEF Begin, Told, Latched
  <2>2. CASE Application_Fails
    BY <2>1, <2>2, ApplicationFails
  <2>3. CASE Continue("prepare", [f \in Fields |-> "unset"]) /\ UNCHANGED <<from, name, seen, history>>
    <3>. DEFINE blank == [f \in Fields |-> "unset"]
    <3>. HIDE DEF blank
    <3>1. Continue("prepare", blank) /\ from' = from
      BY <2>3 DEF blank
    <3>2. Source = Status(from) /\ Status(from') = Status(from)
      BY <2>1, <3>1 DEF Source
    <3>. QED
      BY <1>1, <2>1, <3>1, <3>2, WithinCall
  <2>. QED
    BY <1>2, <2>2, <2>3 DEF Begin
<1>3. CASE Prepare_Metadata
  <2>1. pc = "prepare" /\ ~Latched(from) /\ Told = NoError
    BY <1>3 DEF Prepare_Metadata, RootKept, Told
  <2>2. CASE FailWith("Application_Error")
    BY <2>1, <2>2, AdapterFails
  <2>3. CASE Continue("begin", builder.candidate) /\ UNCHANGED <<from, name, seen, history>>
    <3>1. Source = Status(from) /\ Status(from') = Status(from)
      BY <2>1, <2>3 DEF Source
    <3>. QED
      BY <1>1, <2>1, <2>3, <3>1, WithinCall
  <2>. QED
    BY <1>3, <2>2, <2>3 DEF Prepare_Metadata
<1>. QED
  BY <1>2, <1>3

\* Begin_Record opens the record only of a reader that is open.
LEMMA OpenSteps ==
  ASSUME RootKept, Open_Record
  PROVE  RootKept' /\ (UNCHANGED Transaction!vars \/ Transaction!Fail)
<1>. DEFINE t == Begin_Record(from)
<1>1. /\ pc = "begin"
      /\ \/ Starves(t) \/ Rejects(t)
         \/ Answers(t) /\ Continue("loop", builder.candidate)
  BY DEF Open_Record
<1>2. IF from.raw = <<>> THEN \E c \in Calls : t = Event(from, c) ELSE t = Skip_Step(from)
  BY <1>1, AdapterCalls
<1>3. t.raw = <<>>
  BY <1>1, AdapterSkipsNot
<1>4. ~Latched(t) => ~from.failed /\ ~from.complete
  BY <1>1, EndsAnswered DEF RootKept
<1>. HIDE DEF t
<1>5. CASE Starves(t) \/ Rejects(t)
  BY <1>1, <1>2, <1>5, NotAnswered
<1>6. CASE Answers(t) /\ Continue("loop", builder.candidate)
  <2>1. ~from.failed /\ ~from.complete
    BY <1>4, <1>6 DEF Answers
  <2>. QED
    BY <1>1, <1>2, <1>3, <1>6, <2>1, IsAnswered
<1>. QED
  BY <1>1, <1>5, <1>6

\* Next_Field.
LEMMA AskSteps ==
  ASSUME RootKept, Ask_Field
  PROVE  RootKept' /\ (UNCHANGED Transaction!vars \/ Transaction!Fail)
<1>. DEFINE t == Next_Field(from, TRUE)
<1>1. /\ pc = "loop"
      /\ \/ Starves(t) \/ Rejects(t)
         \/ Answers(t) /\ Continue("field", builder.candidate)
         \/ Answers(t) /\ Continue("close", builder.candidate)
  BY DEF Ask_Field
<1>2. IF from.raw = <<>> THEN \E c \in Calls : t = Event(from, c) ELSE t = Skip_Step(from)
  BY <1>1, AdapterCalls
<1>3. t.raw = <<>>
  BY <1>1, AdapterSkipsNot
<1>. HIDE DEF t
<1>4. CASE Starves(t) \/ Rejects(t)
  BY <1>1, <1>2, <1>4, NotAnswered
<1>5. CASE Answers(t) /\ Continue("field", builder.candidate)
  BY <1>1, <1>2, <1>3, <1>5, IsAnswered
<1>6. CASE Answers(t) /\ Continue("close", builder.candidate)
  BY <1>1, <1>2, <1>3, <1>6, IsAnswered
<1>. QED
  BY <1>1, <1>4, <1>5, <1>6

\* The policy rejects the field.
LEMMA RejectSteps ==
  ASSUME RootKept, Reject_Field
  PROVE  RootKept' /\ Transaction!Fail
<1>1. pc = "field" /\ FailWith(Treatment) /\ Treatment \notin {"skip", "decode"}
  BY DEF Reject_Field
<1>2. setup.policy.duplicates \in {"Reject_Duplicate", "Keep_First", "Keep_Last"}
  BY PoliciesAssumption DEF RootKept
<1>3. OfDuplicate \in {"Duplicate_Field", "skip", "decode"}
  BY <1>2 DEF OfDuplicate
<1>4. Treatment \in {"Application_Error", "Unknown_Field", "Duplicate_Field", "skip", "decode"}
  BY <1>3 DEF Treatment
<1>5. Treatment \in {"Application_Error", "Unknown_Field", "Duplicate_Field", "Missing_Field"}
  BY <1>1, <1>4
<1>. QED
  BY <1>1, <1>5, AdapterFails

\* The application reads the value of a field.
LEMMA DecodeSteps ==
  ASSUME RootKept, Decode_Field
  PROVE  RootKept' /\ (UNCHANGED Transaction!vars \/ Transaction!Fail)
<1>. DEFINE t == Read_Unsigned(from)
<1>1. /\ pc = "field"
      /\ \/ Starves(t) \/ Rejects(t)
         \/ Answers(t) /\ \E candidate : Continue("loop", candidate)
  BY DEF Decode_Field
<1>2. IF from.raw = <<>> THEN \E c \in Calls : t = Event(from, c) ELSE t = Skip_Step(from)
  BY <1>1, AdapterCalls
<1>3. t.raw = <<>>
  BY <1>1, AdapterSkipsNot
<1>. HIDE DEF t
<1>4. CASE Starves(t) \/ Rejects(t)
  BY <1>1, <1>2, <1>4, NotAnswered
<1>5. ASSUME NEW candidate, Answers(t), Continue("loop", candidate)
      PROVE  RootKept' /\ UNCHANGED Transaction!vars
  BY <1>1, <1>2, <1>3, <1>5, IsAnswered
<1>. QED
  BY <1>1, <1>4, <1>5

\* The application does not read it, or the fields are at their end.
LEMMA ApplicationSteps ==
  ASSUME RootKept, Misread_Field \/ Apply_Missing \/ Finish_Candidate
  PROVE  RootKept' /\ (UNCHANGED Transaction!vars \/ Transaction!Fail)
<1>1. /\ pc \in {"field", "missing"} /\ Told = NoError /\ Source = "open"
      /\ Live(from) \/ Dead(from)
      /\ ~Latched(from) /\ from.raw = <<>>
  BY DEF RootKept, Misread_Field, Apply_Missing, Finish_Candidate, Told, Source
<1>2. \/ Application_Fails \/ FailWith("Missing_Field")
      \/ /\ from' = from
         /\ \E next \in {"loop", "missing", "finish"} : \E candidate : Continue(next, candidate)
  BY DEF Misread_Field, Apply_Missing, Finish_Candidate
<1>3. CASE Application_Fails
  BY <1>1, <1>3, ApplicationFails
<1>4. CASE FailWith("Missing_Field")
  BY <1>1, <1>4, AdapterFails
<1>5. ASSUME from' = from, NEW next \in {"loop", "missing", "finish"}, NEW candidate,
             Continue(next, candidate)
      PROVE  RootKept' /\ UNCHANGED Transaction!vars
  BY <1>1, <1>5, WithinCall
<1>. QED
  BY <1>2, <1>3, <1>4, <1>5

\* Skip_Value, in one call or in steps.
LEMMA SkipSteps ==
  ASSUME RootKept, Skip_Field
  PROVE  RootKept' /\ (UNCHANGED Transaction!vars \/ Transaction!Fail)
<1>1. ASSUME NEW t, Skip_Call(t), pc \in {"field", "skipping"},
             IF from.raw = <<>> THEN \E c \in Calls : t = Event(from, c) ELSE t = Skip_Step(from)
      PROVE  RootKept' /\ (UNCHANGED Transaction!vars \/ Transaction!Fail)
  <2>. DEFINE next == IF t.raw = <<>> THEN "loop" ELSE "skipping"
  <2>1. Starves(t) \/ Rejects(t) \/ (Answers(t) /\ Continue(next, builder.candidate))
    BY <1>1 DEF Skip_Call
  <2>2. next \in {"loop", "skipping"} /\ (t.raw # <<>> <=> next = "skipping")
    OBVIOUS
  <2>. HIDE DEF next
  <2>3. CASE Starves(t) \/ Rejects(t)
    BY <1>1, <2>3, NotAnswered
  <2>4. CASE Answers(t) /\ Continue(next, builder.candidate)
    BY <1>1, <2>2, <2>4, IsAnswered
  <2>. QED
    BY <2>1, <2>3, <2>4
<1>2. CASE pc = "field" /\ Skip_Call(Skip_Value(from))
  BY <1>1, <1>2, AdapterCalls
<1>3. CASE pc = "skipping" /\ Skip_Call(Skip_Step(from))
  <2>1. from.raw # <<>>
    BY <1>3 DEF RootKept
  <2>. QED
    BY <1>1, <1>3, <2>1
<1>. QED
  BY <1>2, <1>3 DEF Skip_Field

\* End_Record and Finish_Document.
LEMMA CloseSteps ==
  ASSUME RootKept, Close_Record \/ Prove_Whole
  PROVE  RootKept' /\ (UNCHANGED Transaction!vars \/ Transaction!Fail)
<1>1. CASE Close_Record
  <2>. DEFINE t == End_Record(from)
  <2>1. /\ pc = "close"
        /\ \/ Starves(t) \/ Rejects(t)
           \/ Answers(t) /\ Continue("missing", builder.candidate)
    BY <1>1 DEF Close_Record
  <2>2. IF from.raw = <<>> THEN \E c \in Calls : t = Event(from, c) ELSE t = Skip_Step(from)
    BY <2>1, AdapterCalls
  <2>3. t.raw = <<>>
    BY <2>1, AdapterSkipsNot
  <2>. HIDE DEF t
  <2>4. CASE Starves(t) \/ Rejects(t)
    BY <2>1, <2>2, <2>4, NotAnswered
  <2>5. CASE Answers(t) /\ Continue("missing", builder.candidate)
    BY <2>1, <2>2, <2>3, <2>5, IsAnswered
  <2>. QED
    BY <2>1, <2>4, <2>5
<1>2. CASE Prove_Whole
  <2>. DEFINE t == Finish_Document(from)
  <2>1. /\ pc = "finish"
        /\ \/ Starves(t) \/ Rejects(t)
           \/ Answers(t) /\ Continue("commit", builder.candidate)
    BY <1>2 DEF Prove_Whole
  <2>2. IF from.raw = <<>> THEN \E c \in Calls : t = Event(from, c) ELSE t = Skip_Step(from)
    BY <2>1, AdapterCalls
  <2>3. t.raw = <<>>
    BY <2>1, AdapterSkipsNot
  <2>4. ~Latched(t) => ~t.failed /\ t.complete
    BY <2>1, EndsAnswered DEF RootKept
  <2>. HIDE DEF t
  <2>5. CASE Starves(t) \/ Rejects(t)
    BY <2>1, <2>2, <2>5, NotAnswered
  <2>6. CASE Answers(t) /\ Continue("commit", builder.candidate)
    <3>1. ~t.failed /\ t.complete
      BY <2>4, <2>6 DEF Answers
    <3>. QED
      BY <2>1, <2>2, <2>3, <2>6, <3>1, IsAnswered
  <2>. QED
    BY <2>1, <2>5, <2>6
<1>. QED
  BY <1>1, <1>2

\* Commit_Candidate publishes.
LEMMA CommitSteps ==
  ASSUME RootKept, Commit_Candidate
  PROVE  RootKept' /\ (Transaction!Publish \/ Transaction!Fail)
<1>1. /\ pc = "commit" /\ ~Latched(from) /\ Told = NoError /\ Source = "open"
      /\ from.error = NoError /\ ~from.failed /\ from.complete
      /\ Live(from) \/ Dead(from)
      /\ from.raw = <<>>
  BY DEF Commit_Candidate, RootKept, Told, Source, Latched
<1>2. CASE Application_Fails
  BY <1>1, <1>2, ApplicationFails
<1>3. CASE /\ builder' = [candidate |-> NoCandidate, published |-> builder.candidate]
           /\ from' = from /\ Settled(FALSE)
  <2>1. /\ pc' = "idle" /\ raised' = FALSE /\ setup' = setup
        /\ builder' = [candidate |-> builder'.candidate, published |-> builder'.published]
    BY <1>3 DEF Settled
  <2>2. RootKept'
    BY <1>1, <1>3, <2>1 DEF RootKept
  <2>3. Status(from') = "complete" /\ from'.error = NoError
    BY <1>1, <1>3 DEF Status
  <2>4. Transaction!Publish
    BY <1>1, <2>1, <2>3 DEF Transaction!Publish, Told, Source
  <2>. QED
    BY <2>2, <2>4
<1>. QED
  BY <1>2, <1>3 DEF Commit_Candidate

\* The client aborts the document, resets the reader, or sets its Error_Info.
LEMMA DriveSteps ==
  ASSUME RootKept, Drive
  PROVE  RootKept' /\ (Transaction!Abort \/ Transaction!Reset \/ Transaction!SetError)
<1>1. /\ pc = "idle" /\ pc' = "idle" /\ raised' = FALSE
      /\ UNCHANGED <<builder, setup>>
      /\ Live(from) \/ Dead(from)
      /\ from.raw = <<>>
  BY DEF Drive, Client, RootKept
<1>2. from.error \in Errors
  BY <1>1 DEF Live, Dead, Bounded, Readers
<1>3. Source = Status(from) /\ Source' = Status(from') /\ Told = from.error /\ Told' = from'.error
  BY <1>1 DEF Source, Told
<1>4. (Live(from') \/ Dead(from')) /\ from'.raw = <<>> => RootKept'
  BY <1>1 DEF RootKept
<1>5. CASE from' = Aborted(from.error)
  <2>1. Dead(from') /\ from'.error = from.error /\ from'.failed /\ from'.raw = <<>>
    BY <1>2, <1>5, AbortedIs
  <2>2. Transaction!Abort
    BY <1>1, <1>3, <2>1 DEF Transaction!Abort, Source, Told, Status
  <2>. QED
    BY <1>4, <2>1, <2>2
<1>6. CASE from' = [Fresh EXCEPT !.error = from.error]
  <2>1. Live(from') /\ from'.error = from.error /\ from'.raw = <<>>
    BY <1>2, <1>6, FreshIs
  <2>2. ~from'.failed /\ ~from'.complete
    BY <1>6 DEF Fresh
  <2>3. Transaction!Reset
    BY <1>1, <1>3, <2>1, <2>2 DEF Transaction!Reset, Source, Told, Status
  <2>. QED
    BY <1>4, <2>1, <2>3
<1>7. ASSUME NEW c \in {NoError, "Application_Error"}, from' = [from EXCEPT !.error = c]
      PROVE  RootKept' /\ Transaction!SetError
  <2>1. c \in Errors
    BY DEF Errors
  <2>2. (Live(from') \/ Dead(from')) /\ from'.raw = <<>>
    BY <1>1, <1>7, <2>1, ErrorSet
  <2>3. from'.failed = from.failed /\ from'.complete = from.complete
    BY <1>1, <1>7 DEF Live, Dead, Bounded, Readers
  <2>4. Transaction!SetError
    BY <1>1, <1>3, <2>3 DEF Transaction!SetError, Source, Told, Status
  <2>. QED
    BY <1>4, <2>2, <2>4
<1>. QED
  BY <1>5, <1>6, <1>7 DEF Drive, Client

\* Every step maps to a step of the transaction, or to none.
LEMMA RootSteps ==
  RootKept /\ [RootNext]_rootVars => RootKept' /\ [Transaction!Next]_(Transaction!vars)
<1>. SUFFICES ASSUME RootKept, [RootNext]_rootVars
              PROVE  RootKept' /\ [Transaction!Next]_(Transaction!vars)
  OBVIOUS
<1>1. CASE UNCHANGED rootVars
  <2>1. /\ from' = from /\ builder' = builder /\ setup' = setup /\ pc' = pc
        /\ raised' = raised
    BY <1>1 DEF rootVars
  <2>2. RootKept'
    BY <2>1 DEF RootKept
  <2>3. UNCHANGED Transaction!vars
    BY <2>1 DEF Transaction!vars, Source, Told
  <2>. QED
    BY <2>2, <2>3
<1>2. CASE Drive
  BY <1>2, DriveSteps DEF Transaction!Next
<1>3. CASE Begin \/ Prepare_Metadata
  BY <1>3, BeginSteps DEF Transaction!Next
<1>4. CASE Open_Record
  BY <1>4, OpenSteps DEF Transaction!Next
<1>5. CASE Ask_Field
  BY <1>5, AskSteps DEF Transaction!Next
<1>6. CASE Reject_Field
  BY <1>6, RejectSteps DEF Transaction!Next
<1>7. CASE Decode_Field
  BY <1>7, DecodeSteps DEF Transaction!Next
<1>8. CASE Misread_Field \/ Apply_Missing \/ Finish_Candidate
  BY <1>8, ApplicationSteps DEF Transaction!Next
<1>9. CASE Skip_Field
  BY <1>9, SkipSteps DEF Transaction!Next
<1>10. CASE Close_Record \/ Prove_Whole
  BY <1>10, CloseSteps DEF Transaction!Next
<1>11. CASE Commit_Candidate
  BY <1>11, CommitSteps DEF Transaction!Next
<1>. QED
  BY <1>1, <1>2, <1>3, <1>4, <1>5, <1>6, <1>7, <1>8, <1>9, <1>10, <1>11 DEF RootNext, Deserialize

\* A call starts from a reader that was never used.
LEMMA RootBegins == RootInit => RootKept /\ Transaction!Init
<1>. SUFFICES ASSUME RootInit PROVE RootKept /\ Transaction!Init
  OBVIOUS
<1>1. /\ from = Fresh /\ pc = "idle" /\ raised = FALSE
      /\ setup \in [record : Records, policy : Policies]
      /\ builder = [candidate |-> builder.candidate, published |-> builder.published]
  BY DEF RootInit
<1>2. Live(from) /\ from.error = NoError /\ from.raw = <<>>
  <2>1. NoError \in Errors
    BY DEF Errors
  <2>. QED
    BY <1>1, <2>1, FreshIs
<1>3. ~from.failed /\ ~from.complete
  BY <1>1 DEF Fresh
<1>4. RootKept
  BY <1>1, <1>2 DEF RootKept
<1>5. Transaction!Init
  BY <1>1, <1>2, <1>3 DEF Transaction!Init, Status
<1>. QED
  BY <1>4, <1>5

\* Between its calls, the caller of Deserialization_Adapters.Deserialize sees the
\* transaction: one step of it per call, whatever the source showed, the policy said and the
\* application answered.
THEOREM DeserializeIsTransactionalHolds == RootSpec => DeserializeIsTransactional
<1>1. RootInit => RootKept /\ Transaction!Init
  BY RootBegins
<1>2. RootKept /\ [RootNext]_rootVars => RootKept' /\ [Transaction!Next]_(Transaction!vars)
  BY RootSteps
<1>. QED
  BY <1>1, <1>2, PTL DEF RootSpec, DeserializeIsTransactional, Transaction!Spec

-----------------------------------------------------------------------------
(* The reference run of the tokens consumed. *)

\* The order of the numbers, as a relation.
Below == {ss \in Nat \X Nat : ss[1] < ss[2]}

\* No chain of numbers descends for ever.
LEMMA BelowIsWellFounded == IsWellFoundedOn(Below, Nat)
<1>1. IsWellFoundedOn({ss \in Nat \X Nat : ss[1] < ss[2]}, Nat)
  BY NatLessThanWellFounded DEF OpToRel
<1>. QED
  BY <1>1 DEF Below

\* A set of numbers that is not empty has a least one.
LEMMA Least ==
  ASSUME NEW T, T \subseteq Nat, T # {}
  PROVE  \E x \in T : \A y \in T : ~(y < x)
<1>1. PICK x \in T : \A y \in T : ~(<<y, x>> \in Below)
  BY BelowIsWellFounded, WFMin
<1>. QED
  BY <1>1 DEF Below

\* What holds of 0, and of n + 1 whenever of n, holds of every number: a set states it, which
\* needs no operator as a parameter.
LEMMA Induction ==
  ASSUME NEW T, 0 \in T, \A n \in T : n + 1 \in T
  PROVE  Nat \subseteq T
<1>. DEFINE U == Nat \ T
<1>1. SUFFICES ASSUME U # {} PROVE FALSE
  OBVIOUS
<1>2. PICK x \in U : \A y \in U : ~(y < x)
  BY <1>1, Least
<1>3. x \in Nat /\ x # 0 /\ x - 1 \in Nat /\ x - 1 < x /\ (x - 1) + 1 = x
  BY <1>2
<1>4. x - 1 \in T
  BY <1>2, <1>3
<1>. QED
  BY <1>2, <1>3, <1>4

\* What the reference decoder knows after each of the tokens h.
IsRun(d, h) ==
  d = [i \in 0..Len(h) |-> IF i = 0 THEN Grammar!Start
                           ELSE Grammar!ReadToken(d[i - 1], Structure(h[i]))]

\* The only run of h.
RunOf(h) == CHOOSE d : IsRun(d, h)

\* The reference of the specification is the run of the history.
LEMMA DecodingIs == Decoding = RunOf(history)
BY DEF Decoding, RunOf, IsRun

\* A run goes on with one more token, and its beginning stays.
Longer(d, h, t) ==
  [i \in 0..(Len(h) + 1) |-> IF i <= Len(h) THEN d[i]
                             ELSE Grammar!ReadToken(d[Len(h)], Structure(t))]

\* A run that goes on is the run of the tokens and one more.
LEMMA RunGoesOn ==
  ASSUME NEW h \in Seq(Tokens), NEW t \in Tokens, NEW d, IsRun(d, h)
  PROVE  IsRun(Longer(d, h, t), Append(h, t))
<1>. DEFINE e == Longer(d, h, t)
            x == Append(h, t)
<1>1. /\ Len(h) \in Nat /\ Len(x) = Len(h) + 1 /\ x[Len(h) + 1] = t
      /\ \A i \in 1..Len(h) : x[i] = h[i]
  OBVIOUS
<1>2. \A i \in 0..Len(h) : d[i] = IF i = 0 THEN Grammar!Start
                                  ELSE Grammar!ReadToken(d[i - 1], Structure(h[i]))
  BY <1>1 DEF IsRun
<1>3. /\ \A i \in 0..Len(h) : e[i] = d[i]
      /\ e[Len(h) + 1] = Grammar!ReadToken(d[Len(h)], Structure(t))
  BY <1>1 DEF Longer
<1>4. e = [i \in 0..(Len(h) + 1) |-> e[i]]
  BY DEF Longer
<1>. HIDE DEF e, x
<1>5. ASSUME NEW i \in 0..(Len(h) + 1)
      PROVE  e[i] = IF i = 0 THEN Grammar!Start
                    ELSE Grammar!ReadToken(e[i - 1], Structure(x[i]))
  <2>1. CASE i = 0
    BY <1>1, <1>2, <1>3, <2>1
  <2>2. CASE i \in 1..Len(h)
    <3>1. i \in 0..Len(h) /\ i - 1 \in 0..Len(h) /\ i # 0
      BY <1>1, <2>2
    <3>. QED
      BY <1>1, <1>2, <1>3, <2>2, <3>1
  <2>3. CASE i = Len(h) + 1
    <3>1. i - 1 = Len(h) /\ i # 0 /\ Len(h) \in 0..Len(h)
      BY <1>1, <2>3
    <3>. QED
      BY <1>1, <1>3, <2>3, <3>1
  <2>. QED
    BY <1>1, <2>1, <2>2, <2>3
<1>6. e = [i \in 0..Len(x) |-> IF i = 0 THEN Grammar!Start
                               ELSE Grammar!ReadToken(e[i - 1], Structure(x[i]))]
  <2>1. 0..Len(x) = 0..(Len(h) + 1)
    BY <1>1
  <2>. QED
    BY <1>4, <1>5, <2>1
<1>7. IsRun(e, x)
  BY <1>6 DEF IsRun
<1>. QED
  BY <1>7 DEF e, x

\* Every sequence of tokens has a run.
LEMMA RunIs ==
  ASSUME NEW h \in Seq(Tokens)
  PROVE  IsRun(RunOf(h), h)
<1>. DEFINE T == {n \in Nat : \A g \in Seq(Tokens) : Len(g) = n => \E d : IsRun(d, g)}
<1>1. 0 \in T
  <2>1. SUFFICES ASSUME NEW g \in Seq(Tokens), Len(g) = 0 PROVE \E d : IsRun(d, g)
    OBVIOUS
  <2>. DEFINE d == [i \in 0..Len(g) |-> Grammar!Start]
  <2>2. \A i \in 0..Len(g) : i = 0
    BY <2>1
  <2>3. d = [i \in 0..Len(g) |-> IF i = 0 THEN Grammar!Start
                                 ELSE Grammar!ReadToken(d[i - 1], Structure(g[i]))]
    BY <2>2
  <2>. QED
    BY <2>3 DEF IsRun
<1>2. \A n \in T : n + 1 \in T
  <2>1. ASSUME NEW n \in T, NEW g \in Seq(Tokens), Len(g) = n + 1
        PROVE  \E d : IsRun(d, g)
    <3>. DEFINE f == SubSeq(g, 1, n)
    <3>1. f \in Seq(Tokens) /\ Len(f) = n /\ g[n + 1] \in Tokens /\ n \in Nat
      BY <2>1
    <3>2. Append(f, g[n + 1]) = g
      BY <2>1, <3>1
    <3>3. PICK d : IsRun(d, f)
      BY <3>1
    <3>4. IsRun(Longer(d, f, g[n + 1]), Append(f, g[n + 1]))
      BY <3>1, <3>3, RunGoesOn
    <3>. QED
      BY <3>2, <3>4
  <2>2. \A n \in T : n + 1 \in Nat
    OBVIOUS
  <2>. QED
    BY <2>1, <2>2
<1>3. Nat \subseteq T
  BY <1>1, <1>2, Induction
<1>4. \E d : IsRun(d, h)
  BY <1>3
<1>. QED
  BY <1>4 DEF RunOf

\* Every run starts before the first token.
LEMMA RunStarts ==
  ASSUME NEW h \in Seq(Tokens)
  PROVE  RunOf(h)[0] = Grammar!Start
<1>1. RunOf(h) = [i \in 0..Len(h) |-> IF i = 0 THEN Grammar!Start
                   ELSE Grammar!ReadToken(RunOf(h)[i - 1], Structure(h[i]))]
  BY RunIs DEF IsRun
<1>2. 0 \in 0..Len(h)
  OBVIOUS
<1>. QED
  BY <1>1, <1>2

\* One more token leaves what was known before it alone.
LEMMA RunExtends ==
  ASSUME NEW h \in Seq(Tokens), NEW t \in Tokens
  PROVE  /\ \A i \in 0..Len(h) : RunOf(Append(h, t))[i] = RunOf(h)[i]
         /\ RunOf(Append(h, t))[Len(h) + 1]
              = Grammar!ReadToken(RunOf(h)[Len(h)], Structure(t))
<1>. DEFINE d == RunOf(h)
            x == Append(h, t)
            e == RunOf(x)
            T == {n \in Nat : n <= Len(h) => e[n] = d[n]}
<1>1. /\ Len(h) \in Nat /\ Len(x) = Len(h) + 1 /\ x[Len(h) + 1] = t /\ x \in Seq(Tokens)
      /\ \A i \in 1..Len(h) : x[i] = h[i]
  OBVIOUS
<1>2. /\ IsRun(d, h) /\ IsRun(e, x)
  BY <1>1, RunIs
<1>. HIDE DEF d, e, x
<1>3. \A i \in 0..Len(h) : d[i] = IF i = 0 THEN Grammar!Start
                                  ELSE Grammar!ReadToken(d[i - 1], Structure(h[i]))
  BY <1>1, <1>2 DEF IsRun
<1>4. \A i \in 0..(Len(h) + 1) : e[i] = IF i = 0 THEN Grammar!Start
                                        ELSE Grammar!ReadToken(e[i - 1], Structure(x[i]))
  BY <1>1, <1>2 DEF IsRun
<1>5. 0 \in T
  BY <1>1, <1>3, <1>4
<1>6. ASSUME NEW n \in T, n + 1 <= Len(h)
      PROVE  e[n + 1] = d[n + 1]
  <2>1. /\ n + 1 \in 0..Len(h) /\ n + 1 \in 0..(Len(h) + 1) /\ n + 1 # 0 /\ (n + 1) - 1 = n
        /\ n + 1 \in 1..Len(h) /\ n <= Len(h)
    BY <1>1, <1>6
  <2>2. e[n] = d[n] /\ x[n + 1] = h[n + 1]
    BY <1>1, <2>1
  <2>3. d[n + 1] = Grammar!ReadToken(d[n], Structure(h[n + 1]))
    BY <1>3, <2>1
  <2>4. e[n + 1] = Grammar!ReadToken(e[n], Structure(x[n + 1]))
    BY <1>4, <2>1
  <2>. QED
    BY <2>2, <2>3, <2>4
<1>7. \A n \in T : n + 1 \in T
  BY <1>6
<1>8. Nat \subseteq T
  BY <1>5, <1>7, Induction
<1>9. \A i \in 0..Len(h) : e[i] = d[i]
  BY <1>1, <1>8
<1>10. e[Len(h) + 1] = Grammar!ReadToken(e[Len(h)], Structure(t))
  <2>1. Len(h) + 1 \in 0..(Len(h) + 1) /\ Len(h) + 1 # 0 /\ (Len(h) + 1) - 1 = Len(h)
    BY <1>1
  <2>. QED
    BY <1>1, <1>4, <2>1
<1>11. e[Len(h)] = d[Len(h)]
  BY <1>1, <1>9
<1>. QED
  BY <1>9, <1>10, <1>11 DEF d, e, x

-----------------------------------------------------------------------------
(* The entry of the root is the first of the decoder's, and stays there. *)

\* What Until does to the first entry.
LEMMA FirstPlace ==
  ASSUME NEW g \in Decoders, ~g.bad, g.body = 0,
         NEW d \in Owing(g.open), \A y \in Owing(g.open) : d >= y, NEW e
  PROVE  LET u == Grammar!Until(g, d, e) IN
         /\ u.open # <<>> /\ Len(u.open) = d
         /\ u.open[1] = (IF Owing(g.open) = {1} THEN e ELSE g.open[1])
         /\ Grammar!Incomplete(g) = Owing(g.open) /\ Grammar!Max(Owing(g.open)) = d
         /\ u.bad = FALSE
<1>1. g.open \in Seq(Entries)
  BY DEF Decoders
<1>2. d \in 1..Len(g.open) /\ Len(g.open) \in Nat
  BY <1>1, LenProperties DEF Owing
<1>. DEFINE q == [SubSeq(g.open, 1, d) EXCEPT ![d] = e]
<1>3. Grammar!Until(g, d, e) = [g EXCEPT !.open = q]
  BY DEF Grammar!Until
<1>4. Len(SubSeq(g.open, 1, d)) = d /\ SubSeq(g.open, 1, d)[1] = g.open[1]
  BY <1>1, <1>2
<1>5. q = [i \in 1..d |-> IF i = d THEN e ELSE SubSeq(g.open, 1, d)[i]]
  <2>1. SubSeq(g.open, 1, d) = [i \in 1..d |-> g.open[i]]
    BY <1>1, <1>2
  <2>. QED
    BY <2>1
<1>6. Len(q) = d /\ q # <<>> /\ q[1] = IF d = 1 THEN e ELSE g.open[1]
  BY <1>2, <1>4, <1>5
<1>7. Owing(g.open) = {1} <=> d = 1
  BY <1>2 DEF Owing
<1>8. Owing(g.open) \subseteq Nat /\ Grammar!Incomplete(g) = Owing(g.open)
  BY <1>2 DEF Owing, Grammar!Incomplete, Pending
<1>9. Grammar!Max(Owing(g.open)) = d
  BY <1>8, MaxIs
<1>. HIDE DEF q
<1>. QED
  BY <1>3, <1>6, <1>7, <1>8, <1>9 DEF Decoders

\* An item fills the first entry if that alone is owed anything, and else leaves it alone.
LEMMA RootFilled ==
  ASSUME NEW g \in Decoders, ~g.bad, g.body = 0,
         NEW d \in Owing(g.open), \A y \in Owing(g.open) : d >= y,
         NEW t \in Tokens, t.head # "break"
  PROVE  LET u == Grammar!ReadToken(g, Structure(t)) IN
         /\ u.open # <<>>
         /\ u.open[1] = (IF Owing(g.open) = {1} THEN Grammar!Filled(g.open[1]) ELSE g.open[1])
<1>. DEFINE h == Grammar!ReadItem(g)
            in == Owing(g.open)
            u == Grammar!Until(g, d, Grammar!Filled(g.open[d]))
            b == (IF in = {1} THEN Grammar!Filled(g.open[1]) ELSE g.open[1])
<1>1. /\ u.open # <<>> /\ Len(u.open) = d
      /\ u.open[1] = (IF Owing(g.open) = {1} THEN Grammar!Filled(g.open[d]) ELSE g.open[1])
      /\ Grammar!Incomplete(g) = Owing(g.open) /\ Grammar!Max(Owing(g.open)) = d /\ u.bad = FALSE
  BY FirstPlace
<1>2. in = {1} => d = 1
  OBVIOUS
<1>3. g.open \in Seq(Entries) /\ d \in 1..Len(g.open)
  BY DEF Owing, Decoders
<1>4. u.open[1] = b /\ u.open # <<>> /\ u.bad = FALSE
  BY <1>1, <1>2
<1>. HIDE DEF u, in, b
<1>5. h = u
  BY <1>1 DEF Grammar!ReadItem, u, in
<1>6. DOMAIN g = {"open", "started", "body", "bad"}
  BY DEF Decoders
<1>7. u.open \in Seq(Entries) /\ DOMAIN u = {"open", "started", "body", "bad"}
  <2>1. Pending(g.open[d]) /\ g.open[d] \in Entries
    BY <1>3 DEF Owing
  <2>2. Grammar!Filled(g.open[d]) \in Entries
    BY <2>1, FilledIs
  <2>3. [SubSeq(g.open, 1, d) EXCEPT ![d] = Grammar!Filled(g.open[d])] \in Seq(Entries)
    <3>1. SubSeq(g.open, 1, d) \in Seq(Entries) /\ Len(SubSeq(g.open, 1, d)) = d
      BY <1>3
    <3>2. d \in 1..d
      BY <1>3
    <3>. QED
      BY <2>2, <3>1, <3>2, ExceptSeq
  <2>. QED
    BY <1>6, <2>3 DEF u, Grammar!Until, Decoders
<1>8. \A e : LET v == Grammar!ReadHead(g, e) IN v.open # <<>> /\ v.open[1] = b
  <2>1. SUFFICES ASSUME NEW e
                 PROVE  Grammar!ReadHead(g, e).open # <<>> /\ Grammar!ReadHead(g, e).open[1] = b
    OBVIOUS
  <2>. DEFINE q == Append(u.open, e)
  <2>2. Grammar!ReadHead(g, e) = [u EXCEPT !.open = q]
    BY <1>4, <1>5 DEF Grammar!ReadHead
  <2>3. q # <<>> /\ q[1] = u.open[1]
    BY <1>4, <1>7
  <2>. HIDE DEF q
  <2>. QED
    BY <1>4, <1>7, <2>2, <2>3
<1>9. \A n : [u EXCEPT !.body = n].open = u.open
  BY <1>7
<1>. HIDE DEF h
<1>10. CASE Opens(t)
  <2>1. \E e : Grammar!ReadToken(g, Structure(t)) = Grammar!ReadHead(g, e)
    <3>1. CASE t.head = "array"
      BY <3>1 DEF Structure, Grammar!ReadToken
    <3>2. CASE t.head = "map"
      BY <3>2 DEF Structure, Grammar!ReadToken
    <3>3. CASE t.head = "tag"
      BY <3>3 DEF Structure, Grammar!ReadToken
    <3>4. CASE t.head = "array_start"
      BY <3>4 DEF Structure, Grammar!ReadToken
    <3>5. CASE t.head = "map_start"
      BY <3>5 DEF Structure, Grammar!ReadToken
    <3>. QED
      BY <1>10, <3>1, <3>2, <3>3, <3>4, <3>5 DEF Opens
  <2>. QED
    BY <1>8, <2>1 DEF b, in
<1>11. CASE ~Opens(t)
  <2>1. Structure(t) = [head |-> IF IsText(t) THEN "string" ELSE "scalar", count |-> 0]
    BY <1>11 DEF Opens, Structure
  <2>2. CASE IsText(t)
    <3>1. Grammar!ReadToken(g, Structure(t)) = IF h.bad THEN h ELSE [h EXCEPT !.body = 0]
      BY <2>1, <2>2 DEF Grammar!ReadToken, h
    <3>. QED
      BY <1>4, <1>5, <1>9, <3>1 DEF b, in
  <2>3. CASE ~IsText(t)
    <3>1. Grammar!ReadToken(g, Structure(t)) = h
      BY <2>1, <2>3 DEF Grammar!ReadToken, h
    <3>. QED
      BY <1>4, <1>5, <3>1 DEF b, in
  <2>. QED
    BY <2>2, <2>3
<1>. QED
  BY <1>10, <1>11

\* A break that is well placed ends an entry inside the first one.
LEMMA RootBroken ==
  ASSUME NEW g \in Decoders, ~g.bad, g.body = 0,
         NEW d \in Owing(g.open), \A y \in Owing(g.open) : d >= y,
         Owing(g.open) # {1}, ~Grammar!ReadBreak(g).bad
  PROVE  Grammar!ReadBreak(g).open # <<>> /\ Grammar!ReadBreak(g).open[1] = g.open[1]
<1>. DEFINE u == Grammar!Until(g, d, Grammar!Definite(0))
<1>1. /\ u.open # <<>> /\ u.open[1] = g.open[1]
      /\ Grammar!Incomplete(g) = Owing(g.open) /\ Grammar!Max(Owing(g.open)) = d
  BY FirstPlace
<1>2. Grammar!ReadBreak(g) = Grammar!Malformed \/ Grammar!ReadBreak(g) = u
  BY <1>1 DEF Grammar!ReadBreak
<1>. QED
  BY <1>1, <1>2 DEF Grammar!Malformed

\* Where the root alone is not filled up, it stands first.
LEMMA RootAlone ==
  ASSUME NEW p \in Seq(Entries), NEW o \in Seq(Entries), Same(p, o), Len(o) = 2,
         ~Pending(o[1]), p # <<>>, Pending(p[1])
  PROVE  Owing(p) = {1} /\ p[1] = o[2]
<1>1. PICK m \in [Owing(o) -> Owing(p)] :
        /\ \A i \in Owing(o) : p[m[i]] = o[i]
        /\ \A k \in Owing(p) : \E i \in Owing(o) : m[i] = k
  BY DEF Same
<1>2. 1 \in Owing(p)
  BY DEF Owing
<1>3. Owing(o) \subseteq {2}
  BY DEF Owing
<1>. QED
  BY <1>1, <1>2, <1>3

\* An item inside another is not the root's.
LEMMA RootNotAlone ==
  ASSUME NEW p \in Seq(Entries), NEW o \in Seq(Entries), Same(p, o), Len(o) > 2,
         Pending(o[Len(o)]), p # <<>>, p[1] = o[2]
  PROVE  Owing(p) # {1}
<1>1. PICK m \in [Owing(o) -> Owing(p)] :
        \A i, j \in Owing(o) : i < j => m[i] < m[j]
  BY DEF Same
<1>2. SUFFICES ASSUME Owing(p) = {1} PROVE FALSE
  OBVIOUS
<1>3. Pending(p[1])
  BY <1>2 DEF Owing
<1>4. 2 \in Owing(o) /\ Len(o) \in Owing(o) /\ 2 < Len(o)
  BY <1>3 DEF Owing
<1>5. m[2] < m[Len(o)]
  BY <1>1, <1>4
<1>. QED
  BY <1>1, <1>2, <1>4, <1>5

-----------------------------------------------------------------------------
(* What a call that is answered did. *)

\* The call consumed one token.
Consumes(r, t) ==
  /\ r.ahead # <<>>
  /\ t.ahead = Tail(r.ahead)
  /\ t.read = Grammar!ReadToken(r.read, Structure(Next_Token(r)))

\* A reader in order may serve a call; no call it refuses leaves it unlatched.
LEMMA LiveIsSound ==
  ASSUME NEW r, Live(r), ~Latched(r)
  PROVE  /\ Sound(r, FALSE) /\ r \in Readers /\ r.read \in Decoders
         /\ \A s : Refused(s, FALSE) => Latched(s)
BY DEF Live, Sound, Bounded, Readers, Refused

\* A value of the kind asked for, of which the head was consumed.
LEMMA ValueTaken ==
  ASSUME NEW r, Live(r), ~Latched(r), r.raw = <<>>, NEW b \in BOOLEAN,
         NEW t, t = Advance(Prepare_Value(
                      Unless(Inspect_Surface_Head(Check_Value_Ready(r)), b, "Unexpected_Kind"))),
         ~Latched(t)
  PROVE  /\ ~b /\ Familiar(r) /\ Expects(r)
         /\ t = Past(Begun(r)) /\ Sound(t, FALSE)
         /\ Consumes(r, t) /\ t.stack = Begun(r).stack /\ t.root = Begun(r).root
         /\ InProgress(t) /\ ~t.failed
<1>. DEFINE k == Unless(Inspect_Surface_Head(Check_Value_Ready(r)), b, "Unexpected_Kind")
            p == Prepare_Value(k)
            q == Begun(r)
<1>1. /\ Sound(r, FALSE) /\ r \in Readers /\ r.read \in Decoders
      /\ \A s : Refused(s, FALSE) => Latched(s)
  BY LiveIsSound
<1>2. Refused(k, FALSE) \/ (k = r /\ ~b /\ Familiar(r) /\ Expects(r))
  BY <1>1, KindChecked
<1>. HIDE DEF k
<1>3. ~Refused(k, FALSE)
  <2>1. Latched(k) => t = k
    BY Passes DEF k
  <2>. QED
    BY <1>1, <2>1
<1>4. k = r /\ ~b /\ Familiar(r) /\ Expects(r)
  BY <1>2, <1>3
<1>5. Refused(p, FALSE) \/ (p = q /\ r.values + 1 <= DecodeLimits.values)
  BY <1>1, <1>4, Prepared
<1>6. t = Advance(p)
  BY DEF k
<1>. HIDE DEF p
<1>7. ~Refused(p, FALSE)
  BY <1>1, <1>6, Passes
<1>8. p = q /\ r.values + 1 <= DecodeLimits.values
  BY <1>5, <1>7
<1>9. PICK o \in Seq(Entries) : Offers(r, o)
  BY <1>4, LiveOffers
<1>10. /\ Midway(q, FALSE) /\ InProgress(q)
       /\ q.read = r.read /\ q.ahead = r.ahead /\ q.input = r.input
  BY <1>1, <1>8, <1>9, BegunIs
<1>. HIDE DEF q
<1>11. Sound(q, FALSE) /\ q \in Readers /\ ~q.failed
  BY <1>10 DEF Midway, Sound, Bounded
<1>12. Seen(q) /\ Next_Token(q) = Next_Token(r) /\ Next_Token(q).head # "break"
  BY <1>4, <1>10 DEF Familiar, Seen, Next_Token, Input_Remaining
<1>13. Takes(q.read, o)
  BY <1>9, <1>10 DEF Offers
<1>14. Advance(q) = Past(q) /\ Midway(Past(q), FALSE)
  BY <1>10, <1>12, <1>13, PastMidway
<1>15. /\ Past(q).stack = q.stack /\ Past(q).root = q.root /\ Past(q).raw = q.raw
       /\ Past(q).failed = q.failed /\ Past(q).ahead = Tail(q.ahead)
  BY <1>11, PastKeeps
<1>16. Past(q).read = Grammar!ReadToken(q.read, Structure(Next_Token(q)))
  BY <1>11 DEF Past, Readers
<1>17. t = Past(q) /\ Sound(t, FALSE)
  BY <1>6, <1>8, <1>14 DEF Midway
<1>18. Consumes(r, t)
  BY <1>4, <1>10, <1>12, <1>15, <1>16, <1>17 DEF Consumes, Familiar, Seen
<1>19. InProgress(t)
  BY <1>10, <1>15, <1>17 DEF InProgress, Top
<1>. QED
  BY <1>4, <1>11, <1>15, <1>17, <1>18, <1>19 DEF q

\* The record is opened by the first token of the document.
LEMMA OpenIs ==
  ASSUME NEW r, Live(r), ~Latched(r), r.raw = <<>>, r.stack = <<>>,
         NEW t, t = Begin_Record(r), ~Latched(t)
  PROVE  /\ Consumes(r, t) /\ r.read = Grammar!Start
         /\ Next_Token(r) \in Tokens /\ IsMap(Next_Token(r))
         /\ t.stack = <<Frame("record", Next_Token(r))>>
<1>. DEFINE b == ~IsMap(Next_Token(r))
            v == Advance(Prepare_Value(
                   Unless(Inspect_Surface_Head(Check_Value_Ready(r)), b, "Unexpected_Kind")))
            f == Frame("record", Next_Token(r))
<1>1. /\ Sound(r, FALSE) /\ r \in Readers /\ r.read \in Decoders
      /\ \A s : Refused(s, FALSE) => Latched(s)
  BY LiveIsSound
<1>2. t = Push(v, f)
  BY DEF Begin_Record, Begin_Container, Require_Kind
<1>3. b \in BOOLEAN
  OBVIOUS
<1>. HIDE DEF v, b
<1>4. ~Latched(v)
  BY <1>2, Passes
<1>5. /\ ~b /\ Familiar(r) /\ Expects(r) /\ v = Past(Begun(r)) /\ Sound(v, FALSE)
      /\ Consumes(r, v) /\ v.stack = Begun(r).stack
  BY <1>3, <1>4, ValueTaken DEF v
<1>6. Next_Token(r) \in Tokens /\ IsMap(Next_Token(r))
  BY <1>5 DEF b, Familiar, Seen
<1>7. f \in Frames
  BY <1>6, FrameOfToken
<1>. HIDE DEF f
<1>8. Push(v, f) = Pushed(v, f)
  BY <1>1, <1>2, <1>5, <1>7, PushIs
<1>9. v \in Readers /\ v.stack = <<>>
  <2>1. Begun(r).stack = <<>>
    BY <1>1 DEF Begun, Readers
  <2>. QED
    BY <1>5, <2>1 DEF Sound, Bounded
<1>10. t.stack = <<f>> /\ t.ahead = v.ahead /\ t.read = v.read
  <2>1. Append(<<>>, f) = <<f>>
    BY <1>7
  <2>. QED
    BY <1>2, <1>8, <1>9, <2>1 DEF Pushed, Readers
<1>11. Consumes(r, t)
  BY <1>5, <1>10 DEF Consumes
<1>12. r.read = Grammar!Start
  <2>1. PICK o \in Seq(Entries) : Offers(r, o)
    BY <1>5, LiveOffers
  <2>2. o = <<>>
    BY <1>1, <2>1, OwesIs, ReaderIs DEF Offers
  <2>. QED
    BY <2>1, <2>2 DEF Offers, Takes
<1>. QED
  BY <1>6, <1>10, <1>11, <1>12 DEF f

\* Only the record is open.
InRecord(r) == Len(r.stack) = 1 /\ Top(r).kind = "record"

\* The frame of the record is the only one.
LEMMA InRecordIs ==
  ASSUME NEW r, Live(r), InRecord(r)
  PROVE  /\ r.stack # <<>> /\ r.stack[1] = Top(r) /\ Top(r) \in Frames /\ FrameOK(Top(r))
         /\ r.stack \in Seq(Frames) /\ r.root = "progress" /\ ~r.complete
<1>1. r \in Readers /\ r.stack # <<>>
  BY DEF Live, Bounded, InRecord
<1>2. Top(r) \in Frames /\ r.stack \in Seq(Frames)
  BY <1>1, TopIs, ReaderIs
<1>3. r.stack[1] = Top(r) /\ FrameOK(Top(r))
  BY <1>2 DEF InRecord, Top, Live
<1>4. r.root = "progress" /\ ~r.complete
  BY <1>1 DEF Live, Rooted
<1>. QED
  BY <1>1, <1>2, <1>3, <1>4

\* Beginning the value of a field.
LEMMA BegunInRecord ==
  ASSUME NEW r, Live(r), InRecord(r), Expects(r)
  PROVE  /\ Top(r).child = "ready"
         /\ Len(Begun(r).stack) = 1 /\ Begun(r).stack # <<>>
         /\ Top(Begun(r)) = [Top(r) EXCEPT !.child = "progress"]
         /\ Begun(r).read = r.read /\ Begun(r).ahead = r.ahead /\ Begun(r).raw = r.raw
         /\ Begun(r).failed = r.failed /\ Begun(r).error = r.error
<1>1. /\ r.stack # <<>> /\ r.stack \in Seq(Frames) /\ Top(r) \in Frames
      /\ r \in Readers
  BY InRecordIs DEF Live, Bounded
<1>2. Top(r).child = "ready"
  BY <1>1 DEF Expects, InRecord
<1>. DEFINE c == [Top(r) EXCEPT !.child = "progress"]
            k == [r.stack EXCEPT ![Len(r.stack)] = c]
<1>3. Commenced(Top(r)) = c
  BY DEF Commenced, InRecord
<1>4. c \in Frames
  BY <1>1 DEF Frames
<1>. HIDE DEF c
<1>5. k \in Seq(Frames) /\ Len(k) = 1 /\ k[1] = c
  BY <1>1, <1>4, ExceptSeq DEF InRecord
<1>6. Begun(r) = [r EXCEPT !.values = @ + 1, !.stack = k]
  BY <1>1, <1>3 DEF Begun, Readers
<1>. HIDE DEF k
<1>7. /\ Begun(r).stack = k /\ Begun(r).read = r.read /\ Begun(r).ahead = r.ahead
      /\ Begun(r).raw = r.raw /\ Begun(r).failed = r.failed /\ Begun(r).error = r.error
  BY ONLY <1>1, <1>6 DEF Readers
<1>8. k # <<>>
  BY <1>5
<1>. QED
  BY <1>2, <1>5, <1>7, <1>8 DEF Top, c

\* Finishing it.
LEMMA FinishInRecord ==
  ASSUME NEW v \in Readers, ~v.failed, Len(v.stack) = 1, Top(v).kind = "record",
         NEW t, t = Finish_Value(v), ~Latched(t)
  PROVE  /\ Len(t.stack) = 1 /\ Top(t) = [Top(v) EXCEPT !.child = "none"]
         /\ t.read = v.read /\ t.ahead = v.ahead /\ t.raw = v.raw
<1>. DEFINE u == Unless(v, ~InProgress(v), "Invalid_State")
            c == [Top(v) EXCEPT !.child = "none"]
<1>1. ~Latched(u)
  BY DEF Finish_Value
<1>2. v.stack # <<>>
  OBVIOUS
<1>3. t = SetTop(v, c)
  BY <1>1, <1>2 DEF Finish_Value
<1>4. c \in Frames
  <2>1. Top(v) \in Frames
    BY <1>2, TopIs
  <2>. QED
    BY <2>1 DEF Frames
<1>. HIDE DEF c
<1>. QED
  BY <1>2, <1>3, <1>4, SetTopIs DEF c

\* The value of a field is one token, and not a text.
LEMMA ReadIs ==
  ASSUME NEW r, Live(r), ~Latched(r), r.raw = <<>>, InRecord(r),
         NEW t, t = Read_Unsigned(r), ~Latched(t)
  PROVE  /\ Consumes(r, t) /\ Next_Token(r) \in Tokens /\ IsUnsigned(Next_Token(r))
         /\ Top(r).child = "ready"
         /\ Len(t.stack) = 1 /\ Top(t) = [Top(r) EXCEPT !.child = "none"]
<1>. DEFINE b == ~IsUnsigned(Next_Token(r))
            v == Advance(Prepare_Value(
                   Unless(Inspect_Surface_Head(Check_Value_Ready(r)), b, "Unexpected_Kind")))
<1>1. t = Finish_Value(v)
  BY DEF Read_Unsigned, Take_Value, Require_Kind
<1>2. b \in BOOLEAN
  BY DEF IsUnsigned
<1>. HIDE DEF v, b
<1>3. ~Latched(v)
  BY <1>1, Passes
<1>4. /\ ~b /\ Familiar(r) /\ Expects(r) /\ v = Past(Begun(r)) /\ Sound(v, FALSE)
      /\ Consumes(r, v) /\ v.stack = Begun(r).stack /\ ~v.failed
  BY <1>2, <1>3, ValueTaken DEF v
<1>5. Next_Token(r) \in Tokens /\ IsUnsigned(Next_Token(r))
  BY <1>4 DEF b, Familiar, Seen
<1>6. /\ Top(r).child = "ready" /\ Len(v.stack) = 1
      /\ Top(v) = [Top(r) EXCEPT !.child = "progress"] /\ v \in Readers
  <2>1. Top(v) = Top(Begun(r))
    BY <1>4 DEF Top
  <2>. QED
    BY <1>4, <2>1, BegunInRecord DEF Sound, Bounded
<1>7. Top(v).kind = "record" /\ [Top(v) EXCEPT !.child = "none"] = [Top(r) EXCEPT !.child = "none"]
  BY <1>6, InRecordIs DEF InRecord, Frames
<1>8. /\ Len(t.stack) = 1 /\ Top(t) = [Top(r) EXCEPT !.child = "none"]
      /\ t.read = v.read /\ t.ahead = v.ahead
  BY <1>1, <1>4, <1>6, <1>7, FinishInRecord
<1>9. Consumes(r, t)
  BY <1>4, <1>8 DEF Consumes
<1>. QED
  BY <1>5, <1>6, <1>8, <1>9

\* A skip begins with the value of a field, and consumes nothing yet.
LEMMA SkipIs ==
  ASSUME NEW r, Live(r), ~Latched(r), r.raw = <<>>, InRecord(r),
         NEW t, t = Skip_Value(r), ~Latched(t)
  PROVE  /\ t.ahead = r.ahead /\ t.read = r.read /\ t.raw = <<RawItems(1)>>
         /\ Top(r).child = "ready"
         /\ Len(t.stack) = 1 /\ Top(t) = [Top(r) EXCEPT !.child = "progress"]
<1>. DEFINE p == Prepare_Value(r)
            q == Begun(r)
            k == <<RawItems(1)>>
<1>1. /\ Sound(r, FALSE) /\ r \in Readers
      /\ \A s : Refused(s, FALSE) => Latched(s)
  BY LiveIsSound
<1>2. t = IF Latched(p) THEN p ELSE [p EXCEPT !.raw = k]
  BY DEF Skip_Value
<1>3. Refused(p, FALSE) \/ (p = q /\ Expects(r) /\ r.values + 1 <= DecodeLimits.values)
  BY <1>1, Prepared
<1>. HIDE DEF p, k
<1>4. p = q /\ Expects(r) /\ r.values + 1 <= DecodeLimits.values
  BY <1>1, <1>2, <1>3
<1>5. PICK o \in Seq(Entries) : Offers(r, o)
  BY <1>4, LiveOffers
<1>6. q \in Readers
  BY <1>1, <1>4, <1>5, BegunIs DEF Midway, Sound, Bounded
<1>. HIDE DEF q
<1>7. t.stack = q.stack /\ t.ahead = q.ahead /\ t.read = q.read /\ t.raw = k
  BY <1>2, <1>4, <1>6 DEF Readers
<1>. QED
  BY <1>4, <1>7, BegunInRecord DEF q, k, Top

\* A check that let the call go on changed nothing.
LEMMA UnlessIs ==
  ASSUME NEW r \in Readers, NEW b, NEW c, c # NoError, ~Latched(Unless(r, b, c))
  PROVE  Unless(r, b, c) = r
<1>1. CASE Latched(r)
  BY <1>1, Passes
<1>2. CASE ~Latched(r)
  <2>. DEFINE l == LatchCode(r, c)
  <2>1. l = [r EXCEPT !.error = c]
    BY <1>2 DEF LatchCode, Readers
  <2>2. DOMAIN l = DOMAIN r /\ l.error = c /\ "failed" \in DOMAIN r /\ "error" \in DOMAIN r
        /\ "scopes" \in DOMAIN r
    BY <2>1 DEF Readers
  <2>. HIDE DEF l
  <2>3. Fail(r, c) = [[l EXCEPT !.scopes = <<>>] EXCEPT !.failed = TRUE]
    BY <2>2 DEF Fail, Latch, Latched, Unwind, l
  <2>4. Latched(Fail(r, c))
    BY <2>2, <2>3 DEF Latched
  <2>. QED
    BY <2>4 DEF Unless
<1>. QED
  BY <1>1, <1>2

\* A child may be started, or the reader latches.
LEMMA StartIs ==
  ASSUME NEW r \in Readers, ~Latched(Require_Child_Start(r))
  PROVE  Require_Child_Start(r) = r
<1>. DEFINE shown == Unless(r, r.ahead = <<>>, Starved)
            inside == Unless(shown, Next_Token(r).head = "end", "Syntax_Error")
            allowed == Unless(inside, Input_Remaining(r) = 0, "Capacity_Exceeded")
            i == Unless(allowed, Next_Token(r).head = "reserved", "Syntax_Error")
            u == Unless(i, Next_Token(r).head = "break", "Syntax_Error")
<1>1. Require_Child_Start(r) = u
  BY DEF Require_Child_Start, Inspect_Head
<1>2. \A c \in {Starved, "Syntax_Error", "Capacity_Exceeded"} : c # NoError
  BY DEF Starved, NoError
<1>. HIDE DEF u
<1>3. ~Latched(i)
  BY <1>1, Passes DEF u
<1>. HIDE DEF i
<1>4. ~Latched(allowed)
  BY <1>3, Passes DEF i
<1>. HIDE DEF allowed
<1>5. ~Latched(inside)
  BY <1>4, Passes DEF allowed
<1>. HIDE DEF inside
<1>6. ~Latched(shown)
  BY <1>5, Passes DEF inside
<1>7. shown = r
  BY <1>2, <1>6, UnlessIs
<1>. HIDE DEF shown
<1>8. inside = r
  BY <1>2, <1>5, <1>7, UnlessIs DEF inside
<1>9. allowed = r
  BY <1>2, <1>4, <1>8, UnlessIs DEF allowed
<1>10. i = r
  BY <1>2, <1>3, <1>9, UnlessIs DEF i
<1>. QED
  BY <1>1, <1>2, <1>10, UnlessIs DEF u

\* Charging an item touches the budget only.
LEMMA ItemCharged ==
  ASSUME NEW s \in Readers, NEW u, u = Charge_Item(s), ~Latched(u)
  PROVE  u \in Readers /\ u.stack = s.stack /\ u.read = s.read /\ u.ahead = s.ahead
<1>. DEFINE c == Consume_Container_Item(s)
            d == Len(s.scopes)
            k == [s.scopes EXCEPT ![d] = @ + 1]
<1>1. CASE Latched(s)
  BY <1>1, Passes
<1>2. CASE ~Latched(s)
  <2>1. u = IF Latched(c) THEN [Unwind(c) EXCEPT !.failed = TRUE] ELSE c
    BY <1>2 DEF Charge_Item, Charged, Latch
  <2>2. s.error = NoError /\ s.scopes \in Seq(Nat) /\ d \in Nat
    BY <1>2, ReaderIs DEF Latched
  <2>3. \A x \in {"Invalid_State", "Capacity_Exceeded"} : Latched(LatchCode(s, x))
    BY <1>2, <2>2 DEF LatchCode, Latched, NoError, Readers
  <2>4. \A x : Latched(x) /\ x \in Readers => Latched([Unwind(x) EXCEPT !.failed = TRUE])
    BY DEF Latched, Unwind, Readers
  <2>5. \A x \in {"Invalid_State", "Capacity_Exceeded"} : LatchCode(s, x) \in Readers
    BY <1>2 DEF LatchCode, Readers, Errors, Codes
  <2>6. c = [s EXCEPT !.scopes = k] /\ d > 0
    <3>. HIDE DEF k, d
    <3>1. \/ c = LatchCode(s, "Invalid_State") \/ c = LatchCode(s, "Capacity_Exceeded")
          \/ (c = [s EXCEPT !.scopes[d] = @ + 1] /\ d # 0)
      BY DEF Consume_Container_Item, d
    <3>2. c = [s EXCEPT !.scopes[d] = @ + 1] /\ d # 0
      BY <2>1, <2>3, <2>4, <2>5, <3>1
    <3>3. [s EXCEPT !.scopes[d] = @ + 1] = [s EXCEPT !.scopes = k]
      BY DEF k, Readers
    <3>. QED
      BY <2>2, <3>2, <3>3 DEF d
  <2>7. k \in Seq(Nat)
    <3>1. d \in 1..d /\ s.scopes[d] + 1 \in Nat
      BY <2>2, <2>6
    <3>. QED
      BY <2>2, <3>1, ExceptSeq
  <2>. HIDE DEF k, c
  <2>8. c \in Readers /\ c.stack = s.stack /\ c.read = s.read /\ c.ahead = s.ahead
    BY ONLY <2>6, <2>7, s \in Readers DEF Readers
  <2>9. u = c
    BY <2>1, <2>4, <2>8
  <2>. QED
    BY <2>8, <2>9
<1>. QED
  BY <1>1, <1>2

\* What asking for a field found: the end of the record, or a name.
LEMMA FieldIs ==
  ASSUME NEW r, Live(r), ~Latched(r), r.raw = <<>>, InRecord(r),
         NEW t, t = Next_Field(r, TRUE), ~Latched(t)
  PROVE  /\ Top(r).child = "none" /\ Len(t.stack) = 1
         /\ \/ /\ t.ahead = r.ahead /\ t.read = r.read
               /\ Top(t) = [Top(r) EXCEPT !.exhausted = TRUE]
            \/ /\ Consumes(r, t) /\ Next_Token(r) \in Tokens /\ IsText(Next_Token(r))
               /\ Top(t) = Announce(Top(r))
               /\ Pending(Main(Top(r))) /\ Main(Top(t)) = Grammar!Filled(Main(Top(r)))
<1>. DEFINE kinds == {"record", "variant"}
            f == Top(r)
            b == \/ r.stack = <<>> \/ Top(r).kind \notin kinds
                 \/ ~Idle(Top(r)) \/ Top(r).exhausted
            k == Unless(r, b, "Invalid_State")
            v == Inspect_Head(k)
            Named(s) == Require_Child_Start(Advance(Scan_Text(s, TRUE)))
            e == Named(Require_Child_Start(k))
            c == Charge_Item(e)
<1>1. /\ Sound(r, FALSE) /\ r \in Readers /\ r.read \in Decoders
      /\ \A s : Refused(s, FALSE) => Latched(s)
  BY LiveIsSound
<1>2. Require_Ready(r) = r
  BY <1>1 DEF Require_Ready, Unless, Sound
<1>3. t = IF Latched(k) THEN k
          ELSE IF f.known /\ f.observed = f.declared THEN Exhausted(k)
          ELSE IF f.indefinite /\ Latched(v) THEN v
          ELSE IF f.indefinite /\ At_Break(v) THEN Exhausted(v)
          ELSE Announced(c)
  BY <1>2 DEF Next_Field, Next_Child
<1>4. k = r /\ ~b
  <2>1. b \in BOOLEAN
    OBVIOUS
  <2>2. IF b THEN Refused(k, FALSE) ELSE k = r
    BY <1>1, <2>1, UnlessSplits DEF Codes, Starved
  <2>. HIDE DEF b, k
  <2>3. ~Latched(k)
    BY <1>3
  <2>. QED
    BY <1>1, <2>2, <2>3
<1>5. /\ r.stack # <<>> /\ f.kind = "record" /\ Idle(f) /\ ~f.exhausted /\ f.child = "none"
      /\ f \in Frames /\ FrameOK(f)
  BY <1>4, InRecordIs DEF Idle, InRecord
<1>6. ASSUME NEW s, s = r, t = Exhausted(s)
      PROVE  /\ Len(t.stack) = 1 /\ t.ahead = r.ahead /\ t.read = r.read
             /\ Top(t) = [Top(r) EXCEPT !.exhausted = TRUE]
  <2>. DEFINE x == [Top(r) EXCEPT !.exhausted = TRUE]
  <2>1. x \in Frames
    BY <1>5 DEF Frames
  <2>2. t = SetTop(r, x)
    BY <1>6 DEF Exhausted
  <2>. HIDE DEF x
  <2>0. Len(r.stack) = 1
    BY DEF InRecord
  <2>. DEFINE u == SetTop(r, x)
  <2>3. /\ Len(u.stack) = Len(r.stack) /\ u.ahead = r.ahead /\ u.read = r.read /\ Top(u) = x
    BY <1>1, <1>5, <2>1, SetTopIs
  <2>. HIDE DEF u
  <2>4. /\ Len(t.stack) = 1 /\ t.ahead = r.ahead /\ t.read = r.read /\ Top(t) = x
    BY <2>0, <2>2, <2>3 DEF u
  <2>. QED
    BY <2>4 DEF x
<1>. HIDE DEF k, b, e, c
<1>7. CASE f.known /\ f.observed = f.declared
  <2>1. t = Exhausted(r)
    BY <1>3, <1>4, <1>7
  <2>. QED
    BY <1>5, <1>6, <2>1
<1>8. CASE ~(f.known /\ f.observed = f.declared)
  <2>1. f.indefinite =>
              \/ Latched(v) /\ Refused(v, FALSE)
              \/ v = r /\ ~Latched(v)
    BY <1>1, <1>4, <1>5, <1>8, Sought
  <2>2. f.indefinite => v = r /\ ~Latched(v)
    BY <1>3, <1>4, <1>8, <2>1
  <2>3. CASE f.indefinite /\ At_Break(v)
    <3>1. t = Exhausted(v)
      BY <1>3, <1>4, <1>8, <2>2, <2>3
    <3>. HIDE DEF v
    <3>. QED
      BY <1>5, <1>6, <2>2, <2>3, <3>1
  <2>4. CASE ~(f.indefinite /\ At_Break(v))
    <3>1. t = Announced(c)
      BY <1>3, <1>4, <1>8, <2>2, <2>4
    <3>2. \/ Refused(Require_Child_Start(r), FALSE)
          \/ Require_Child_Start(r) = r /\ Seen(r) /\ Next_Token(r).head # "break"
      BY <1>1, <1>4, <1>5, <1>8, <2>2, <2>4, Sought
    <3>3. ~Latched(e) /\ ~Latched(c)
      <4>1. ~Latched(c)
        BY <3>1, Passes
      <4>. QED
        BY <4>1, Passes DEF c
    <3>4. ~Latched(Require_Child_Start(r))
      <4>. DEFINE y == Require_Child_Start(k)
      <4>1. Latched(y) => e = y
        <5>1. e = Require_Child_Start(Advance(Scan_Text(y, TRUE)))
          BY DEF e
        <5>. HIDE DEF y
        <5>2. ASSUME Latched(y)
              PROVE  Require_Child_Start(Advance(Scan_Text(y, TRUE))) = y
          <6>1. Scan_Text(y, TRUE) = y /\ Advance(y) = y /\ Require_Child_Start(y) = y
            BY ONLY <5>2, Passes
          <6>. QED
            BY <6>1
        <5>. QED
          BY <5>1, <5>2
      <4>. QED
        BY <1>4, <3>3, <4>1
    <3>5. Require_Child_Start(r) = r /\ Seen(r) /\ Next_Token(r).head # "break"
      BY <1>1, <3>2, <3>4
    <3>6. PICK o \in Seq(Entries) :
            /\ Owes(r.stack, o) /\ Stands(r.read, o) /\ o # <<>> /\ o[Len(o)] = Main(f)
      BY <1>1, <1>5, Inside
    <3>7. Takes(r.read, o) /\ (f.known => f.observed < f.declared)
      BY <1>1, <1>5, <1>8, <3>6, Continues
    <3>. DEFINE s == Scan_Text(r, TRUE)
    <3>8. e = Require_Child_Start(Advance(s))
      BY <1>4, <3>5 DEF e
    <3>9. s = r /\ IsText(Next_Token(r))
      <4>1. ~Grammar!Whole(r.read)
        BY <1>1, <3>7, TakesIsNotWhole
      <4>2. Refused(s, FALSE) \/ (s = r /\ IsText(Next_Token(r)))
        BY <1>1, <3>5, <4>1, SurfaceIs, TextScanned
      <4>3. ~Latched(s)
        BY <3>3, <3>8, Passes
      <4>. QED
        BY <1>1, <4>2, <4>3
    <3>. HIDE DEF s
    <3>10. Advance(r) = Past(r) /\ Sound(Past(r), FALSE)
      <4>1. Sound(Past(r), FALSE)
        BY <1>1, <3>5, <3>7, PastTakes
      <4>. QED
        BY <1>1, <3>5, <4>1, PastIs
    <3>. DEFINE p == Past(r)
    <3>11. /\ p.stack = r.stack /\ p.ahead = Tail(r.ahead)
           /\ p.read = Grammar!ReadToken(r.read, Structure(Next_Token(r)))
      BY <1>1, PastKeeps DEF Past, Readers
    <3>. HIDE DEF p
    <3>12. e = p
      <4>1. e = Require_Child_Start(p)
        BY <3>8, <3>9, <3>10 DEF p
      <4>2. p \in Readers
        BY <3>10 DEF p, Sound, Bounded
      <4>. QED
        BY <3>3, <4>1, <4>2, StartIs
    <3>13. /\ p \in Readers /\ c \in Readers
           /\ c.stack = p.stack /\ c.read = p.read /\ c.ahead = p.ahead
      <4>1. p \in Readers
        BY <3>10 DEF p, Sound, Bounded
      <4>. QED
        BY <3>3, <3>12, <4>1, ItemCharged DEF c
    <3>. DEFINE g == Announce(f)
    <3>14. t = SetTop(c, g)
      <4>1. Top(c) = f
        BY <3>11, <3>13 DEF Top
      <4>. QED
        BY <1>5, <3>1, <3>3, <4>1 DEF Announced, Announce
    <3>15. g \in Frames /\ Pending(Main(f)) /\ Main(g) = Grammar!Filled(Main(f))
      BY <1>5, <3>7, AnnounceIs
    <3>. HIDE DEF g
    <3>16. /\ Len(t.stack) = 1 /\ t.ahead = c.ahead /\ t.read = c.read /\ Top(t) = g
      <4>1. Len(c.stack) = 1 /\ c.stack # <<>>
        BY <1>5, <3>11, <3>13 DEF InRecord
      <4>. QED
        <5>. DEFINE u == SetTop(c, g)
        <5>1. /\ Len(u.stack) = Len(c.stack) /\ u.ahead = c.ahead /\ u.read = c.read
              /\ Top(u) = g
          BY <3>13, <3>15, <4>1, SetTopIs
        <5>. HIDE DEF u
        <5>. QED
          BY <3>14, <4>1, <5>1 DEF u
    <3>17. Consumes(r, t)
      BY <3>5, <3>11, <3>13, <3>16 DEF Consumes, Seen
    <3>. QED
      BY <1>5, <3>5, <3>9, <3>15, <3>16, <3>17 DEF g, Seen
  <2>. QED
    BY <2>3, <2>4
<1>. QED
  BY <1>7, <1>8

\* Closing the record leaves none open, and consumes its break if it has one.
LEMMA CloseIs ==
  ASSUME NEW r, Live(r), ~Latched(r), r.raw = <<>>, InRecord(r),
         NEW t, t = End_Record(r), ~Latched(t)
  PROVE  /\ t.stack = <<>>
         /\ \/ t.ahead = r.ahead /\ t.read = r.read
            \/ Consumes(r, t) /\ Next_Token(r) \in Tokens /\ Next_Token(r).head = "break"
<1>. DEFINE f == Top(r)
            b == \/ r.stack = <<>> \/ Top(r).kind # "record"
                 \/ ~Idle(Top(r)) \/ ~Top(r).exhausted
            k == Unless(r, b, "Invalid_State")
            u == Closed_Item(r)
<1>1. /\ Sound(r, FALSE) /\ r \in Readers /\ r.read \in Decoders
      /\ \A s : Refused(s, FALSE) => Latched(s)
  BY LiveIsSound
<1>2. Require_Ready(r) = r
  BY <1>1 DEF Require_Ready, Unless, Sound
<1>3. t = IF Latched(k) THEN k ELSE Finish_Container(Closed_Item(k))
  BY <1>2 DEF End_Record, End_Item
<1>4. k = r /\ ~b
  <2>1. b \in BOOLEAN
    OBVIOUS
  <2>2. IF b THEN Refused(k, FALSE) ELSE k = r
    BY <1>1, <2>1, UnlessSplits DEF Codes, Starved
  <2>. HIDE DEF b, k
  <2>3. ~Latched(k)
    BY <1>3
  <2>. QED
    BY <1>1, <2>2, <2>3
<1>5. /\ r.stack # <<>> /\ f.kind = "record" /\ Idle(f) /\ f.exhausted /\ f \in Frames
      /\ Len(r.stack) = 1
  BY <1>4, InRecordIs DEF InRecord
<1>. HIDE DEF k, b
<1>6. t = Finish_Container(u)
  <2>1. k = r /\ ~Latched(r)
    BY <1>4
  <2>. QED
    BY <1>3, <2>1
<1>. HIDE DEF u
<1>7. ~Latched(u)
  BY <1>6, Passes
<1>8. PICK o \in Seq(Entries) :
        /\ Stands(r.read, o) /\ o # <<>> /\ o[Len(o)] = Main(f)
  BY <1>1, <1>5, Inside
<1>9. Midway(u, FALSE) /\ u.stack = r.stack
  <2>1. f.kind # "optional"
    BY <1>5
  <2>. QED
    BY <1>1, <1>5, <1>7, <1>8, <2>1, ItemClosed DEF u
<1>10. \/ u = r
       \/ Consumes(r, u) /\ Next_Token(r) \in Tokens /\ Next_Token(r).head = "break"
  <2>1. CASE ~f.indefinite
    BY <2>1 DEF u, Closed_Item
  <2>2. CASE f.indefinite
    <3>1. u = Advance(Unless(Inspect_Head(r), Next_Token(r).head # "break", "Syntax_Error"))
      BY <2>2 DEF u, Closed_Item, Consume_Break
    <3>2. NextIsBreak(r)
      BY <1>5, <2>2 DEF Live, Foreseen
    <3>3. Pending(Main(f))
      BY <1>5, <2>2 DEF Main, Pending, Run_Of
    <3>4. ~Grammar!Whole(r.read)
      <4>1. Takes(r.read, o)
        BY <1>8, <3>3 DEF Takes
      <4>. QED
        BY <1>1, <4>1, TakesIsNotWhole
    <3>. DEFINE i == Inspect_Head(r)
                w == Unless(i, Next_Token(r).head # "break", "Syntax_Error")
    <3>5. Refused(i, FALSE) \/ (i = r /\ Seen(r))
      BY <1>1, <3>4, Inspected
    <3>. HIDE DEF i
    <3>6. ~Latched(i)
      <4>1. ASSUME Latched(i) PROVE u = i
        <5>1. w = i /\ Advance(i) = i
          BY ONLY <4>1, Passes
        <5>. QED
          BY <3>1, <5>1 DEF i
      <4>. QED
        BY <1>7, <4>1
    <3>7. i = r /\ Seen(r)
      BY <1>1, <3>5, <3>6
    <3>8. u = Past(r)
      <4>1. w = r
        BY <3>2, <3>7 DEF Unless, NextIsBreak
      <4>2. Advance(r) = Past(r)
        BY <1>1, <3>7, PastIs
      <4>. QED
        BY <3>1, <4>1, <4>2 DEF i
    <3>9. u.ahead = Tail(r.ahead) /\ u.read = Grammar!ReadToken(r.read, Structure(Next_Token(r)))
      BY <1>1, <3>8 DEF Past, Readers
    <3>. QED
      BY <3>2, <3>7, <3>9 DEF Consumes, NextIsBreak, Seen
  <2>. QED
    BY <2>1, <2>2
<1>. DEFINE p == Popped(u)
<1>11. /\ t = Finish_Value(p) /\ Midway(p, FALSE) /\ Len(p.stack) = 0
       /\ p.read = u.read
  <2>1. u.stack # <<>> /\ Len(u.stack) = 1
    BY <1>5, <1>9
  <2>2. /\ Finish_Container(u) = Finish_Value(Popped(u)) /\ Midway(Popped(u), FALSE)
        /\ Len(Popped(u).stack) = Len(u.stack) - 1 /\ Popped(u).read = u.read
    BY ONLY <1>9, <2>1, PoppedIs
  <2>3. Len(Popped(u).stack) = 0
    <3>1. \A a : a = 1 - 1 => a = 0
      OBVIOUS
    <3>. QED
      BY ONLY <2>1, <2>2, <3>1
  <2>. HIDE DEF p
  <2>4. p = Popped(u)
    BY DEF p
  <2>. QED
    BY ONLY <1>6, <2>2, <2>3, <2>4
<1>12. p.ahead = u.ahead
  BY <1>9 DEF Popped, Midway, Sound, Bounded, Readers
<1>. HIDE DEF p
<1>13. p \in Readers /\ p.stack = <<>> /\ ~p.failed
  <2>1. p \in Readers /\ ~p.failed
    BY <1>11 DEF Midway, Sound, Bounded
  <2>. QED
    BY <1>11, <2>1, ReaderIs
<1>14. t = [p EXCEPT !.root = "complete"]
  <2>. DEFINE x == Unless(p, ~InProgress(p), "Invalid_State")
  <2>1. ~Latched(x)
    BY <1>11 DEF Finish_Value
  <2>. QED
    BY <1>11, <1>13, <2>1 DEF Finish_Value
<1>15. t.stack = <<>> /\ t.ahead = u.ahead /\ t.read = u.read
  BY <1>11, <1>12, <1>13, <1>14 DEF Readers
<1>. QED
  BY <1>10, <1>15 DEF Consumes

\* Finishing the document looks at the next token only.
LEMMA DocumentIs ==
  ASSUME NEW r \in Readers, NEW t, t = Finish_Document(r), ~Latched(t)
  PROVE  t.ahead = r.ahead /\ t.read = r.read /\ t.stack = r.stack
<1>. DEFINE k == Unless(Require_Ready(r), r.root # "complete" \/ r.stack # <<>>, "Invalid_State")
<1>1. t = IF Latched(k) THEN k
          ELSE IF k.ahead = <<>> THEN [k EXCEPT !.error = Starved]
          ELSE IF Next_Token(k).head # "end" THEN Fail(k, "Syntax_Error")
          ELSE [k EXCEPT !.complete = TRUE]
  BY DEF Finish_Document
<1>2. k = r
  <2>1. Require_Ready(r) = Unless(r, r.failed, "Invalid_State")
    BY DEF Require_Ready
  <2>. DEFINE q == Require_Ready(r)
  <2>2. ~Latched(q)
    <3>1. ASSUME Latched(q) PROVE FALSE
      <4>1. k = q
        BY ONLY <3>1, Passes
      <4>. HIDE DEF k, q
      <4>. QED
        BY <1>1, <3>1, <4>1
    <3>. QED
      BY <3>1
  <2>3. q = r
    BY <2>1, <2>2, UnlessIs DEF NoError
  <2>. HIDE DEF q
  <2>4. k = Unless(r, r.root # "complete" \/ r.stack # <<>>, "Invalid_State")
    BY <2>3 DEF q
  <2>5. ~Latched(k)
    <3>. HIDE DEF k
    <3>. QED
      BY <1>1
  <2>. QED
    BY <2>4, <2>5, UnlessIs DEF NoError
<1>. HIDE DEF k
<1>3. ~Latched(r)
  BY <1>1, <1>2
<1>4. t # [r EXCEPT !.error = Starved]
  BY DEF Latched, Readers, Starved, NoError
<1>5. Next_Token(r).head # "end" => Fail(r, "Syntax_Error") = Unless(r, TRUE, "Syntax_Error")
  BY <1>3 DEF Unless
<1>6. t = Unless(r, TRUE, "Syntax_Error") => t = r
  BY UnlessIs DEF NoError
<1>7. t = r \/ t = [r EXCEPT !.complete = TRUE]
  BY <1>1, <1>2, <1>3, <1>4, <1>5, <1>6
<1>. QED
  BY <1>7 DEF Readers

\* Failing latches, and nothing that follows clears it.
LEMMA FailLatches ==
  ASSUME NEW r, "error" \in DOMAIN r, NEW c, c # NoError
  PROVE  Latched(Fail(r, c))
<1>. DEFINE l == LatchCode(r, c)
            u == [l EXCEPT !.scopes = <<>>]
            v == [u EXCEPT !.failed = TRUE]
<1>1. l.error # NoError /\ "error" \in DOMAIN l
  BY DEF LatchCode, Latched
<1>2. Fail(r, c) = v
  BY <1>1 DEF Fail, Latch, Unwind, Latched
<1>. HIDE DEF l
<1>3. u.error = l.error /\ "error" \in DOMAIN u
  BY <1>1
<1>. HIDE DEF u
<1>4. v.error = u.error
  BY <1>3
<1>. QED
  BY <1>1, <1>2, <1>3, <1>4 DEF Latched

\* Entering what a head says is inside leaves the rest of the skip as it is.
LEMMA EnteredIs ==
  ASSUME NEW x \in Readers, ~Latched(x), x.raw # <<>>, NEW h \in Tokens,
         NEW t, t = Enter_Skipped(x, h), ~Latched(t)
  PROVE  /\ h.head # "break"
         /\ t.stack = x.stack /\ t.read = x.read /\ t.ahead = x.ahead
         /\ t.raw # <<>> /\ t.raw[1] = x.raw[1]
<1>. DEFINE k == Check_Raw_Depth(x)
            c == Unless(k, h.count > DecodeLimits.items, "Capacity_Exceeded")
            F(e) == [x EXCEPT !.raw = Append(x.raw, e)]
<1>1. ~Latched(k) => k = x
  BY UnlessIs DEF Check_Raw_Depth, NoError
<1>2. ~Latched(c) => c = x
  <2>1. ASSUME ~Latched(c) PROVE c = x
    <3>1. ~Latched(k)
      <4>1. ASSUME Latched(k) PROVE c = k
        BY ONLY <4>1, Passes
      <4>. HIDE DEF c, k
      <4>. QED
        BY <2>1, <4>1
    <3>2. c = Unless(x, h.count > DecodeLimits.items, "Capacity_Exceeded")
      BY <1>1, <3>1
    <3>. QED
      BY <2>1, <3>2, UnlessIs DEF NoError
  <2>. QED
    BY <2>1
<1>3. ASSUME NEW y, ~Latched(y) => y = x, NEW e, ~Latched(Enter_Raw(y, e))
      PROVE  Enter_Raw(y, e) = F(e)
  <2>. DEFINE z == Check_Raw_Depth(y)
  <2>1. Enter_Raw(y, e) = IF Latched(z) THEN z ELSE [z EXCEPT !.raw = Append(@, e)]
    BY DEF Enter_Raw
  <2>2. ~Latched(z)
    <3>. HIDE DEF z
    <3>1. CASE Latched(z)
      BY <1>3, <2>1, <3>1
    <3>. QED
      BY <3>1
  <2>3. ~Latched(y)
    <3>1. ASSUME Latched(y) PROVE z = y
      BY ONLY <3>1, Passes DEF Check_Raw_Depth
    <3>. HIDE DEF z
    <3>. QED
      BY <2>2, <3>1
  <2>4. z = x
    BY <1>1, <1>3, <2>2, <2>3
  <2>5. [x EXCEPT !.raw = Append(@, e)] = F(e)
    BY DEF Readers
  <2>. HIDE DEF z, F
  <2>. QED
    BY <2>1, <2>2, <2>4, <2>5
<1>. HIDE DEF k, c, F
<1>4. \A a \in {"Syntax_Error", "Invalid_Text", "Capacity_Exceeded"} : Latched(Fail(x, a))
  BY FailLatches DEF NoError, Readers
<1>5. h.head \notin DOMAIN Unskippable
  <2>1. \A a \in DOMAIN Unskippable : Unskippable[a] \in {"Syntax_Error", "Invalid_Text", "Capacity_Exceeded"}
    BY DEF Unskippable
  <2>2. h.head \in DOMAIN Unskippable => t = Fail(x, Unskippable[h.head])
    BY DEF Enter_Skipped
  <2>. QED
    BY <1>4, <2>1, <2>2
<1>6. h.head # "break"
  BY <1>5 DEF Unskippable
<1>7. t = x \/ \E e \in Skips : t = F(e)
  <2>1. h.count \in Nat
    BY TokenIs
  <2>2. t = IF h.head = "chunked" THEN k
            ELSE IF h.head = "tag" THEN Enter_Raw(x, RawItems(1))
            ELSE IF Indefinite(h) THEN Enter_Raw(x, RawRun(IsMap(h)))
            ELSE IF h.head \in {"array", "map"}
            THEN Enter_Raw(c, RawItems(IF IsMap(h) THEN 2 * h.count ELSE h.count))
            ELSE x
    BY <1>5 DEF Enter_Skipped, k, c
  <2>3. CASE t = k
    BY <1>1, <2>3
  <2>4. ASSUME NEW y \in {x, c}, NEW e \in Skips, t = Enter_Raw(y, e)
        PROVE  t = F(e)
    <3>1. ~Latched(y) => y = x
      BY <1>2
    <3>. QED
      BY <1>3, <2>4, <3>1
  <2>5. /\ RawItems(1) \in Skips /\ RawItems(h.count) \in Skips /\ RawItems(2 * h.count) \in Skips
        /\ RawRun(IsMap(h)) \in Skips
    <3>1. IsMap(h) \in BOOLEAN
      BY DEF IsMap
    <3>2. 2 * h.count \in Nat /\ 1 \in Nat
      BY <2>1
    <3>. QED
      BY <2>1, <3>1, <3>2, EntriesInside
  <2>6. \/ t = k \/ t = x
        \/ t = Enter_Raw(x, RawItems(1)) \/ t = Enter_Raw(x, RawRun(IsMap(h)))
        \/ t = Enter_Raw(c, RawItems(2 * h.count)) \/ t = Enter_Raw(c, RawItems(h.count))
    BY <2>2
  <2>. QED
    BY <2>3, <2>4, <2>5, <2>6
<1>8. ASSUME NEW e \in Skips
      PROVE  /\ F(e).stack = x.stack /\ F(e).read = x.read /\ F(e).ahead = x.ahead
             /\ F(e).raw # <<>> /\ F(e).raw[1] = x.raw[1]
  <2>1. x.raw \in Seq(Skips) /\ Len(x.raw) \in Nat /\ Len(x.raw) # 0
    BY ReaderIs
  <2>. DEFINE q == Append(x.raw, e)
  <2>2. q \in Seq(Skips) /\ Len(q) = Len(x.raw) + 1 /\ \A j \in 1..Len(x.raw) : q[j] = x.raw[j]
    BY <2>1, AppendProperties
  <2>. HIDE DEF q
  <2>3. q # <<>> /\ q[1] = x.raw[1]
    <3>1. 1 \in 1..Len(x.raw) /\ Len(x.raw) + 1 # 0
      BY <2>1
    <3>. QED
      BY <2>2, <3>1, EmptySeq
  <2>4. F(e) = [x EXCEPT !.raw = q]
    BY DEF F, q
  <2>. QED
    BY <2>3, <2>4 DEF Readers
<1>. QED
  BY <1>6, <1>7, <1>8

\* A head inside the skipped value is consumed, and is not a break.
LEMMA SkipHeadIs ==
  ASSUME NEW s, Sound(s, FALSE), s.raw # <<>>, NEW o \in Seq(Entries), Takes(s.read, o),
         NEW t, t = Skip_Head(s), ~Latched(t)
  PROVE  /\ Consumes(s, t) /\ Next_Token(s) \in Tokens /\ Next_Token(s).head # "break"
         /\ t.stack = s.stack /\ t.raw # <<>> /\ t.raw[1] = s.raw[1]
<1>. DEFINE a == Advance(s)
            h == Next_Token(s)
<1>1. s \in Readers /\ ~Latched(s)
  BY DEF Sound, Bounded
<1>2. t = Enter_Skipped(a, h)
  BY DEF Skip_Head
<1>3. Refused(a, FALSE) \/ (Seen(s) /\ a = Past(s))
  BY Advanced, TakesIsNotWhole DEF Sound, Bounded, Readers
<1>. HIDE DEF a
<1>4. ~Latched(a)
  <2>1. Latched(a) => Enter_Skipped(a, h) = a
    BY DEF Enter_Skipped
  <2>. QED
    BY <1>2, <2>1
<1>5. Seen(s) /\ a = Past(s)
  BY <1>3, <1>4 DEF Refused
<1>6. s.ahead # <<>> /\ h \in Tokens
  BY <1>5 DEF Seen
<1>7. /\ a.stack = s.stack /\ a.raw = s.raw /\ a.ahead = Tail(s.ahead)
      /\ a.read = Grammar!ReadToken(s.read, Structure(h)) /\ "error" \in DOMAIN a
  BY <1>1, <1>5, PastKeeps DEF Past, Readers
<1>8. h.head # "break"
  <2>1. ASSUME h.head = "break" PROVE FALSE
    <3>1. h.head \in DOMAIN Unskippable /\ Unskippable[h.head] = "Syntax_Error"
      BY <2>1 DEF Unskippable
    <3>2. t = Fail(a, "Syntax_Error")
      BY <1>2, <1>4, <3>1 DEF Enter_Skipped
    <3>. QED
      BY <1>7, <3>2, FailLatches DEF NoError
  <2>. QED
    BY <2>1
<1>9. a \in Readers
  <2>1. Sound(Past(s), FALSE)
    BY <1>5, <1>8, PastTakes
  <2>. QED
    BY <1>5, <2>1 DEF Sound, Bounded
<1>. HIDE DEF h
<1>10. t.stack = a.stack /\ t.read = a.read /\ t.ahead = a.ahead /\ t.raw # <<>> /\ t.raw[1] = a.raw[1]
  BY <1>2, <1>4, <1>6, <1>7, <1>9, EnteredIs
<1>. QED
  BY <1>6, <1>7, <1>8, <1>10 DEF Consumes, h

\* One more of the innermost items is read, as in SkipInside.
LEMMA SkipInsideIs ==
  ASSUME NEW r, Skipping(r, FALSE), NEW g \in Skips, g.odd => g.isMap,
         NEW o \in Seq(Entries), Takes(r.read, o),
         Len(r.raw) = 1 => g = RawItems(0),
         NEW t, t = Skip_Head([r EXCEPT !.raw[Len(r.raw)] = g]), ~Latched(t)
  PROVE  /\ Consumes(r, t) /\ Next_Token(r) \in Tokens /\ Next_Token(r).head # "break"
         /\ t.stack = r.stack /\ t.raw # <<>> /\ ~Waiting(t)
<1>. DEFINE s == [r EXCEPT !.raw[Len(r.raw)] = g]
<1>1. /\ Skipping(s, FALSE) /\ ~Waiting(s)
      /\ s.stack = r.stack /\ s.read = r.read /\ s.ahead = r.ahead
  BY Recounted
<1>. HIDE DEF s
<1>2. t = Skip_Head(s)
  BY DEF s
<1>3. Sound(s, FALSE) /\ s.raw # <<>>
  BY <1>1 DEF Skipping
<1>4. Takes(s.read, o)
  BY <1>1
<1>5. /\ Consumes(s, t) /\ Next_Token(s) \in Tokens /\ Next_Token(s).head # "break"
      /\ t.stack = s.stack /\ t.raw # <<>> /\ t.raw[1] = s.raw[1]
  BY <1>2, <1>3, <1>4, SkipHeadIs
<1>6. Next_Token(s) = Next_Token(r)
  BY <1>1 DEF Next_Token
<1>. QED
  BY <1>1, <1>5, <1>6 DEF Consumes, Waiting

\* One step of the skip of a field: it consumes the beginning of the value, or something
\* inside it, or finds that one of the items it is in, or the value, is complete.
LEMMA SkipStepIs ==
  ASSUME NEW r, Live(r), ~Latched(r), r.raw # <<>>, InRecord(r),
         NEW t, t = Skip_Step(r), ~Latched(t),
         NEW o \in Seq(Entries), OwesRaw(r, o),
         IF Waiting(r) THEN Takes(r.read, o) ELSE Stands(r.read, o)
  PROVE  \/ /\ ~Waiting(r) /\ t.ahead = r.ahead /\ t.read = r.read
            /\ IF t.raw = <<>>
               THEN Len(t.stack) = 1 /\ Top(t) = [Top(r) EXCEPT !.child = "none"]
               ELSE t.stack = r.stack /\ ~Waiting(t)
         \/ /\ Consumes(r, t) /\ Next_Token(r) \in Tokens /\ Takes(r.read, o)
            /\ t.stack = r.stack /\ t.raw # <<>> /\ ~Waiting(t)
            /\ IF Waiting(r) THEN Len(r.raw) = 1 /\ Next_Token(r).head # "break"
               ELSE Len(r.raw) # 1
<1>. DEFINE m == Len(r.raw)
            f == r.raw[m]
            q == SubSeq(r.raw, 1, m - 1)
            g == [f EXCEPT !.left = f.left - 1]
            closed == [r EXCEPT !.raw = q]
<1>1. Sound(r, FALSE) /\ Skipping(r, FALSE)
  BY LiveSkips, LiveIsSound
<1>2. /\ r \in Readers /\ r.raw \in Seq(Skips) /\ m \in Nat /\ m # 0
  BY <1>1, ReaderIs DEF Sound, Bounded
<1>3. /\ f \in Skips /\ f.left \in Nat /\ f.indefinite \in BOOLEAN
      /\ f.odd => f.isMap
      /\ m = 1 => f \in {RawItems(0), RawItems(1)} /\ f = r.raw[1] /\ ~f.indefinite
  BY <1>1, RawIs
<1>4. m # 1 => o # <<>> /\ o[Len(o)] = RawEntry(f) /\ ~Waiting(r) /\ Stands(r.read, o)
  BY <1>1, InnermostIs
<1>5. q \in Seq(Skips) /\ Len(q) = m - 1 /\ (m # 1 => q # <<>> /\ q[1] = r.raw[1])
  <2>1. m >= 0 /\ m - 1 <= m /\ m - 1 \in Nat /\ (m # 1 => 1 \in 1..(m - 1) /\ m - 1 # 0)
    <3>1. \A n \in Nat : n # 0 => /\ n >= 0 /\ n - 1 <= n /\ n - 1 \in Nat
                                 /\ (n # 1 => 1 \in 1..(n - 1) /\ n - 1 # 0)
      OBVIOUS
    <3>. QED
      BY ONLY <1>2, <3>1
  <2>2. q \in Seq(Skips) /\ Len(q) = m - 1 /\ \A j \in 1..(m - 1) : q[j] = r.raw[j]
    BY <1>2, <2>1, SubSeqProperties
  <2>. HIDE DEF q
  <2>3. m # 1 => q # <<>>
    BY <2>1, <2>2, EmptySeq
  <2>. QED
    BY <2>1, <2>2, <2>3
<1>6. t = IF f.indefinite THEN Skip_Run(r)
          ELSE IF f.left > 0 THEN Skip_Head([r EXCEPT !.raw[m] = [f EXCEPT !.left = @ - 1]])
          ELSE IF closed.raw = <<>> THEN Finish_Value(closed) ELSE closed
  <2>1. [r EXCEPT !.raw = SubSeq(@, 1, Len(@) - 1)] = closed
    BY <1>2 DEF Readers
  <2>. QED
    BY <2>1 DEF Skip_Step
<1>. HIDE DEF f, q
<1>7. CASE f.indefinite
  <2>. DEFINE i == Inspect_Head(r)
              whole == Unless(i, At_Break(i) /\ f.odd, "Syntax_Error")
              counted == Unless(whole, ~At_Break(i) /\ ~f.odd /\ f.count = DecodeLimits.items,
                                "Capacity_Exceeded")
  <2>1. m # 1 /\ o # <<>> /\ o[Len(o)] = RawEntry(f) /\ ~Waiting(r) /\ Stands(r.read, o)
    BY <1>3, <1>4, <1>7
  <2>2. Takes(r.read, o)
    <3>1. RawEntry(f).indefinite
      BY <1>3, <1>7, CountedIs
    <3>. QED
      BY <2>1, <3>1 DEF Takes, Pending
  <2>3. t = IF Latched(counted) THEN counted
            ELSE IF At_Break(i) THEN [Advance(i) EXCEPT !.raw = SubSeq(@, 1, Len(@) - 1)]
            ELSE Skip_Head([i EXCEPT !.raw[m] = Counted(f)])
    BY <1>6, <1>7 DEF Skip_Run, f
  <2>4. Refused(i, FALSE) \/ (i = r /\ Seen(r))
    BY <1>1, <1>2, <2>2, Inspected, TakesIsNotWhole DEF Readers
  <2>5. i = r /\ Seen(r)
    <3>1. ASSUME Latched(i) PROVE counted = i
      BY ONLY <3>1, Passes
    <3>. HIDE DEF counted, i
    <3>2. ~Latched(i)
      BY <2>3, <3>1
    <3>. QED
      BY <2>4, <3>2 DEF Refused
  <2>. HIDE DEF counted, i
  <2>6. CASE ~At_Break(r)
    <3>1. t = Skip_Head([r EXCEPT !.raw[m] = Counted(f)])
      BY <2>3, <2>5, <2>6
    <3>2. Counted(f) \in Skips /\ (Counted(f).odd => Counted(f).isMap)
      BY <1>3, <1>7, CountedIs
    <3>3. /\ Consumes(r, t) /\ Next_Token(r) \in Tokens /\ Next_Token(r).head # "break"
          /\ t.stack = r.stack /\ t.raw # <<>> /\ ~Waiting(t)
      BY <1>1, <2>1, <2>2, <3>1, <3>2, SkipInsideIs
    <3>. QED
      BY <2>1, <2>2, <3>3
  <2>7. CASE At_Break(r)
    <3>. DEFINE a == Past(r)
    <3>1. Advance(r) = a
      BY <1>1, <2>5, PastIs
    <3>2. a.raw = r.raw /\ a.stack = r.stack /\ a.ahead = Tail(r.ahead)
          /\ a.read = Grammar!ReadToken(r.read, Structure(Next_Token(r)))
          /\ DOMAIN a = DOMAIN r
      BY <1>2, PastKeeps DEF Past, Readers
    <3>. HIDE DEF a
    <3>3. t = [a EXCEPT !.raw = q]
      <4>1. [a EXCEPT !.raw = SubSeq(@, 1, Len(@) - 1)] = [a EXCEPT !.raw = SubSeq(a.raw, 1, Len(a.raw) - 1)]
        BY <1>2, <3>2 DEF Readers
      <4>. QED
        BY <2>3, <2>5, <2>7, <3>1, <3>2, <4>1 DEF q
    <3>4. t.raw = q /\ t.stack = r.stack /\ t.ahead = a.ahead /\ t.read = a.read
      BY <1>2, <3>2, <3>3 DEF Readers
    <3>5. ~Waiting(t) /\ t.raw # <<>>
      BY <1>5, <2>1, <3>4 DEF Waiting
    <3>6. r.ahead # <<>> /\ Next_Token(r) \in Tokens
      BY <2>5 DEF Seen
    <3>. QED
      BY <2>1, <2>2, <3>2, <3>4, <3>5, <3>6 DEF Consumes
  <2>. QED
    BY <2>6, <2>7
<1>8. CASE ~f.indefinite /\ f.left > 0
  <2>1. /\ g \in Skips /\ g.left = f.left - 1 /\ g.odd = f.odd /\ g.isMap = f.isMap
    <3>1. f.left - 1 \in Nat
      BY <1>3, <1>8
    <3>. QED
      BY <1>3, <3>1 DEF Skips
  <2>2. t = Skip_Head([r EXCEPT !.raw[m] = g])
    <3>1. [f EXCEPT !.left = @ - 1] = g
      BY <1>3 DEF Skips
    <3>. QED
      BY <1>6, <1>8, <3>1
  <2>3. m = 1 => Waiting(r) /\ g = RawItems(0)
    <3>1. m = 1 => f = RawItems(1)
      <4>1. RawItems(0).left = 0
        BY DEF RawItems
      <4>. QED
        BY <1>3, <1>8, <4>1
    <3>2. RawItems(1).left = 1 /\ [RawItems(1) EXCEPT !.left = 0] = RawItems(0)
      <4>1. \A x : RawItems(x).left = x
        BY DEF RawItems
      <4>2. \A e \in Skips : [e EXCEPT !.left = 0] =
              [left |-> 0, indefinite |-> e.indefinite, isMap |-> e.isMap, odd |-> e.odd,
               count |-> e.count]
        BY DEF Skips
      <4>3. RawItems(1) \in Skips
        BY EntriesInside
      <4>. QED
        BY <4>1, <4>2, <4>3 DEF RawItems
    <3>3. f.left = 1 => g = [f EXCEPT !.left = 0]
      OBVIOUS
    <3>. HIDE DEF g
    <3>. QED
      BY <1>3, <3>1, <3>2, <3>3 DEF Waiting
  <2>4. Takes(r.read, o)
    <3>1. CASE m = 1
      BY <2>3, <3>1
    <3>2. CASE m # 1
      <4>1. Pending(RawEntry(f))
        BY <1>8 DEF RawEntry, Pending, Grammar!Definite
      <4>. QED
        BY <1>4, <3>2, <4>1 DEF Takes
    <3>. QED
      BY <3>1, <3>2
  <2>. HIDE DEF g
  <2>5. /\ Consumes(r, t) /\ Next_Token(r) \in Tokens /\ Next_Token(r).head # "break"
        /\ t.stack = r.stack /\ t.raw # <<>> /\ ~Waiting(t)
    BY <1>1, <1>3, <2>1, <2>2, <2>3, <2>4, SkipInsideIs
  <2>. QED
    BY <1>4, <2>3, <2>4, <2>5
<1>9. CASE ~f.indefinite /\ ~(f.left > 0)
  <2>1. f.left = 0
    BY <1>3, <1>9
  <2>2. t = IF closed.raw = <<>> THEN Finish_Value(closed) ELSE closed
    BY <1>6, <1>9
  <2>3. closed.raw = q /\ closed.stack = r.stack /\ closed.ahead = r.ahead /\ closed.read = r.read
        /\ closed \in Readers /\ closed.failed = r.failed
    BY <1>2, <1>5 DEF Readers
  <2>4. ~Waiting(r)
    <3>1. m = 1 => r.raw[1].left = 0
      BY <1>3, <2>1
    <3>. QED
      BY <1>4, <3>1 DEF Waiting
  <2>. HIDE DEF closed
  <2>5. CASE m = 1
    <3>1. q = <<>>
      <4>1. Len(q) = 0
        BY <1>5, <2>5
      <4>. QED
        BY <1>5, <4>1, EmptySeq
    <3>2. t = Finish_Value(closed)
      BY <2>2, <2>3, <3>1
    <3>3. ~closed.failed /\ Len(closed.stack) = 1 /\ Top(closed) = Top(r) /\ Top(r).kind = "record"
      BY <1>1, <2>3 DEF Sound, InRecord, Top
    <3>4. /\ Len(t.stack) = 1 /\ Top(t) = [Top(closed) EXCEPT !.child = "none"]
          /\ t.read = closed.read /\ t.ahead = closed.ahead /\ t.raw = closed.raw
      BY <2>3, <3>2, <3>3, FinishInRecord
    <3>. QED
      BY <2>3, <2>4, <3>1, <3>3, <3>4
  <2>6. CASE m # 1
    <3>1. q # <<>> /\ q[1] = r.raw[1]
      BY <1>5, <2>6
    <3>2. t = closed
      BY <2>2, <2>3, <3>1
    <3>. QED
      BY <2>3, <2>4, <3>1, <3>2 DEF Waiting
  <2>. QED
    BY <2>5, <2>6
<1>. QED
  BY <1>3, <1>7, <1>8, <1>9

-----------------------------------------------------------------------------
(* The root of the document, followed by the reference decoder. *)

\* The frame as it was when the token that it waits for, or is being skipped, was announced.
Shape(r) == IF r.raw # <<>> /\ Waiting(r) THEN [Top(r) EXCEPT !.child = "ready"] ELSE Top(r)

\* The reference decoder holds the record as its outermost entry.
OnRoot(r) == r.read.open # <<>> /\ r.read.open[1] = Main(Shape(r))

\* Whether t is a key of the record to a decoder in state g.
IsKey(g, t) ==
  /\ t.head = "text"
  /\ Grammar!Incomplete(g) = {1}
  /\ IF g.open[1].indefinite THEN ~g.open[1].odd ELSE g.open[1].left % 2 = 0

\* The entry of a record frame expects a key exactly when no child is announced.
LEMMA KeyPlace ==
  ASSUME NEW f \in Frames, FrameOK(f), f.kind = "record"
  PROVE  (IF Main(f).indefinite THEN ~Main(f).odd ELSE Main(f).left % 2 = 0)
           <=> f.child # "ready"
<1>1. CASE f.indefinite
  BY <1>1 DEF Main, Run_Of, Odd
<1>2. CASE ~f.indefinite
  <2>1. Main(f) = Grammar!Definite(Slots(f))
    BY <1>2 DEF Main
  <2>2. Main(f).left = Slots(f) /\ ~Main(f).indefinite
    BY <2>1 DEF Grammar!Definite
  <2>3. Slots(f) = 2 * (f.declared - f.observed) + IF f.child = "ready" THEN 1 ELSE 0
    BY DEF Slots
  <2>4. f.declared - f.observed \in Nat
    <3>1. f.known /\ f.declared \in Nat /\ f.observed \in Nat
      BY <1>2, FrameIs DEF FrameOK
    <3>2. f.observed <= f.declared
      BY <3>1 DEF FrameOK
    <3>. QED
      BY <3>1, <3>2
  <2>5. \A k \in Nat : (2 * k + 0) % 2 = 0 /\ (2 * k + 1) % 2 # 0
    OBVIOUS
  <2>. QED
    BY <2>2, <2>3, <2>4, <2>5
<1>. QED
  BY <1>1, <1>2, FrameIs

\* The entry of a record frame tells only whether a child is announced in it.
LEMMA EntryTells ==
  ASSUME NEW f \in Frames, f.kind = "record", NEW c \in {"none", "progress"}, NEW b \in BOOLEAN
  PROVE  /\ f.child # "ready" => /\ Main([f EXCEPT !.child = c]) = Main(f)
                                 /\ Main([f EXCEPT !.exhausted = b]) = Main(f)
         /\ Main([f EXCEPT !.child = c]) = Main([f EXCEPT !.child = "none"])
         /\ f.child = "ready" => [f EXCEPT !.child = "ready"] = f
         /\ [[f EXCEPT !.child = c] EXCEPT !.child = "ready"] = [f EXCEPT !.child = "ready"]
         /\ [[f EXCEPT !.child = "ready"] EXCEPT !.child = c] = [f EXCEPT !.child = c]
         /\ f.child = c => [f EXCEPT !.child = c] = f
<1>. DEFINE a == [f EXCEPT !.child = c]
            n == [f EXCEPT !.child = "none"]
            e == [f EXCEPT !.exhausted = b]
<1>1. /\ a.kind = f.kind /\ a.child = c /\ a.indefinite = f.indefinite
      /\ a.declared = f.declared /\ a.observed = f.observed
  BY DEF Frames
<1>2. /\ n.kind = f.kind /\ n.child = "none" /\ n.indefinite = f.indefinite
      /\ n.declared = f.declared /\ n.observed = f.observed
  BY DEF Frames
<1>3. /\ e.kind = f.kind /\ e.child = f.child /\ e.indefinite = f.indefinite
      /\ e.declared = f.declared /\ e.observed = f.observed
  BY DEF Frames
<1>4. /\ f.child = "ready" => [f EXCEPT !.child = "ready"] = f
      /\ [[f EXCEPT !.child = c] EXCEPT !.child = "ready"] = [f EXCEPT !.child = "ready"]
      /\ [[f EXCEPT !.child = "ready"] EXCEPT !.child = c] = [f EXCEPT !.child = c]
      /\ f.child = c => [f EXCEPT !.child = c] = f
  BY DEF Frames
<1>. HIDE DEF a, n, e
<1>5. \A x, y \in {f, a, n, e} :
        x.child # "ready" /\ y.child # "ready" => Main(x) = Main(y)
  <2>1. \A x \in {f, a, n, e} :
          x.child # "ready" =>
            /\ Slots(x) = 2 * (f.declared - f.observed) + 0
            /\ Odd(x) = FALSE
    BY <1>1, <1>2, <1>3 DEF Slots, Odd
  <2>2. \A x \in {f, a, n, e} : x.kind = "record" /\ x.indefinite = f.indefinite
    BY <1>1, <1>2, <1>3
  <2>. QED
    BY <2>1, <2>2 DEF Main
<1>6. /\ f.child # "ready" => Main(a) = Main(f) /\ Main(e) = Main(f)
      /\ Main(a) = Main(n)
  BY <1>1, <1>2, <1>3, <1>5
<1>. QED
  BY <1>4, <1>6 DEF a, n, e

\* A frame that waits for a child holds the only entry that waits for items.
LEMMA OnlyRoot ==
  ASSUME NEW g \in Decoders, NEW o \in Seq(Entries), Stands(g, o), Len(o) = 2,
         ~Pending(o[1]), g.open # <<>>, Pending(g.open[1])
  PROVE  /\ Owing(g.open) = {1} /\ Grammar!Incomplete(g) = {1} /\ g.open[1] = o[2]
         /\ \A t \in Tokens : t.head # "break" =>
              LET u == Grammar!ReadToken(g, Structure(t)) IN
              u.open # <<>> /\ u.open[1] = Grammar!Filled(g.open[1])
<1>1. g.open \in Seq(Entries) /\ ~g.bad /\ g.body = 0 /\ Same(g.open, o)
  BY DEF Stands, Decoders
<1>2. Owing(g.open) = {1} /\ g.open[1] = o[2]
  BY <1>1, RootAlone
<1>3. Grammar!Incomplete(g) = Owing(g.open)
  BY DEF Grammar!Incomplete, Owing, Pending
<1>4. 1 \in Owing(g.open) /\ \A y \in Owing(g.open) : 1 >= y
  BY <1>2
<1>5. ASSUME NEW t \in Tokens, t.head # "break"
      PROVE  LET u == Grammar!ReadToken(g, Structure(t)) IN
             u.open # <<>> /\ u.open[1] = Grammar!Filled(g.open[1])
  BY <1>1, <1>2, <1>4, <1>5, RootFilled
<1>. QED
  BY <1>2, <1>3, <1>5

\* With the record on top, the entries owed are its envelope, complete, and its own.
LEMMA RecordOwes ==
  ASSUME NEW r, Live(r), InRecord(r), r.raw = <<>>
  PROVE  \E o \in Seq(Entries) :
           /\ Stands(r.read, o) /\ Len(o) = 2 /\ o[2] = Main(Top(r)) /\ ~Pending(o[1])
<1>1. r.root = "progress" /\ Top(r).kind = "record" /\ Len(r.stack) = 1 /\ r.stack[1] = Top(r)
  BY InRecordIs DEF InRecord
<1>2. PICK o \in Seq(Entries) : Read_Right(r, o)
  BY DEF Live
<1>3. Owes(r.stack, o) /\ Stands(r.read, o)
  BY <1>1, <1>2 DEF Read_Right
<1>4. Len(o) = 2 /\ o[1] = Env(Top(r)) /\ o[2] = Main(Top(r))
  <2>1. Len(o) = 2 * 1 /\ o[2 * 1 - 1] = Env(r.stack[1]) /\ o[2 * 1] = Main(r.stack[1])
    BY <1>1, <1>3 DEF Owes
  <2>. QED
    BY <1>1, <2>1
<1>5. ~Pending(o[1])
  BY <1>1, <1>4, FilledUp DEF Env
<1>. QED
  BY <1>3, <1>4, <1>5

\* Opening the record makes it the outermost entry.
LEMMA OpenRoot ==
  ASSUME NEW r, Live(r), ~Latched(r), r.raw = <<>>, r.stack = <<>>,
         NEW t, t = Begin_Record(r), ~Latched(t)
  PROVE  /\ Consumes(r, t) /\ r.read = Grammar!Start /\ Next_Token(r) \in Tokens
         /\ InRecord(t) /\ Top(t).child # "ready" /\ OnRoot(t) /\ t.raw = <<>>
<1>. DEFINE n == Next_Token(r)
            f == Frame("record", n)
<1>1. /\ Consumes(r, t) /\ r.read = Grammar!Start /\ n \in Tokens /\ IsMap(n) /\ t.stack = <<f>>
  BY OpenIs
<1>2. /\ f.kind = "record" /\ f.child = "none" /\ Main(f) = Opened(n)
  <2>1. "record" \in {"sequence", "map", "record", "variant"}
    OBVIOUS
  <2>2. Main(f) = Opened(n)
    BY <1>1, <2>1, FrameOfToken
  <2>. QED
    BY <2>2 DEF Frame
<1>3. t.raw = <<>>
  <2>1. r \in Readers
    BY LiveIsSound
  <2>2. "raw" \in DOMAIN r
    BY <2>1 DEF Readers
  <2>. QED
    BY <2>2, HandlersKeep DEF Keeps
<1>. HIDE DEF f, n
<1>4. Len(t.stack) = 1 /\ Top(t) = f
  BY <1>1 DEF Top
<1>5. t.read.open = <<Opened(n)>>
  <2>1. t.read = Grammar!ReadToken(Grammar!Start, Structure(n))
    BY <1>1 DEF Consumes, n
  <2>2. Grammar!Incomplete(Grammar!Start) = {}
    BY DEF Grammar!Incomplete, Grammar!Start
  <2>3. Grammar!ReadItem(Grammar!Start) = [Grammar!Start EXCEPT !.started = TRUE]
    BY <2>2 DEF Grammar!ReadItem, Grammar!Start
  <2>4. ASSUME NEW e PROVE Grammar!ReadHead(Grammar!Start, e).open = <<e>>
    <3>. DEFINE h == Grammar!ReadItem(Grammar!Start)
    <3>1. ~h.bad /\ h.open = <<>> /\ "open" \in DOMAIN h
      BY <2>3 DEF Grammar!Start
    <3>. HIDE DEF h
    <3>2. Grammar!ReadHead(Grammar!Start, e) = [h EXCEPT !.open = Append(<<>>, e)]
      BY <3>1 DEF Grammar!ReadHead, h
    <3>3. Append(<<>>, e) = <<e>>
      OBVIOUS
    <3>. QED
      BY <3>1, <3>2, <3>3
  <2>5. CASE n.head = "map"
    <3>1. Structure(n) = n /\ Opened(n) = Grammar!Definite(2 * n.count)
      BY <2>5 DEF Structure, Opened, Indefinite, IsMap
    <3>2. Grammar!ReadToken(Grammar!Start, n) = Grammar!ReadHead(Grammar!Start, Grammar!Definite(2 * n.count))
      BY <2>5 DEF Grammar!ReadToken
    <3>. QED
      BY <2>1, <2>4, <3>1, <3>2
  <2>6. CASE n.head = "map_start"
    <3>1. Structure(n) = n /\ Opened(n) = Grammar!Indefinite(TRUE)
      <4>1. IsMap(n) = TRUE
        BY <2>6 DEF IsMap
      <4>. QED
        BY <2>6, <4>1 DEF Structure, Opened, Indefinite
    <3>2. Grammar!ReadToken(Grammar!Start, n) = Grammar!ReadHead(Grammar!Start, Grammar!Indefinite(TRUE))
      BY <2>6 DEF Grammar!ReadToken
    <3>. QED
      BY <2>1, <2>4, <3>1, <3>2
  <2>. QED
    BY <1>1, <2>5, <2>6 DEF IsMap
<1>6. t.read.open # <<>> /\ t.read.open[1] = Main(Shape(t))
  BY <1>2, <1>3, <1>4, <1>5 DEF Shape
<1>. QED
  BY <1>1, <1>2, <1>3, <1>4, <1>6 DEF OnRoot, InRecord, n

\* A field is announced by a key of the record; a record without another consumes nothing.
LEMMA FieldRoot ==
  ASSUME NEW r, Live(r), ~Latched(r), r.raw = <<>>, InRecord(r), OnRoot(r),
         NEW t, t = Next_Field(r, TRUE), ~Latched(t)
  PROVE  /\ InRecord(t) /\ OnRoot(t) /\ t.raw = <<>> /\ Top(r).child # "ready"
         /\ IF Top(t).child = "ready"
            THEN /\ Consumes(r, t) /\ Next_Token(r) \in Tokens /\ IsText(Next_Token(r))
                 /\ Next_Token(r).head = "text" => IsKey(r.read, Next_Token(r))
            ELSE t.ahead = r.ahead /\ t.read = r.read
<1>. DEFINE f == Top(r)
            n == Next_Token(r)
<1>1. /\ f.child = "none" /\ Len(t.stack) = 1
      /\ \/ /\ t.ahead = r.ahead /\ t.read = r.read
            /\ Top(t) = [f EXCEPT !.exhausted = TRUE]
         \/ /\ Consumes(r, t) /\ n \in Tokens /\ IsText(n)
            /\ Top(t) = Announce(f)
            /\ Pending(Main(f)) /\ Main(Top(t)) = Grammar!Filled(Main(f))
  BY FieldIs
<1>2. f \in Frames /\ FrameOK(f) /\ f.kind = "record" /\ r.read \in Decoders /\ r \in Readers
  BY InRecordIs, LiveIsSound DEF InRecord
<1>3. t.raw = <<>>
  <2>1. "raw" \in DOMAIN r
    BY <1>2 DEF Readers
  <2>. QED
    BY <2>1, HandlersKeep DEF Keeps
<1>4. Shape(r) = f /\ Shape(t) = Top(t)
  BY <1>3 DEF Shape
<1>5. r.read.open # <<>> /\ r.read.open[1] = Main(f)
  BY <1>4 DEF OnRoot
<1>. HIDE DEF f, n
<1>6. CASE t.ahead = r.ahead /\ t.read = r.read /\ Top(t) = [f EXCEPT !.exhausted = TRUE]
  <2>1. Top(t).kind = "record" /\ Top(t).child = "none"
    BY <1>1, <1>2, <1>6 DEF Frames
  <2>2. Main(Top(t)) = Main(f)
    BY <1>1, <1>2, <1>6, EntryTells
  <2>. QED
    BY <1>1, <1>3, <1>4, <1>5, <1>6, <2>1, <2>2 DEF OnRoot, InRecord, f
<1>7. CASE /\ Consumes(r, t) /\ n \in Tokens /\ IsText(n)
           /\ Top(t) = Announce(f)
           /\ Pending(Main(f)) /\ Main(Top(t)) = Grammar!Filled(Main(f))
  <2>1. Top(t).kind = "record" /\ Top(t).child = "ready"
    BY <1>2, <1>7 DEF Announce, Frames
  <2>2. PICK o \in Seq(Entries) :
          /\ Stands(r.read, o) /\ Len(o) = 2 /\ o[2] = Main(f) /\ ~Pending(o[1])
    BY RecordOwes DEF f
  <2>3. /\ Grammar!Incomplete(r.read) = {1}
        /\ \A x \in Tokens : x.head # "break" =>
             LET u == Grammar!ReadToken(r.read, Structure(x)) IN
             u.open # <<>> /\ u.open[1] = Grammar!Filled(r.read.open[1])
    BY <1>2, <1>5, <1>7, <2>2, OnlyRoot
  <2>4. n.head # "break"
    BY <1>7 DEF IsText
  <2>5. t.read.open # <<>> /\ t.read.open[1] = Main(Top(t))
    BY <1>5, <1>7, <2>3, <2>4 DEF Consumes, n
  <2>6. n.head = "text" => IsKey(r.read, n)
    <3>1. IF Main(f).indefinite THEN ~Main(f).odd ELSE Main(f).left % 2 = 0
      BY <1>1, <1>2, KeyPlace
    <3>. QED
      BY <1>5, <2>3, <3>1 DEF IsKey
  <2>. QED
    BY <1>1, <1>3, <1>4, <1>7, <2>1, <2>5, <2>6 DEF OnRoot, InRecord, f, n
<1>. QED
  BY <1>1, <1>6, <1>7

\* The value of a field fills the entry of the record.
LEMMA ReadRoot ==
  ASSUME NEW r, Live(r), ~Latched(r), r.raw = <<>>, InRecord(r), OnRoot(r),
         NEW t, t = Read_Unsigned(r), ~Latched(t)
  PROVE  /\ Consumes(r, t) /\ Next_Token(r) \in Tokens /\ ~IsKey(r.read, Next_Token(r))
         /\ InRecord(t) /\ OnRoot(t) /\ t.raw = <<>> /\ Top(t).child = "none"
<1>. DEFINE f == Top(r)
            n == Next_Token(r)
<1>1. /\ Consumes(r, t) /\ n \in Tokens /\ IsUnsigned(n) /\ f.child = "ready"
      /\ Len(t.stack) = 1 /\ Top(t) = [f EXCEPT !.child = "none"]
  BY ReadIs
<1>2. f \in Frames /\ FrameOK(f) /\ f.kind = "record" /\ r.read \in Decoders /\ r \in Readers
  BY InRecordIs, LiveIsSound DEF InRecord
<1>3. t.raw = <<>>
  <2>1. "raw" \in DOMAIN r
    BY <1>2 DEF Readers
  <2>. QED
    BY <2>1, HandlersKeep DEF Keeps
<1>4. Shape(r) = f /\ Shape(t) = Top(t)
  BY <1>3 DEF Shape
<1>5. r.read.open # <<>> /\ r.read.open[1] = Main(f)
  BY <1>4 DEF OnRoot
<1>6. PICK o \in Seq(Entries) :
        /\ Stands(r.read, o) /\ Len(o) = 2 /\ o[2] = Main(f) /\ ~Pending(o[1])
  BY RecordOwes
<1>. HIDE DEF f, n
<1>7. Ready(f)
  BY <1>1, <1>2 DEF Ready
<1>8. Main(Top(t)) = Grammar!Filled(Main(f))
  <2>1. Commenced(f) = [f EXCEPT !.child = "progress"]
    BY <1>2 DEF Commenced
  <2>2. Main([f EXCEPT !.child = "progress"]) = Grammar!Filled(Main(f))
    BY <1>2, <1>7, <2>1, CommencedIs
  <2>3. Main([f EXCEPT !.child = "progress"]) = Main([f EXCEPT !.child = "none"])
    BY <1>2, EntryTells
  <2>. QED
    BY <1>1, <2>2, <2>3
<1>9. /\ Grammar!Incomplete(r.read) = {1}
      /\ \A x \in Tokens : x.head # "break" =>
           LET u == Grammar!ReadToken(r.read, Structure(x)) IN
           u.open # <<>> /\ u.open[1] = Grammar!Filled(r.read.open[1])
  <2>1. Pending(Main(f))
    BY <1>2, <1>7, MainIs
  <2>. QED
    BY <1>2, <1>5, <1>6, <2>1, OnlyRoot
<1>10. n.head # "break" /\ n.head # "text"
  BY <1>1 DEF IsUnsigned
<1>11. t.read.open # <<>> /\ t.read.open[1] = Main(Top(t))
  BY <1>1, <1>5, <1>8, <1>9, <1>10 DEF Consumes, n
<1>12. Top(t).kind = "record" /\ Top(t).child = "none"
  BY <1>1, <1>2 DEF Frames
<1>. QED
  BY <1>1, <1>3, <1>4, <1>10, <1>11, <1>12 DEF OnRoot, InRecord, IsKey, n

\* The skip of a field begins with nothing consumed.
LEMMA SkipRoot ==
  ASSUME NEW r, Live(r), ~Latched(r), r.raw = <<>>, InRecord(r), OnRoot(r),
         NEW t, t = Skip_Value(r), ~Latched(t)
  PROVE  /\ t.ahead = r.ahead /\ t.read = r.read
         /\ InRecord(t) /\ OnRoot(t) /\ t.raw # <<>>
<1>. DEFINE f == Top(r)
<1>1. /\ t.ahead = r.ahead /\ t.read = r.read /\ t.raw = <<RawItems(1)>> /\ f.child = "ready"
      /\ Len(t.stack) = 1 /\ Top(t) = [f EXCEPT !.child = "progress"]
  BY SkipIs
<1>2. f \in Frames /\ f.kind = "record"
  BY InRecordIs DEF InRecord
<1>3. t.raw # <<>> /\ Waiting(t)
  BY <1>1 DEF Waiting, RawItems
<1>4. Shape(t) = f
  BY <1>1, <1>2, <1>3 DEF Shape, Frames
<1>5. Shape(r) = f
  BY DEF Shape
<1>6. Top(t).kind = "record"
  BY <1>1, <1>2 DEF Frames
<1>. QED
  BY <1>1, <1>3, <1>4, <1>5, <1>6 DEF OnRoot, InRecord

\* What is skipped fills the entry of the record once, when the skipped value begins, and is
\* never a key of the record.
LEMMA SkipStepRoot ==
  ASSUME NEW r, Live(r), ~Latched(r), r.raw # <<>>, InRecord(r), OnRoot(r),
         NEW t, t = Skip_Step(r), ~Latched(t), Live(t)
  PROVE  /\ InRecord(t) /\ OnRoot(t) /\ Top(t).child # "ready"
         /\ \/ t.ahead = r.ahead /\ t.read = r.read
            \/ /\ Consumes(r, t) /\ Next_Token(r) \in Tokens
               /\ ~IsKey(r.read, Next_Token(r))
<1>. DEFINE f == Top(r)
            n == Next_Token(r)
            s == Shape(r)
<1>1. /\ r.stack # <<>> /\ r.stack[1] = f /\ f \in Frames /\ FrameOK(f)
      /\ f.kind = "record" /\ Len(r.stack) = 1
  BY InRecordIs DEF InRecord
<1>2. r.read \in Decoders /\ r \in Readers /\ RawOK(r)
  BY LiveIsSound DEF Live
<1>3. Busy(f)
  BY <1>1, <1>2 DEF RawOK
<1>4. f.child = "progress"
  BY <1>1, <1>3 DEF Busy
<1>5. Len(r.raw) \in Nat /\ Len(r.raw) # 0
  BY <1>2, ReaderIs
<1>6. PICK o \in Seq(Entries) :
        OwesRaw(r, o) /\ IF Waiting(r) THEN Takes(r.read, o) ELSE Stands(r.read, o)
  BY DEF Live, Read_Right
<1>7. /\ Len(o) = Len(r.raw) + 1 /\ ~Pending(o[1])
      /\ Waiting(r) => Pending(o[2]) /\ Grammar!Filled(o[2]) = Main(f)
      /\ ~Waiting(r) => o[2] = Main(f)
  <2>1. /\ Len(o) = 2 * 1 + Len(r.raw) - 1 /\ o[2 * 1 - 1] = Env(f)
        /\ ~Waiting(r) => o[2 * 1] = Main(f)
        /\ Waiting(r) => Pending(o[2 * 1]) /\ Grammar!Filled(o[2 * 1]) = Main(f)
    BY <1>1, <1>6 DEF OwesRaw
  <2>2. Env(f) = Grammar!Definite(0)
    BY <1>1 DEF Env
  <2>3. 2 * 1 = 2 /\ 2 * 1 - 1 = 1
    OBVIOUS
  <2>4. \A x \in Nat : 2 * 1 + x - 1 = x + 1
    OBVIOUS
  <2>. QED
    BY <1>5, <2>1, <2>2, <2>3, <2>4, FilledUp
<1>8. \/ /\ ~Waiting(r) /\ t.ahead = r.ahead /\ t.read = r.read
         /\ IF t.raw = <<>>
            THEN Len(t.stack) = 1 /\ Top(t) = [f EXCEPT !.child = "none"]
            ELSE t.stack = r.stack /\ ~Waiting(t)
      \/ /\ Consumes(r, t) /\ n \in Tokens /\ Takes(r.read, o)
         /\ t.stack = r.stack /\ t.raw # <<>> /\ ~Waiting(t)
         /\ IF Waiting(r) THEN Len(r.raw) = 1 /\ n.head # "break" ELSE Len(r.raw) # 1
  BY <1>6, SkipStepIs
<1>9. r.read.open # <<>> /\ r.read.open[1] = Main(s)
  BY DEF OnRoot
<1>10. IF Waiting(r) THEN s = [f EXCEPT !.child = "ready"] ELSE s = f
  BY DEF Shape
<1>11. t.stack = r.stack => Top(t) = f
  BY DEF Top
<1>12. [f EXCEPT !.child = "none"].kind = "record" /\ [f EXCEPT !.child = "none"].child = "none"
       /\ Main([f EXCEPT !.child = "none"]) = Main(f)
  BY <1>1, <1>4, EntryTells DEF Frames
<1>. HIDE DEF f, n, s
<1>13. CASE t.ahead = r.ahead /\ t.read = r.read /\ ~Waiting(r)
            /\ t.raw = <<>> /\ Len(t.stack) = 1 /\ Top(t) = [f EXCEPT !.child = "none"]
  <2>1. Shape(t) = Top(t)
    BY <1>13 DEF Shape
  <2>2. t.read.open # <<>> /\ t.read.open[1] = Main(Shape(t))
    BY <1>9, <1>10, <1>12, <1>13, <2>1
  <2>. QED
    BY <1>12, <1>13, <2>2 DEF OnRoot, InRecord
<1>14. CASE t.ahead = r.ahead /\ t.read = r.read /\ ~Waiting(r)
            /\ t.stack = r.stack /\ ~Waiting(t)
  <2>1. Shape(t) = f
    BY <1>11, <1>14 DEF Shape
  <2>2. t.read.open # <<>> /\ t.read.open[1] = Main(Shape(t))
    BY <1>9, <1>10, <1>14, <2>1
  <2>. QED
    BY <1>1, <1>4, <1>11, <1>14, <2>2 DEF OnRoot, InRecord
<1>15. ASSUME /\ Consumes(r, t) /\ n \in Tokens /\ Takes(r.read, o)
              /\ t.stack = r.stack /\ t.raw # <<>> /\ ~Waiting(t)
              /\ IF Waiting(r) THEN Len(r.raw) = 1 /\ n.head # "break" ELSE Len(r.raw) # 1
       PROVE  InRecord(t) /\ OnRoot(t) /\ Top(t).child # "ready" /\ ~IsKey(r.read, n)
  <2>1. Len(o) # 0 /\ o # <<>> /\ Len(o) \in Nat
    <3>1. \A x \in Nat : x + 1 # 0 /\ x + 1 \in Nat
      OBVIOUS
    <3>2. Len(o) # 0 /\ Len(o) \in Nat
      BY <1>5, <1>7, <3>1
    <3>. QED
      BY <3>2
  <2>2. Stands(r.read, o) /\ Pending(o[Len(o)])
    BY <1>15, <2>1 DEF Takes
  <2>3. Shape(t) = f
    BY <1>11, <1>15 DEF Shape
  <2>4. t.read = Grammar!ReadToken(r.read, Structure(n))
    BY <1>15 DEF Consumes, n
  <2>5. CASE Waiting(r)
    <3>1. s \in Frames /\ s.kind = "record" /\ s.child = "ready"
      BY <1>1, <1>10, <2>5 DEF Frames
    <3>2. FrameOK(s) /\ Ready(s) /\ Commenced(s) = f
      <4>1. /\ s.exhausted = f.exhausted /\ s.known = f.known /\ s.indefinite = f.indefinite
            /\ s.observed = f.observed /\ s.declared = f.declared /\ s.envelope = f.envelope
        BY <1>1, <1>10, <2>5 DEF Frames
      <4>2. ~f.exhausted
        BY <1>1, <1>4 DEF FrameOK, Idle
      <4>3. FrameOK(s)
        BY <1>1, <3>1, <4>1, <4>2 DEF FrameOK
      <4>4. Commenced(s) = [s EXCEPT !.child = "progress"]
        BY <3>1 DEF Commenced
      <4>5. [s EXCEPT !.child = "progress"] = f
        <5>1. [[f EXCEPT !.child = "ready"] EXCEPT !.child = "progress"] = [f EXCEPT !.child = "progress"]
          BY <1>1, EntryTells
        <5>2. [f EXCEPT !.child = "progress"] = f
          BY <1>1, <1>4, EntryTells
        <5>. QED
          BY <1>10, <2>5, <5>1, <5>2
      <4>. QED
        BY <3>1, <4>3, <4>4, <4>5 DEF Ready
    <3>3. Main(f) = Grammar!Filled(Main(s)) /\ Pending(Main(s))
      BY <3>1, <3>2, CommencedIs, MainIs
    <3>4. Len(o) = 2
      <4>1. \A x : x = 1 => x + 1 = 2
        OBVIOUS
      <4>. QED
        BY <1>7, <1>15, <2>5, <4>1
    <3>5. \A x \in Tokens : x.head # "break" =>
            LET u == Grammar!ReadToken(r.read, Structure(x)) IN
            u.open # <<>> /\ u.open[1] = Grammar!Filled(r.read.open[1])
      BY <1>2, <1>7, <1>9, <2>2, <3>3, <3>4, OnlyRoot
    <3>6. t.read.open # <<>> /\ t.read.open[1] = Main(f)
      BY <1>9, <1>15, <2>4, <2>5, <3>3, <3>5
    <3>7. ~IsKey(r.read, n)
      <4>1. ~(IF Main(s).indefinite THEN ~Main(s).odd ELSE Main(s).left % 2 = 0)
        BY <3>1, <3>2, KeyPlace
      <4>. QED
        BY <1>9, <4>1 DEF IsKey
    <3>. QED
      BY <1>1, <1>4, <1>11, <1>15, <2>3, <3>6, <3>7 DEF OnRoot, InRecord
  <2>6. CASE ~Waiting(r)
    <3>. DEFINE g == r.read
                p == g.open
    <3>1. p \in Seq(Entries) /\ ~g.bad /\ g.body = 0 /\ Same(p, o)
      BY <1>2, <2>2 DEF Stands, Decoders
    <3>2. Len(o) > 2
      <4>1. \A x \in Nat : x # 0 /\ x # 1 => x + 1 > 2
        OBVIOUS
      <4>. QED
        BY <1>5, <1>7, <1>15, <2>6, <4>1
    <3>3. p # <<>> /\ p[1] = o[2] /\ p[1] = Main(f)
      BY <1>7, <1>9, <1>10, <2>6
    <3>4. Owing(p) # {1}
      BY <2>2, <3>1, <3>2, <3>3, RootNotAlone
    <3>5. PICK d \in Owing(p) : \A y \in Owing(p) : d >= y
      BY <2>1, <2>2, <3>1, LastPlace
    <3>6. Grammar!Incomplete(g) = Owing(p)
      BY DEF Grammar!Incomplete, Owing, Pending
    <3>7. t.read.open # <<>> /\ t.read.open[1] = p[1]
      <4>1. CASE n.head # "break"
        <5>1. n \in Tokens /\ g \in Decoders
          BY <1>2, <1>15
        <5>2. LET u == Grammar!ReadToken(g, Structure(n)) IN
              /\ u.open # <<>>
              /\ u.open[1] = (IF Owing(p) = {1} THEN Grammar!Filled(p[1]) ELSE p[1])
          BY ONLY <3>1, <3>5, <4>1, <5>1, RootFilled
        <5>. QED
          BY <2>4, <3>4, <5>2
      <4>2. CASE n.head = "break"
        <5>1. t.read = Grammar!ReadBreak(g)
          BY <2>4, <4>2, BreakIsBreak
        <5>2. ~t.read.bad
          BY LiveReads
        <5>. QED
          BY <1>2, <3>1, <3>4, <3>5, <5>1, <5>2, RootBroken
      <4>. QED
        BY <4>1, <4>2
    <3>8. ~IsKey(g, n)
      BY <3>4, <3>6 DEF IsKey
    <3>. QED
      BY <1>1, <1>4, <1>11, <1>15, <2>3, <3>3, <3>7, <3>8 DEF OnRoot, InRecord
  <2>. QED
    BY <2>5, <2>6
<1>. QED
  BY <1>8, <1>13, <1>14, <1>15 DEF f, n

-----------------------------------------------------------------------------
(* The keys among the tokens consumed. *)

\* The keys among the tokens of h, as Keys reads them off `history`.
KeysIn(h) == {i \in 1..Len(h) : i > 1 /\ IsKey(RunOf(h)[i - 1], h[i])}

\* The keys of the specification.
LEMMA KeysAre == Keys = KeysIn(history)
BY DecodingIs DEF Keys, KeysIn, IsKey

\* No key comes before the record is open.
LEMMA KeysBelow ==
  ASSUME NEW h \in Seq(Tokens)
  PROVE  /\ KeysIn(h) \subseteq 1..Len(h) /\ Len(h) \in Nat
         /\ \A k \in KeysIn(h) : k \in Nat /\ k <= Len(h) /\ k > 1
         /\ h = <<>> => KeysIn(h) = {}
  BY DEF KeysIn

\* One more token is one more key, or none.
LEMMA KeysGrow ==
  ASSUME NEW h \in Seq(Tokens), NEW n \in Tokens, NEW g,
         h # <<>> => g = RunOf(h)[Len(h)]
  PROVE  KeysIn(Append(h, n)) =
           KeysIn(h) \cup (IF h # <<>> /\ IsKey(g, n) THEN {Len(h) + 1} ELSE {})
<1>. DEFINE l == Len(h)
            w == Append(h, n)
<1>1. l \in Nat /\ w \in Seq(Tokens) /\ Len(w) = l + 1 /\ w[l + 1] = n
      /\ \A i \in 1..l : w[i] = h[i]
  BY AppendProperties
<1>2. \A i \in 0..l : RunOf(w)[i] = RunOf(h)[i]
  BY RunExtends
<1>3. l = 0 <=> h = <<>>
  BY EmptySeq
<1>. HIDE DEF w, l
<1>4. ASSUME NEW i \in 1..l
      PROVE  i \in KeysIn(w) <=> i \in KeysIn(h)
  <2>1. i \in 1..Len(w) /\ i - 1 \in 0..l /\ w[i] = h[i]
    BY <1>1
  <2>2. RunOf(w)[i - 1] = RunOf(h)[i - 1]
    BY <1>2, <2>1
  <2>. QED
    BY <2>1, <2>2 DEF KeysIn, l
<1>5. l + 1 \in KeysIn(w) <=> h # <<>> /\ IsKey(g, n)
  <2>1. l + 1 \in 1..Len(w) /\ (l + 1 > 1 <=> h # <<>>) /\ (l + 1) - 1 = l /\ l \in 0..l
    BY <1>1, <1>3
  <2>2. h # <<>> => RunOf(w)[(l + 1) - 1] = g
    BY <1>2, <2>1 DEF l
  <2>. QED
    BY <1>1, <2>1, <2>2 DEF KeysIn
<1>6. KeysIn(w) \subseteq 1..(l + 1) /\ KeysIn(h) \subseteq 1..l
  BY <1>1 DEF KeysIn, l
<1>7. 1..(l + 1) = 1..l \cup {l + 1} /\ l + 1 \notin 1..l
  BY <1>1
<1>8. KeysIn(w) = KeysIn(h) \cup (IF h # <<>> /\ IsKey(g, n) THEN {l + 1} ELSE {})
  BY <1>4, <1>5, <1>6, <1>7
<1>. QED
  BY <1>8 DEF w, l

\* What an answer leaves in the history.
LEMMA AnswersIs ==
  ASSUME NEW t, from \in Readers, history \in Seq(Tokens), Answers(t)
  PROVE  /\ from' = t
         /\ t.ahead = from.ahead => history' = history
         /\ Consumes(from, t) => history' = Append(history, Next_Token(from))
<1>. DEFINE a == from.ahead
            n == Len(a) - Len(t.ahead)
<1>1. a \in Seq(Tokens) /\ Len(a) \in Nat
  BY ReaderIs
<1>2. from' = t /\ history' = history \o SubSeq(a, 1, n)
  BY DEF Answers
<1>3. ASSUME t.ahead = a PROVE history' = history
  <2>1. n = 0
    <3>1. \A x \in Nat : x - x = 0
      OBVIOUS
    <3>. QED
      BY <1>1, <1>3, <3>1
  <2>2. SubSeq(a, 1, 0) = <<>> /\ history \o <<>> = history
    BY <1>1
  <2>. QED
    BY <1>2, <2>1, <2>2
<1>4. ASSUME Consumes(from, t) PROVE history' = Append(history, Next_Token(from))
  <2>1. a # <<>> /\ t.ahead = Tail(a) /\ Next_Token(from) = a[1] /\ Next_Token(from) \in Tokens
        /\ Len(a) > 0
    BY <1>4, NextIs DEF Consumes
  <2>2. Len(Tail(a)) = Len(a) - 1
    BY <1>1, <2>1
  <2>3. n = 1
    <3>1. \A x \in Nat : x - (x - 1) = 1
      OBVIOUS
    <3>. QED
      BY <1>1, <2>1, <2>2, <3>1
  <2>4. SubSeq(a, 1, 1) = <<a[1]>>
    <3>1. SubSeq(a, 1, 1) = [i \in 1..1 |-> a[i]]
      BY <1>1, <2>1
    <3>2. <<a[1]>> = [i \in 1..1 |-> a[1]]
      OBVIOUS
    <3>3. \A i \in 1..1 : i = 1
      OBVIOUS
    <3>. HIDE DEF a
    <3>. QED
      BY <3>1, <3>2, <3>3
  <2>5. ASSUME NEW x \in Tokens PROVE history \o <<x>> = Append(history, x)
    BY <2>5
  <2>. QED
    BY <1>2, <2>1, <2>3, <2>4, <2>5
<1>. QED
  BY <1>2, <1>3, <1>4

-----------------------------------------------------------------------------
(* The policy. *)

\* A name that matches no field, one field or several.
LEMMA MatchesIs ==
  ASSUME RootKept, NEW n
  PROVE  /\ Matches(n) \subseteq Fields /\ IsFiniteSet(Matches(n))
         /\ Cardinality(Matches(n)) \in Nat
         /\ Cardinality(Matches(n)) = 0 <=> Matches(n) = {}
         /\ Cardinality(Matches(n)) = 1 <=> \E f \in Fields : Matches(n) = {f}
<1>1. IsFiniteSet(Fields)
  <2>1. setup.record \in Records
    BY DEF RootKept
  <2>2. setup.record.declared \in Seq(Seq(Names))
    BY <2>1, RecordsAssumption
  <2>3. Fields = 1..Len(setup.record.declared) /\ Len(setup.record.declared) \in Nat
    BY <2>2 DEF Fields
  <2>. QED
    BY <2>3, FS_Interval
<1>2. Matches(n) \subseteq Fields
  BY DEF Matches
<1>3. IsFiniteSet(Matches(n))
  BY <1>1, <1>2, FS_Subset
<1>4. Cardinality(Matches(n)) = 1 <=> \E f : Matches(n) = {f}
  BY <1>3, FS_Singleton
<1>. QED
  BY <1>2, <1>3, <1>4, FS_CardinalityType, FS_EmptySet

\* Why the policy treats a name as it does.
LEMMA TreatmentIs ==
  ASSUME RootKept
  PROVE  LET m == Matches(name) IN
         /\ Treatment \in {"Application_Error", "Unknown_Field", "Duplicate_Field", "skip", "decode"}
         /\ Treatment = "Unknown_Field" => m = {}
         /\ Treatment = "Duplicate_Field" => \E f \in Fields : m = {f} /\ f \in seen
         /\ Treatment = "skip" =>
              \/ m = {} /\ setup.policy.unknown # "Reject_Unknown"
              \/ \E f \in Fields : m = {f} /\ f \in seen /\ setup.policy.duplicates = "Keep_First"
         /\ Treatment = "decode" =>
              \E f \in Fields : m = {f} /\ (f \in seen => setup.policy.duplicates = "Keep_Last")
<1>. DEFINE m == Matches(name)
            c == Cardinality(m)
            p == setup.policy
<1>1. /\ c \in Nat /\ (c = 0 <=> m = {}) /\ (c = 1 <=> \E f \in Fields : m = {f})
  BY MatchesIs
<1>2. p.duplicates \in {"Reject_Duplicate", "Keep_First", "Keep_Last"}
  BY PoliciesAssumption DEF RootKept
<1>. HIDE DEF m, c, p
<1>3. c > 1 \/ c = 0 \/ c = 1
  BY <1>1
<1>4. CASE c > 1
  <2>1. c # 0 /\ c # 1
    BY <1>1, <1>4
  <2>2. m # {}
    BY <1>1, <2>1
  <2>3. Treatment = "Application_Error"
    BY <1>4, <2>1, <2>2 DEF Treatment, m, c
  <2>. QED
    BY <2>3 DEF m
<1>5. CASE c = 0
  <2>1. m = {} /\ ~(c > 1) /\ c # 1
    BY <1>1, <1>5
  <2>2. Treatment = IF p.unknown = "Reject_Unknown" THEN "Unknown_Field" ELSE "skip"
    BY <2>1 DEF Treatment, m, c, p
  <2>. QED
    BY <2>1, <2>2 DEF m, p
<1>6. CASE c = 1
  <2>1. PICK f \in Fields : m = {f}
    BY <1>1, <1>6
  <2>2. m # {} /\ ~(c > 1)
    BY <1>6, <2>1
  <2>3. CASE f \in seen
    <3>1. m \subseteq seen
      BY <2>1, <2>3
    <3>2. Treatment = OfDuplicate
      BY <1>6, <2>2, <3>1 DEF Treatment, m, c
    <3>3. CASE p.duplicates = "Reject_Duplicate"
      <4>1. OfDuplicate = "Duplicate_Field"
        BY <3>3 DEF OfDuplicate, p
      <4>. QED
        BY <2>1, <2>3, <3>2, <4>1 DEF m
    <3>4. CASE p.duplicates = "Keep_First"
      <4>1. OfDuplicate = "skip"
        BY <3>4 DEF OfDuplicate, p
      <4>. QED
        BY <2>1, <2>3, <3>2, <3>4, <4>1 DEF m, p
    <3>5. CASE p.duplicates = "Keep_Last"
      <4>1. OfDuplicate = "decode"
        BY <3>5 DEF OfDuplicate, p
      <4>. QED
        BY <2>1, <2>3, <3>2, <3>5, <4>1 DEF m, p
    <3>. QED
      BY <1>2, <3>3, <3>4, <3>5
  <2>4. CASE f \notin seen
    <3>1. ~(m \subseteq seen)
      BY <2>1, <2>4
    <3>2. Treatment = "decode"
      BY <1>6, <2>2, <3>1 DEF Treatment, m, c
    <3>. QED
      BY <2>1, <2>4, <3>2 DEF m
  <2>. QED
    BY <2>3, <2>4
<1>. QED
  BY <1>3, <1>4, <1>5, <1>6

-----------------------------------------------------------------------------
(* The candidate and the keys it was built from. *)

\* The keys in D that name the field f.
Given(D, h, f) == {k \in D : f \in Matches(h[k].name)}

\* The key in D whose value the policy selects.
Preferred(D, k) ==
  \A j \in D : IF setup.policy.duplicates = "Keep_Last" THEN j <= k ELSE k <= j

\* The value v of field f is the one selected among those of the keys in D.
Chosen(D, h, f, v) ==
  \/ Given(D, h, f) = {} /\ v = "default"
  \/ \E k \in Given(D, h, f) :
       Preferred(Given(D, h, f), k) /\ k < Len(h) /\ v = h[k + 1].head

\* The candidate c and the fields s seen are what the policy makes of the keys in D.
Tally(D, h, s, c) ==
  /\ s \subseteq Fields
  /\ \A f \in Fields : Given(D, h, f) # {} => f \in s
  /\ \A f \in s : Chosen(D, h, f, c[f])
  /\ setup.policy.duplicates = "Reject_Duplicate" =>
       \A f \in Fields : \A j, k \in Given(D, h, f) : j = k
  /\ setup.policy.unknown = "Reject_Unknown" => \A k \in D : Matches(h[k].name) # {}

\* What came before stays as it was.
LEMMA TallyExtends ==
  ASSUME NEW h \in Seq(Tokens), NEW w \in Seq(Tokens), Len(h) <= Len(w),
         \A i \in 1..Len(h) : w[i] = h[i],
         NEW D, D \subseteq 1..Len(h), NEW s, NEW c, Tally(D, h, s, c)
  PROVE  Tally(D, w, s, c) /\ \A f : Given(D, w, f) = Given(D, h, f)
<1>1. \A k \in D : w[k] = h[k]
  OBVIOUS
<1>2. \A f : Given(D, w, f) = Given(D, h, f)
  BY <1>1 DEF Given
<1>3. ASSUME NEW f \in s PROVE Chosen(D, w, f, c[f])
  <2>1. Chosen(D, h, f, c[f])
    BY DEF Tally
  <2>2. CASE Given(D, h, f) = {} /\ c[f] = "default"
    BY <1>2, <2>2 DEF Chosen
  <2>3. ASSUME NEW k \in Given(D, h, f), Preferred(Given(D, h, f), k), k < Len(h),
               c[f] = h[k + 1].head
        PROVE  Chosen(D, w, f, c[f])
    <3>1. k \in 1..Len(h) /\ Len(h) \in Nat /\ Len(w) \in Nat
      BY <2>3 DEF Given
    <3>2. k + 1 \in 1..Len(h) /\ k < Len(w)
      BY <2>3, <3>1
    <3>3. w[k + 1] = h[k + 1]
      BY <3>2
    <3>. QED
      BY <1>2, <2>3, <3>2, <3>3 DEF Chosen
  <2>. QED
    BY <2>1, <2>2, <2>3 DEF Chosen
<1>4. setup.policy.unknown = "Reject_Unknown" => \A k \in D : Matches(w[k].name) # {}
  BY <1>1 DEF Tally
<1>. QED
  BY <1>2, <1>3, <1>4 DEF Tally

\* A key that has no field of its own, or comes after the one that is kept, is passed over.
LEMMA TallySkipped ==
  ASSUME NEW h \in Seq(Tokens), NEW K, K \subseteq 1..Len(h), Len(h) \in K,
         NEW s, NEW c, Tally(K \ {Len(h)}, h, s, c),
         \A f \in s : Given(K \ {Len(h)}, h, f) # {},
         LET m == Matches(h[Len(h)].name) IN
           \/ m = {} /\ setup.policy.unknown # "Reject_Unknown"
           \/ \E f \in Fields : m = {f} /\ f \in s /\ setup.policy.duplicates = "Keep_First"
  PROVE  Tally(K, h, s, c) /\ \A f \in s : Given(K, h, f) # {}
<1>. DEFINE l == Len(h)
            D == K \ {l}
            m == Matches(h[l].name)
<1>1. \A f : Given(K, h, f) = Given(D, h, f) \cup (IF f \in m THEN {l} ELSE {})
  BY DEF Given
<1>2. \A k \in K : k \in Nat /\ k <= l
  BY DEF l
<1>3. setup.policy.unknown = "Reject_Unknown" => \A k \in K : Matches(h[k].name) # {}
  BY DEF Tally
<1>4. \A f \in s : Given(K, h, f) # {} /\ Given(D, h, f) # {}
  BY <1>1
<1>. HIDE DEF l, D, m
<1>5. ASSUME NEW f \in s PROVE Chosen(K, h, f, c[f])
  <2>1. Chosen(D, h, f, c[f]) /\ Given(D, h, f) # {}
    BY <1>4 DEF Tally, D, l
  <2>2. PICK k \in Given(D, h, f) : Preferred(Given(D, h, f), k) /\ k < Len(h) /\ c[f] = h[k + 1].head
    BY <2>1 DEF Chosen
  <2>3. k \in Given(K, h, f) /\ k \in K
    BY <1>1, <2>2 DEF Given, D
  <2>4. Preferred(Given(K, h, f), k)
    <3>1. CASE f \notin m
      BY <1>1, <2>2, <3>1
    <3>2. CASE f \in m
      <4>1. setup.policy.duplicates = "Keep_First"
        BY <3>2 DEF m, l
      <4>2. k <= l
        BY <1>2, <2>3
      <4>. QED
        BY <1>1, <2>2, <4>1, <4>2 DEF Preferred
    <3>. QED
      BY <3>1, <3>2
  <2>. QED
    BY <2>2, <2>3, <2>4 DEF Chosen
<1>6. ASSUME NEW f \in Fields, Given(K, h, f) # {} PROVE f \in s
  <2>1. CASE f \in m
    BY <2>1 DEF m, l
  <2>2. CASE f \notin m
    <3>1. Given(D, h, f) # {}
      BY <1>1, <1>6, <2>2
    <3>2. Tally(D, h, s, c)
      BY DEF D, l
    <3>. QED
      BY <3>1, <3>2 DEF Tally
  <2>. QED
    BY <2>1, <2>2
<1>7. setup.policy.duplicates = "Reject_Duplicate" =>
        \A f \in Fields : \A j, k \in Given(K, h, f) : j = k
  <2>1. setup.policy.duplicates = "Reject_Duplicate" => m = {}
    BY DEF m, l
  <2>. QED
    BY <1>1, <2>1 DEF Tally, D, l
<1>. QED
  BY <1>3, <1>4, <1>5, <1>6, <1>7 DEF Tally

\* The value of a new field, or of one whose last value is kept, is stored.
LEMMA TallyDecoded ==
  ASSUME RootKept, NEW h \in Seq(Tokens), NEW K, K \subseteq 1..Len(h), Len(h) \in K,
         NEW s, NEW c, c = [g \in Fields |-> c[g]], Tally(K \ {Len(h)}, h, s, c),
         \A g \in s : Given(K \ {Len(h)}, h, g) # {},
         NEW f \in Fields, Matches(h[Len(h)].name) = {f},
         f \in s => setup.policy.duplicates = "Keep_Last",
         NEW x \in Tokens
  PROVE  LET w == Append(h, x) IN
         /\ Tally(K, w, s \cup {f}, [c EXCEPT ![f] = x.head])
         /\ \A g \in s \cup {f} : Given(K, w, g) # {}
<1>. DEFINE l == Len(h)
            D == K \ {l}
            w == Append(h, x)
            d == [c EXCEPT ![f] = x.head]
            z == s \cup {f}
<1>1. l \in Nat /\ w \in Seq(Tokens) /\ Len(w) = l + 1 /\ w[l + 1] = x
      /\ \A i \in 1..l : w[i] = h[i]
  BY AppendProperties
<1>2. Len(h) <= Len(w)
  <2>1. \A y \in Nat : y <= y + 1
    OBVIOUS
  <2>. QED
    BY <1>1, <2>1
<1>3. D \subseteq 1..Len(h) /\ Tally(D, h, s, c)
  OBVIOUS
<1>. HIDE DEF w
<1>4. Tally(D, w, s, c) /\ \A g : Given(D, w, g) = Given(D, h, g)
  BY <1>1, <1>2, <1>3, TallyExtends
<1>5. \A k \in K : k \in 1..l /\ k \in Nat /\ k <= l
  BY <1>1
<1>6. w[l] = h[l]
  BY <1>1, <1>5
<1>7. \A g : Given(K, w, g) = Given(D, w, g) \cup (IF g = f THEN {l} ELSE {})
  BY <1>6 DEF Given
<1>8. d[f] = x.head /\ \A g \in Fields : g # f => d[g] = c[g]
  <2>1. f \in DOMAIN c
    OBVIOUS
  <2>. QED
    BY <2>1
<1>. HIDE DEF d, D, l
<1>9. z \subseteq Fields /\ \A g \in Fields : Given(K, w, g) # {} => g \in z
  BY <1>4, <1>7 DEF Tally
<1>10. ASSUME NEW g \in z PROVE Chosen(K, w, g, d[g])
  <2>1. CASE g = f
    <3>1. l \in Given(K, w, f)
      BY <1>7
    <3>2. Preferred(Given(K, w, f), l)
      <4>1. CASE setup.policy.duplicates = "Keep_Last"
        BY <1>5, <4>1 DEF Preferred, Given
      <4>2. CASE setup.policy.duplicates # "Keep_Last"
        <5>1. f \notin s
          BY <4>2
        <5>2. Given(D, w, f) = {}
          BY <1>4, <5>1 DEF Tally
        <5>3. Given(K, w, f) = {l}
          BY <1>7, <5>2
        <5>4. l <= l
          BY <1>1
        <5>. QED
          BY <5>3, <5>4 DEF Preferred
      <4>. QED
        BY <4>1, <4>2
    <3>3. l < Len(w)
      BY <1>1
    <3>. QED
      BY <1>1, <1>8, <2>1, <3>1, <3>2, <3>3 DEF Chosen
  <2>2. CASE g # f
    <3>1. g \in s /\ g \in Fields
      BY <1>9, <2>2
    <3>2. Chosen(D, w, g, c[g])
      BY <1>4, <3>1 DEF Tally
    <3>3. Given(K, w, g) = Given(D, w, g)
      BY <1>7, <2>2
    <3>4. d[g] = c[g]
      BY <1>8, <2>2, <3>1
    <3>. QED
      BY <3>2, <3>3, <3>4 DEF Chosen
  <2>. QED
    BY <2>1, <2>2
<1>11. setup.policy.duplicates = "Reject_Duplicate" =>
         \A g \in Fields : \A j, k \in Given(K, w, g) : j = k
  <2>1. ASSUME setup.policy.duplicates = "Reject_Duplicate", NEW g \in Fields,
               NEW j \in Given(K, w, g), NEW k \in Given(K, w, g)
        PROVE  j = k
    <3>1. CASE g = f
      <4>1. f \notin s
        BY <2>1
      <4>2. Given(D, w, f) = {}
        BY <1>4, <4>1 DEF Tally
      <4>. QED
        BY <1>7, <2>1, <3>1, <4>2
    <3>2. CASE g # f
      <4>1. Given(K, w, g) = Given(D, w, g)
        BY <1>7, <3>2
      <4>. QED
        BY <1>4, <2>1, <4>1 DEF Tally
    <3>. QED
      BY <3>1, <3>2
  <2>. QED
    BY <2>1
<1>12. setup.policy.unknown = "Reject_Unknown" => \A k \in K : Matches(w[k].name) # {}
  <2>1. Matches(w[l].name) # {}
    BY <1>6 DEF l
  <2>2. \A k \in K : k \in D \/ k = l
    BY DEF D
  <2>. QED
    BY <1>4, <2>1, <2>2 DEF Tally
<1>13. \A g \in z : Given(K, w, g) # {}
  <2>1. \A g \in s : Given(D, w, g) # {}
    BY <1>4 DEF D, l
  <2>. QED
    BY <1>7, <2>1
<1>14. Tally(K, w, z, d)
  BY <1>9, <1>10, <1>11, <1>12 DEF Tally
<1>. QED
  BY <1>13, <1>14 DEF w, d

\* A field without a value gets its default.
LEMMA TallyMissing ==
  ASSUME NEW D, NEW h, NEW s, NEW c, c = [g \in Fields |-> c[g]], Tally(D, h, s, c),
         NEW f \in Fields \ s
  PROVE  Tally(D, h, s \cup {f}, [c EXCEPT ![f] = "default"]) /\ Given(D, h, f) = {}
<1>. DEFINE d == [c EXCEPT ![f] = "default"]
<1>1. d[f] = "default" /\ \A g \in Fields : g # f => d[g] = c[g]
  <2>1. f \in DOMAIN c
    OBVIOUS
  <2>. QED
    BY <2>1
<1>. HIDE DEF d
<1>2. Given(D, h, f) = {}
  BY DEF Tally
<1>3. ASSUME NEW g \in s \cup {f} PROVE Chosen(D, h, g, d[g])
  <2>1. CASE g = f
    BY <1>1, <1>2, <2>1 DEF Chosen
  <2>2. CASE g # f
    <3>1. g \in s /\ g \in Fields
      BY <2>2 DEF Tally
    <3>2. d[g] = c[g] /\ Chosen(D, h, g, c[g])
      BY <1>1, <2>2, <3>1 DEF Tally
    <3>. QED
      BY <3>2
  <2>. QED
    BY <2>1, <2>2
<1>. QED
  BY <1>2, <1>3 DEF Tally, d

-----------------------------------------------------------------------------
(* The invariant of a call: where it stands, and what it has decoded. *)

\* The stages of a call: before, within and after the record.
Before == {"idle", "prepare", "begin"}
Within == {"loop", "field", "skipping", "close"}
After == {"missing", "finish", "commit"}

\* The history is what the reader consumed; inside the record, its entry tells which child is
\* announced, and the name in hand is that of the last key.
Traced ==
  /\ history \in Seq(Tokens)
  /\ \A i \in 1..Len(from.ahead) : from.ahead[i] \in Shown
  /\ pc \in Before \cup Within \cup After
  /\ IF pc \in Before
     THEN history = <<>> /\ seen = {} /\ from.stack = <<>>
     ELSE history # <<>> /\ RunOf(history)[Len(history)] = from.read
  /\ pc \in Within => InRecord(from) /\ OnRoot(from)
  /\ pc \in After => from.stack = <<>>
  /\ pc = "field" =>
       /\ Top(from).child = "ready"
       /\ Len(history) \in KeysIn(history) /\ name = history[Len(history)].name

\* The keys that have been dealt with.
Finished == KeysIn(history) \ (IF pc = "field" THEN {Len(history)} ELSE {})

\* A field decoder that read nothing leaves its value announced: nothing is claimed then,
\* and the next call fails.
Ordinary == pc \notin Before /\ (pc = "loop" => Top(from).child # "ready")

\* The candidate is what the policy makes of the keys dealt with.
Tallied ==
  /\ pc = "idle" => builder.candidate = NoCandidate
  /\ pc # "idle" => builder.candidate = [f \in Fields |-> builder.candidate[f]]
  /\ Ordinary =>
       /\ Tally(Finished, history, seen, builder.candidate)
       /\ pc \notin After => \A f \in seen : Given(Finished, history, f) # {}
  /\ pc \in {"finish", "commit"} => seen = Fields

\* How a call may end.
Justified ==
  pc # "idle" /\ pc' = "idle" =>
    /\ from'.error = "Unknown_Field" => Unknown # {}
    /\ from'.error = "Duplicate_Field" => \E f \in Fields : Cardinality(KeysOf(f)) > 1
    /\ from'.error = "Missing_Field" => \E f \in Fields : KeysOf(f) = {}

\* The record and the policy are the same in the next state.
LEMMA TallyNext ==
  ASSUME setup' = setup, Tally(Finished', history', seen', builder'.candidate)
  PROVE  Tally(Finished, history, seen, builder.candidate)'
<1>1. Fields' = Fields
  BY DEF Fields
<1>2. \A n : (Matches(n))' = Matches(n)
  BY <1>1 DEF Matches
<1>. QED
  BY <1>1, <1>2 DEF Tally, Given, Chosen, Preferred

\* So are the keys given to a field.
LEMMA GivenNext ==
  ASSUME setup' = setup, \A f \in seen' : Given(Finished', history', f) # {}
  PROVE  (\A f \in seen : Given(Finished, history, f) # {})'
<1>1. Fields' = Fields
  BY DEF Fields
<1>2. \A n : (Matches(n))' = Matches(n)
  BY <1>1 DEF Matches
<1>. QED
  BY <1>2 DEF Given

\* What a step within a call has to establish.
LEMMA Recorded ==
  ASSUME RootKept, NEW next, NEW candidate, Continue(next, candidate), next # "idle",
         candidate = [f \in Fields |-> candidate[f]],
         next \notin Before /\ (next = "loop" => Top(from').child # "ready") =>
           /\ Tally(Finished', history', seen', candidate)
           /\ next \notin After => \A f \in seen' : Given(Finished', history', f) # {},
         next \in {"finish", "commit"} => seen' = Fields
  PROVE  Tallied' /\ pc' = next /\ setup' = setup
<1>1. pc' = next /\ setup' = setup /\ builder'.candidate = candidate
  BY DEF Continue, RootKept
<1>2. Fields' = Fields
  BY <1>1 DEF Fields
<1>3. Ordinary' => next \notin Before /\ (next = "loop" => Top(from').child # "ready")
  BY <1>1 DEF Ordinary, Top
<1>4. Ordinary' => Tally(Finished, history, seen, builder.candidate)'
  BY <1>1, <1>3, TallyNext
<1>5. Ordinary' /\ next \notin After => (\A f \in seen : Given(Finished, history, f) # {})'
  BY <1>1, <1>3, GivenNext
<1>. QED
  BY <1>1, <1>2, <1>4, <1>5 DEF Tallied, After

\* A call that ended leaves nothing behind.
LEMMA EndLeaves ==
  ASSUME RootKept, NEW r, NEW outcome, End(r, outcome), r.error \in Errors
  PROVE  /\ Traced' /\ Tallied'
         /\ from'.error = r.error /\ pc' = "idle"
         /\ r.error \notin {"Unknown_Field", "Duplicate_Field", "Missing_Field"} => Justified
<1>1. /\ from' = Aborted(r.error) /\ builder' = Rollback_Candidate(builder)
      /\ pc' = "idle" /\ name' = NoName /\ seen' = {} /\ history' = <<>>
  BY DEF End, Settled
<1>2. from'.error = r.error
  BY <1>1, AbortedIs
<1>3. from'.stack = <<>> /\ from'.ahead = <<>>
  BY <1>1 DEF Aborted, Abort_Document, Unwind, Latch, Latched, Fresh
<1>4. builder'.candidate = NoCandidate
  BY <1>1 DEF RootKept, Rollback_Candidate
<1>5. Traced'
  BY <1>1, <1>3 DEF Traced, Before, Within, After
<1>6. Tallied'
  BY <1>1, <1>4 DEF Tallied, Ordinary, Before
<1>. QED
  BY <1>1, <1>2, <1>5, <1>6 DEF Justified

\* A call that waits only sees one more token ahead.
LEMMA StarvesLeaves ==
  ASSUME RootKept, Traced, Tallied, pc # "idle", NEW t, Starves(t)
  PROVE  Traced' /\ Tallied' /\ Justified
<1>1. PICK token \in Shown : from' = [from EXCEPT !.ahead = Append(@, token)]
  BY DEF Starves
<1>2. UNCHANGED <<builder, setup, pc, name, seen, raised, history>>
  BY DEF Starves
<1>3. from \in Readers
  BY DEF RootKept, Live, Dead, Bounded
<1>. DEFINE a == Append(from.ahead, token)
<1>4. /\ from'.stack = from.stack /\ from'.raw = from.raw /\ from'.read = from.read
      /\ from'.ahead = a
  BY <1>1, <1>3 DEF Readers
<1>5. \A i \in 1..Len(a) : a[i] \in Shown
  <2>1. from.ahead \in Seq(Tokens) /\ token \in Tokens
    BY <1>3, ReaderIs DEF Shown
  <2>2. /\ Len(a) = Len(from.ahead) + 1 /\ a[Len(from.ahead) + 1] = token
        /\ (\A i \in 1..Len(from.ahead) : a[i] = from.ahead[i]) /\ Len(from.ahead) \in Nat
    BY <2>1, AppendProperties
  <2>. HIDE DEF a
  <2>3. \A i \in 1..(Len(from.ahead) + 1) : i \in 1..Len(from.ahead) \/ i = Len(from.ahead) + 1
    BY <2>2
  <2>. QED
    BY <2>2, <2>3 DEF Traced
<1>. HIDE DEF a
<1>6. Top(from') = Top(from)
  BY <1>4 DEF Top
<1>7. InRecord(from') <=> InRecord(from)
  BY <1>4, <1>6 DEF InRecord
<1>8. OnRoot(from') <=> OnRoot(from)
  BY <1>4, <1>6 DEF OnRoot, Shape, Waiting
<1>9. Traced'
  BY <1>2, <1>4, <1>5, <1>6, <1>7, <1>8 DEF Traced, Before, Within, After
<1>10. Finished' = Finished /\ Fields' = Fields
  BY <1>2 DEF Finished, Fields
<1>11. Ordinary' = Ordinary
  BY <1>2, <1>6 DEF Ordinary
<1>12. Tallied'
  <2>1. Ordinary => Tally(Finished, history, seen, builder.candidate)'
    <3>1. Ordinary => Tally(Finished', history', seen', builder'.candidate)
      BY <1>2, <1>10 DEF Tallied
    <3>. QED
      BY <1>2, <3>1, TallyNext
  <2>2. Ordinary /\ pc \notin After => (\A f \in seen : Given(Finished, history, f) # {})'
    <3>1. Ordinary /\ pc \notin After => \A f \in seen' : Given(Finished', history', f) # {}
      BY <1>2, <1>10 DEF Tallied
    <3>. QED
      BY <1>2, <3>1, GivenNext
  <2>. QED
    BY <1>2, <1>10, <1>11, <2>1, <2>2 DEF Tallied, After
<1>. QED
  BY <1>2, <1>9, <1>12 DEF Justified

-----------------------------------------------------------------------------
(* The steps of a call. *)

\* A call on the reader that waits, or is refused, keeps the invariant and accuses no field;
\* one that is answered found the reader in order, and left it so.
LEMMA AskedLeaves ==
  ASSUME RootKept, Traced, Tallied, pc # "idle", NEW t,
         IF from.raw = <<>> THEN \E c \in Calls : t = Event(from, c) ELSE t = Skip_Step(from)
  PROVE  /\ Starves(t) \/ Rejects(t) => Traced' /\ Tallied' /\ Justified
         /\ Answers(t) => /\ Live(from) /\ ~Latched(from) /\ from \in Readers
                          /\ Live(t) /\ ~Latched(t) /\ from' = t
<1>1. ~Latched(from) /\ (Live(from) \/ Dead(from)) /\ from \in Readers
  BY DEF RootKept, Live, Dead, Bounded
<1>2. /\ t.error # Starved => t.error \in Errors /\ t.error \in Codes \cup {NoError}
      /\ ~Latched(t) => Live(t)
  BY <1>1, Asked
<1>3. ASSUME Starves(t) PROVE Traced' /\ Tallied' /\ Justified
  BY <1>3, StarvesLeaves
<1>4. ASSUME Rejects(t) PROVE Traced' /\ Tallied' /\ Justified
  <2>1. End(t, FALSE) /\ t.error \in Errors /\ t.error \in Codes
    BY <1>2, <1>4 DEF Rejects, FailCall, Latched
  <2>2. t.error \notin {"Unknown_Field", "Duplicate_Field", "Missing_Field"}
    BY <2>1 DEF Codes
  <2>. QED
    BY <2>1, <2>2, EndLeaves
<1>5. ASSUME Answers(t) PROVE Live(from) /\ Live(t) /\ ~Latched(t) /\ from' = t
  <2>1. ~Latched(t) /\ from' = t
    BY <1>5 DEF Answers
  <2>2. ASSUME Dead(from) PROVE FALSE
    <3>1. from.raw = <<>>
      BY <2>2 DEF Dead
    <3>2. PICK c \in Calls : t = Event(from, c)
      BY <3>1
    <3>3. Latched(t)
      BY <1>1, <2>2, <3>2, DeadStays
    <3>. QED
      BY <2>1, <3>3
  <2>. QED
    BY <1>1, <1>2, <2>1, <2>2
<1>. QED
  BY <1>1, <1>3, <1>4, <1>5

\* The failures of the application accuse no field either.
LEMMA ApplicationLeaves ==
  ASSUME RootKept, Application_Fails, ~Latched(from)
  PROVE  Traced' /\ Tallied' /\ Justified
<1>1. from \in Readers /\ from.error = NoError
  BY DEF RootKept, Live, Dead, Bounded, Latched
<1>2. NoError \in Errors /\ NoError \notin {"Unknown_Field", "Duplicate_Field", "Missing_Field"}
  BY DEF Errors, NoError
<1>3. CASE RaiseCall
  BY <1>1, <1>2, <1>3, EndLeaves DEF RaiseCall
<1>4. CASE FailCall(LatchCode(from, "Application_Error"))
  <2>1. LatchCode(from, "Application_Error").error = "Application_Error"
    BY <1>1 DEF LatchCode, Latched, Readers
  <2>2. "Application_Error" \in Errors
    BY DEF Errors
  <2>. QED
    BY <1>4, <2>1, <2>2, EndLeaves DEF FailCall
<1>. QED
  BY <1>3, <1>4 DEF Application_Fails

\* The adapter's own failures: those that accuse a field are to be justified.
LEMMA AdapterLeaves ==
  ASSUME RootKept, ~Latched(from),
         NEW c \in {"Application_Error", "Unknown_Field", "Duplicate_Field", "Missing_Field"},
         FailWith(c)
  PROVE  /\ Traced' /\ Tallied' /\ from'.error = c
         /\ c = "Application_Error" => Justified
<1>1. from \in Readers /\ from.error = NoError
  BY DEF RootKept, Live, Dead, Bounded, Latched
<1>2. c \in Errors /\ c # NoError
  BY DEF Errors, NoError
<1>3. Fail(from, c).error = c
  <2>1. LatchCode(from, c) = [from EXCEPT !.error = c]
    BY <1>1 DEF LatchCode, Latched, Readers
  <2>2. [from EXCEPT !.error = c].error = c /\ [from EXCEPT !.error = c] \in Readers
    BY <1>1, <1>2 DEF Readers
  <2>3. Fail(from, c) = [[[from EXCEPT !.error = c] EXCEPT !.scopes = <<>>] EXCEPT !.failed = TRUE]
    BY <1>2, <2>1, <2>2 DEF Fail, Latch, Latched, Unwind
  <2>. QED
    BY <2>2, <2>3 DEF Readers
<1>. QED
  BY <1>2, <1>3, EndLeaves DEF FailWith, FailCall

\* A call that was answered consumed one token, or none.
LEMMA AheadStays ==
  ASSUME Traced, from \in Readers, NEW t, from' = t, t.ahead = from.ahead \/ Consumes(from, t)
  PROVE  /\ \A i \in 1..Len(from'.ahead) : from'.ahead[i] \in Shown
         /\ from.ahead # <<>> => Next_Token(from) \in Shown /\ Next_Token(from) = Head(from.ahead)
<1>. DEFINE a == from.ahead
<1>1. a \in Seq(Tokens) /\ Len(a) \in Nat /\ \A i \in 1..Len(a) : a[i] \in Shown
  BY ReaderIs DEF Traced
<1>. HIDE DEF a
<1>2. a # <<>> => 1 \in 1..Len(a) /\ Head(a) = a[1]
  BY <1>1
<1>3. a # <<>> => /\ \A i \in 1..Len(Tail(a)) : i + 1 \in 1..Len(a) /\ Tail(a)[i] = a[i + 1]
  BY <1>1
<1>4. a # <<>> => \A i \in 1..Len(Tail(a)) : Tail(a)[i] \in Shown
  BY <1>1, <1>3
<1>5. Next_Token(from) = Head(a)
  BY DEF Next_Token, a
<1>6. from'.ahead = a \/ (a # <<>> /\ from'.ahead = Tail(a))
  BY DEF Consumes, a
<1>7. \A i \in 1..Len(from'.ahead) : from'.ahead[i] \in Shown
  BY <1>1, <1>4, <1>6
<1>8. a # <<>> => Head(a) \in Shown
  BY <1>1, <1>2
<1>. QED
  BY <1>5, <1>7, <1>8 DEF a

\* Begin_Candidate and the check of the description.
LEMMA BeginLeaves ==
  ASSUME RootKept, Traced, Tallied, Begin \/ Prepare_Metadata
  PROVE  Traced' /\ Tallied' /\ Justified
<1>1. CASE Begin
  <2>1. pc = "idle" /\ ~Latched(from)
    BY <1>1 DEF Begin
  <2>2. CASE Application_Fails
    BY <2>1, <2>2, ApplicationLeaves
  <2>3. CASE Continue("prepare", [f \in Fields |-> "unset"]) /\ UNCHANGED <<from, name, seen, history>>
    <3>. DEFINE blank == [f \in Fields |-> "unset"]
    <3>1. blank = [f \in Fields |-> blank[f]]
      OBVIOUS
    <3>. HIDE DEF blank
    <3>2. Continue("prepare", blank) /\ UNCHANGED <<from, name, seen, history>>
      BY <2>3 DEF blank
    <3>3. "prepare" \in Before /\ "prepare" \notin {"finish", "commit", "idle"}
      BY DEF Before
    <3>4. Tallied' /\ pc' = "prepare"
      BY <3>1, <3>2, <3>3, Recorded
    <3>5. Traced'
      BY <2>1, <3>2, <3>4 DEF Traced, Before, Within, After
    <3>. QED
      BY <3>4, <3>5 DEF Justified
  <2>. QED
    BY <1>1, <2>2, <2>3 DEF Begin
<1>2. CASE Prepare_Metadata
  <2>1. pc = "prepare" /\ ~Latched(from)
    BY <1>2 DEF Prepare_Metadata, RootKept
  <2>2. CASE FailWith("Application_Error")
    BY <2>1, <2>2, AdapterLeaves
  <2>3. CASE Continue("begin", builder.candidate) /\ UNCHANGED <<from, name, seen, history>>
    <3>. DEFINE c == builder.candidate
    <3>1. c = [f \in Fields |-> c[f]]
      BY <2>1 DEF Tallied
    <3>. HIDE DEF c
    <3>2. Continue("begin", c) /\ UNCHANGED <<from, name, seen, history>>
      BY <2>3 DEF c
    <3>3. "begin" \in Before /\ "begin" \notin {"finish", "commit", "idle"}
      BY DEF Before
    <3>4. Tallied' /\ pc' = "begin"
      BY <3>1, <3>2, <3>3, Recorded
    <3>5. Traced'
      BY <2>1, <3>2, <3>4 DEF Traced, Before, Within, After
    <3>. QED
      BY <3>4, <3>5 DEF Justified
  <2>. QED
    BY <1>2, <2>2, <2>3 DEF Prepare_Metadata
<1>. QED
  BY <1>1, <1>2

\* The opening of the record: one token is read, and no key.
LEMMA OpenLeaves ==
  ASSUME RootKept, Traced, Tallied, Open_Record
  PROVE  Traced' /\ Tallied' /\ Justified
<1>1. pc = "begin" /\ from.raw = <<>> /\ history = <<>> /\ seen = {} /\ from.stack = <<>>
  BY DEF Open_Record, RootKept, Traced, Before
<1>. DEFINE t == Begin_Record(from)
            c == builder.candidate
            n == Next_Token(from)
            h == Append(<<>>, n)
<1>2. Starves(t) \/ Rejects(t) \/ (Answers(t) /\ Continue("loop", c) /\ UNCHANGED <<name, seen>>)
  BY DEF Open_Record
<1>3. IF from.raw = <<>> THEN \E k \in Calls : t = Event(from, k) ELSE t = Skip_Step(from)
  BY <1>1, AdapterCalls
<1>4. t = Begin_Record(from)
  OBVIOUS
<1>. HIDE DEF t
<1>5. CASE Starves(t) \/ Rejects(t)
  BY <1>1, <1>3, <1>5, AskedLeaves
<1>6. CASE Answers(t) /\ Continue("loop", c) /\ UNCHANGED <<name, seen>>
  <2>1. Live(from) /\ ~Latched(from) /\ from \in Readers /\ Live(t) /\ ~Latched(t) /\ from' = t
    BY <1>1, <1>3, <1>6, AskedLeaves
  <2>2. /\ Consumes(from, t) /\ from.read = Grammar!Start /\ Next_Token(from) \in Tokens
        /\ InRecord(t) /\ Top(t).child # "ready" /\ OnRoot(t) /\ t.raw = <<>>
    BY <1>1, <1>4, <2>1, OpenRoot
  <2>3. history' = h
    BY <1>1, <1>6, <2>1, <2>2, AnswersIs DEF Traced
  <2>4. /\ h \in Seq(Tokens) /\ h # <<>> /\ Len(h) = 1
        /\ RunOf(h)[1] = Grammar!ReadToken(from.read, Structure(n))
    <3>1. n \in Tokens /\ <<>> \in Seq(Tokens) /\ Len(<<>>) = 0
      BY <2>2
    <3>2. h \in Seq(Tokens) /\ h # <<>> /\ Len(h) = 1
      BY <3>1
    <3>3. RunOf(Append(<<>>, n))[Len(<<>>) + 1]
            = Grammar!ReadToken(RunOf(<<>>)[Len(<<>>)], Structure(n))
      BY <3>1, RunExtends
    <3>4. RunOf(<<>>)[0] = Grammar!Start
      BY <3>1, RunStarts
    <3>. QED
      BY <2>2, <3>1, <3>2, <3>3, <3>4
  <2>5. KeysIn(h) = {}
    <3>1. n \in Tokens /\ <<>> \in Seq(Tokens)
      BY <2>2
    <3>2. KeysIn(<<>>) = {}
      BY <3>1, KeysBelow
    <3>3. KeysIn(Append(<<>>, n)) = KeysIn(<<>>) \cup {}
      BY <3>1, KeysGrow
    <3>. QED
      BY <3>2, <3>3
  <2>. HIDE DEF h, n, c
  <2>6. \A i \in 1..Len(from'.ahead) : from'.ahead[i] \in Shown
    BY <2>1, <2>2, AheadStays
  <2>7. Finished' = {}
    BY <2>3, <2>5 DEF Finished
  <2>8. Tally({}, h, {}, c) /\ \A f \in {} : Given({}, h, f) # {}
    BY DEF Tally, Given
  <2>9. c = [f \in Fields |-> c[f]]
    BY <1>1 DEF Tallied, c
  <2>10. Continue("loop", c) /\ seen' = {}
    BY <1>1, <1>6
  <2>11. Tally(Finished', history', seen', c) /\ \A f \in seen' : Given(Finished', history', f) # {}
    BY <2>3, <2>7, <2>8, <2>10
  <2>12. "loop" \notin {"finish", "commit", "idle"}
    OBVIOUS
  <2>13. Tallied' /\ pc' = "loop"
    BY <2>9, <2>10, <2>11, <2>12, Recorded
  <2>14. Traced'
    BY <2>1, <2>2, <2>3, <2>4, <2>6, <2>13 DEF Traced, Before, Within, After, Consumes, n
  <2>. QED
    BY <2>13, <2>14 DEF Justified
<1>. QED
  BY <1>2, <1>5, <1>6

\* What a token that was consumed adds to the history.
LEMMA HistoryGrows ==
  ASSUME Traced, pc \notin Before, from \in Readers, NEW t, Answers(t),
         Consumes(from, t), Next_Token(from) \in Tokens
  PROVE  LET h == Append(history, Next_Token(from)) IN
         /\ history' = h /\ h \in Seq(Tokens) /\ h # <<>>
         /\ Len(h) = Len(history) + 1 /\ Len(history) <= Len(h)
         /\ \A i \in 1..Len(history) : h[i] = history[i]
         /\ h[Len(h)] = Next_Token(from)
         /\ RunOf(h)[Len(h)] = t.read
         /\ KeysIn(h) = KeysIn(history) \cup
              (IF IsKey(from.read, Next_Token(from)) THEN {Len(history) + 1} ELSE {})
<1>. DEFINE n == Next_Token(from)
            h == Append(history, n)
<1>1. /\ history \in Seq(Tokens) /\ history # <<>> /\ n \in Tokens
      /\ RunOf(history)[Len(history)] = from.read
  BY DEF Traced
<1>2. /\ h \in Seq(Tokens) /\ Len(h) = Len(history) + 1 /\ h[Len(history) + 1] = n
      /\ Len(history) \in Nat /\ \A i \in 1..Len(history) : h[i] = history[i]
  BY <1>1, AppendProperties
<1>3. h # <<>> /\ Len(history) <= Len(h)
  <2>1. \A x \in Nat : x <= x + 1
    OBVIOUS
  <2>2. h # <<>>
    BY <1>1
  <2>. QED
    BY <1>2, <2>1, <2>2
<1>4. history' = h
  BY <1>1, AnswersIs
<1>5. RunOf(h)[Len(history) + 1] = Grammar!ReadToken(from.read, Structure(n))
  BY <1>1, RunExtends
<1>6. t.read = Grammar!ReadToken(from.read, Structure(n))
  BY DEF Consumes
<1>7. KeysIn(h) = KeysIn(history) \cup (IF IsKey(from.read, n) THEN {Len(history) + 1} ELSE {})
  BY <1>1, KeysGrow
<1>. QED
  BY <1>2, <1>3, <1>4, <1>5, <1>6, <1>7

\* A call that read no key leaves the keys, and what was made of them, as they were.
LEMMA Quiet ==
  ASSUME Traced, pc \notin Before, from \in Readers, NEW t, Answers(t), from' = t,
         \/ t.ahead = from.ahead /\ t.read = from.read
         \/ Consumes(from, t) /\ Next_Token(from) \in Tokens /\ ~IsKey(from.read, Next_Token(from))
  PROVE  /\ history' \in Seq(Tokens) /\ history' # <<>>
         /\ RunOf(history')[Len(history')] = from'.read
         /\ \A i \in 1..Len(from'.ahead) : from'.ahead[i] \in Shown
         /\ KeysIn(history') = KeysIn(history) /\ KeysIn(history) \subseteq 1..Len(history)
         /\ \A D \in SUBSET KeysIn(history) : \A s, c :
              Tally(D, history, s, c) =>
                /\ Tally(D, history', s, c)
                /\ \A f : Given(D, history', f) = Given(D, history, f)
<1>1. /\ history \in Seq(Tokens) /\ history # <<>>
      /\ RunOf(history)[Len(history)] = from.read
  BY DEF Traced
<1>2. KeysIn(history) \subseteq 1..Len(history)
  BY <1>1, KeysBelow
<1>3. \A i \in 1..Len(from'.ahead) : from'.ahead[i] \in Shown
  BY AheadStays
<1>4. CASE t.ahead = from.ahead /\ t.read = from.read
  <2>1. history' = history
    BY <1>1, <1>4, AnswersIs
  <2>. QED
    BY <1>1, <1>2, <1>3, <1>4, <2>1
<1>5. CASE Consumes(from, t) /\ Next_Token(from) \in Tokens /\ ~IsKey(from.read, Next_Token(from))
  <2>. DEFINE h == Append(history, Next_Token(from))
  <2>1. /\ history' = h /\ h \in Seq(Tokens) /\ h # <<>> /\ Len(history) <= Len(h)
        /\ \A i \in 1..Len(history) : h[i] = history[i]
        /\ RunOf(h)[Len(h)] = t.read
        /\ KeysIn(h) = KeysIn(history)
    BY <1>5, HistoryGrows
  <2>. HIDE DEF h
  <2>2. ASSUME NEW D \in SUBSET KeysIn(history), NEW s, NEW c, Tally(D, history, s, c)
        PROVE  Tally(D, h, s, c) /\ \A f : Given(D, h, f) = Given(D, history, f)
    <3>1. D \subseteq 1..Len(history)
      BY <1>2
    <3>. QED
      BY <1>1, <2>1, <2>2, <3>1, TallyExtends
  <2>. QED
    BY <1>2, <1>3, <2>1, <2>2
<1>. QED
  BY <1>4, <1>5

\* The question for the next field: a name that was read is a key, whose field is yet to be
\* dealt with; or the record is exhausted.
LEMMA AskLeaves ==
  ASSUME RootKept, Traced, Tallied, Ask_Field
  PROVE  Traced' /\ Tallied' /\ Justified
<1>1. /\ pc = "loop" /\ from.raw = <<>> /\ InRecord(from) /\ OnRoot(from) /\ pc \notin Before
      /\ history \in Seq(Tokens)
  BY DEF Ask_Field, RootKept, Traced, Before, Within
<1>. DEFINE t == Next_Field(from, TRUE)
            c == builder.candidate
            n == Next_Token(from)
            K == KeysIn(history)
<1>2. \/ Starves(t) \/ Rejects(t)
      \/ /\ Answers(t) /\ Top(t).child = "ready"
         /\ Continue("field", c) /\ name' = Head(from.ahead).name /\ UNCHANGED seen
      \/ /\ Answers(t) /\ Top(t).child # "ready"
         /\ Continue("close", c) /\ name' = NoName /\ UNCHANGED seen
  BY DEF Ask_Field
<1>3. IF from.raw = <<>> THEN \E k \in Calls : t = Event(from, k) ELSE t = Skip_Step(from)
  BY <1>1, AdapterCalls
<1>4. t = Next_Field(from, TRUE)
  OBVIOUS
<1>5. c = [f \in Fields |-> c[f]]
  BY <1>1 DEF Tallied
<1>. HIDE DEF t
<1>6. CASE Starves(t) \/ Rejects(t)
  BY <1>1, <1>3, <1>6, AskedLeaves
<1>7. ASSUME Answers(t)
      PROVE  /\ Live(from) /\ ~Latched(from) /\ from \in Readers /\ from' = t
             /\ InRecord(t) /\ OnRoot(t) /\ t.raw = <<>>
             /\ IF Top(t).child = "ready"
                THEN /\ Consumes(from, t) /\ n \in Tokens /\ IsText(n)
                     /\ n.head = "text" => IsKey(from.read, n)
                ELSE t.ahead = from.ahead /\ t.read = from.read
             /\ Tally(K, history, seen, c)
             /\ \A f \in seen : Given(K, history, f) # {}
  <2>1. Live(from) /\ ~Latched(from) /\ from \in Readers /\ from' = t /\ ~Latched(t)
    BY <1>1, <1>3, <1>7, AskedLeaves
  <2>2. /\ InRecord(t) /\ OnRoot(t) /\ t.raw = <<>> /\ Top(from).child # "ready"
        /\ IF Top(t).child = "ready"
           THEN /\ Consumes(from, t) /\ n \in Tokens /\ IsText(n)
                /\ n.head = "text" => IsKey(from.read, n)
           ELSE t.ahead = from.ahead /\ t.read = from.read
    BY <1>1, <1>4, <2>1, FieldRoot
  <2>3. Ordinary /\ pc \notin After /\ Finished = K
    BY <1>1, <2>2 DEF Ordinary, After, Finished
  <2>. HIDE DEF K, c, n
  <2>4. Tally(K, history, seen, c) /\ \A f \in seen : Given(K, history, f) # {}
    BY <2>3 DEF Tallied, c
  <2>. QED
    BY <2>1, <2>2, <2>4
<1>8. CASE /\ Answers(t) /\ Top(t).child = "ready"
           /\ Continue("field", c) /\ name' = Head(from.ahead).name /\ UNCHANGED seen
  <2>. DEFINE h == Append(history, n)
  <2>1. /\ Live(from) /\ from \in Readers /\ from' = t
        /\ InRecord(t) /\ OnRoot(t) /\ Consumes(from, t) /\ n \in Tokens /\ IsText(n)
        /\ n.head = "text" => IsKey(from.read, n)
        /\ Tally(K, history, seen, c)
        /\ \A f \in seen : Given(K, history, f) # {}
    BY <1>7, <1>8
  <2>2. /\ \A i \in 1..Len(from'.ahead) : from'.ahead[i] \in Shown
        /\ n \in Shown /\ n = Head(from.ahead)
    BY <2>1, AheadStays DEF Consumes
  <2>3. IsKey(from.read, n)
    BY <2>1, <2>2 DEF Shown, IsText
  <2>4. /\ history' = h /\ h \in Seq(Tokens) /\ h # <<>>
        /\ Len(h) = Len(history) + 1 /\ Len(history) <= Len(h)
        /\ \A i \in 1..Len(history) : h[i] = history[i]
        /\ h[Len(h)] = n
        /\ RunOf(h)[Len(h)] = t.read
        /\ KeysIn(h) = K \cup {Len(history) + 1}
    BY <1>1, <1>8, <2>1, <2>3, HistoryGrows
  <2>5. K \subseteq 1..Len(history) /\ Len(history) \in Nat
        /\ \A k \in K : k \in Nat /\ k <= Len(history)
    BY <1>1, KeysBelow
  <2>. HIDE DEF h, n, c, K
  <2>6. Tally(K, h, seen, c) /\ \A f : Given(K, h, f) = Given(K, history, f)
    BY <1>1, <2>1, <2>4, <2>5, TallyExtends
  <2>7. Len(h) \in KeysIn(h) /\ KeysIn(h) \ {Len(h)} = K
    <3>1. \A k \in K : k # Len(history) + 1
      BY <2>5
    <3>. QED
      BY <2>4, <3>1
  <2>8. Continue("field", c) /\ seen' = seen /\ name' = n.name
    BY <1>8, <2>2
  <2>9. pc' = "field"
    BY <2>8 DEF Continue
  <2>10. Finished' = K
    BY <2>4, <2>7, <2>9 DEF Finished
  <2>11. Tally(Finished', history', seen', c) /\ \A f \in seen' : Given(Finished', history', f) # {}
    BY <2>1, <2>4, <2>6, <2>8, <2>10
  <2>12. Tallied'
    BY <1>5, <2>8, <2>11, Recorded
  <2>13. Top(from').child = "ready"
    BY <1>8, <2>1
  <2>14. Traced'
    BY <2>1, <2>2, <2>4, <2>7, <2>8, <2>9, <2>13 DEF Traced, Before, Within, After
  <2>. QED
    BY <2>9, <2>12, <2>14 DEF Justified
<1>9. CASE /\ Answers(t) /\ Top(t).child # "ready"
           /\ Continue("close", c) /\ name' = NoName /\ UNCHANGED seen
  <2>1. /\ Live(from) /\ from \in Readers /\ from' = t
        /\ InRecord(t) /\ OnRoot(t) /\ t.ahead = from.ahead /\ t.read = from.read
        /\ Tally(K, history, seen, c)
        /\ \A f \in seen : Given(K, history, f) # {}
    BY <1>7, <1>9
  <2>2. /\ history' \in Seq(Tokens) /\ history' # <<>>
        /\ RunOf(history')[Len(history')] = from'.read
        /\ \A i \in 1..Len(from'.ahead) : from'.ahead[i] \in Shown
        /\ KeysIn(history') = K
    BY <1>1, <1>9, <2>1, Quiet
  <2>3. history' = history
    BY <1>1, <1>9, <2>1, AnswersIs
  <2>. HIDE DEF n, c, K
  <2>4. Continue("close", c) /\ seen' = seen
    BY <1>9
  <2>5. pc' = "close"
    BY <2>4 DEF Continue
  <2>6. Finished' = K
    BY <2>2, <2>5 DEF Finished
  <2>7. Tally(Finished', history', seen', c) /\ \A f \in seen' : Given(Finished', history', f) # {}
    BY <2>1, <2>3, <2>4, <2>6
  <2>8. Tallied'
    BY <1>5, <2>4, <2>7, Recorded
  <2>9. Traced'
    BY <2>1, <2>2, <2>5 DEF Traced, Before, Within, After
  <2>. QED
    BY <2>5, <2>8, <2>9 DEF Justified
<1>. QED
  BY <1>2, <1>6, <1>8, <1>9

\* A set of places with two members.
LEMMA TwoPlaces ==
  ASSUME NEW n \in Nat, NEW S, S \subseteq 1..n, NEW j \in S, NEW k \in S, j # k
  PROVE  Cardinality(S) > 1
<1>1. IsFiniteSet(1..n)
  BY FS_Interval
<1>2. IsFiniteSet(S)
  BY <1>1, FS_Subset
<1>3. IsFiniteSet(S \ {j}) /\ Cardinality(S \ {j}) = Cardinality(S) - 1
  BY <1>2, FS_RemoveElement
<1>4. Cardinality(S \ {j}) # 0
  BY <1>3, FS_EmptySet
<1>5. Cardinality(S) \in Nat /\ Cardinality(S \ {j}) \in Nat
  BY <1>2, <1>3, FS_CardinalityType
<1>6. \A x, y \in Nat : y = x - 1 /\ y # 0 => x > 1
  OBVIOUS
<1>. QED
  BY <1>3, <1>4, <1>5, <1>6

\* A field whose name was read: its key is the last token, and is yet to be dealt with.
LEMMA AtField ==
  ASSUME RootKept, Traced, Tallied, pc = "field"
  PROVE  LET K == KeysIn(history)  l == Len(history)  c == builder.candidate IN
         /\ pc \notin Before /\ pc \notin After /\ pc # "idle"
         /\ ~Latched(from) /\ from.raw = <<>>
         /\ InRecord(from) /\ OnRoot(from) /\ Top(from).child = "ready"
         /\ history \in Seq(Tokens) /\ K \subseteq 1..l /\ l \in Nat
         /\ l \in K /\ name = history[l].name
         /\ Tally(K \ {l}, history, seen, c)
         /\ \A f \in seen : Given(K \ {l}, history, f) # {}
         /\ c = [f \in Fields |-> c[f]] /\ seen \subseteq Fields
<1>1. pc \notin Before /\ pc \notin After /\ pc # "idle" /\ pc \in Within
  BY DEF Before, After, Within
<1>2. history \in Seq(Tokens) /\ Len(history) \in Nat /\ KeysIn(history) \subseteq 1..Len(history)
  BY KeysBelow DEF Traced
<1>3. Ordinary /\ Finished = KeysIn(history) \ {Len(history)}
  BY <1>1 DEF Ordinary, Finished
<1>4. /\ Tally(Finished, history, seen, builder.candidate)
      /\ \A f \in seen : Given(Finished, history, f) # {}
      /\ builder.candidate = [f \in Fields |-> builder.candidate[f]]
  BY <1>1, <1>3 DEF Tallied
<1>5. seen \subseteq Fields
  BY <1>4 DEF Tally
<1>6. ~Latched(from) /\ from.raw = <<>>
  BY <1>1 DEF RootKept
<1>7. /\ InRecord(from) /\ OnRoot(from) /\ Top(from).child = "ready"
      /\ Len(history) \in KeysIn(history) /\ name = history[Len(history)].name
  BY <1>1 DEF Traced
<1>. QED
  BY <1>1, <1>2, <1>3, <1>4, <1>5, <1>6, <1>7

\* A field that the policy rejects: the tokens bear it out.
LEMMA RejectLeaves ==
  ASSUME RootKept, Traced, Tallied, Reject_Field
  PROVE  Traced' /\ Tallied' /\ Justified
<1>. DEFINE l == Len(history)
            m == Matches(name)
<1>1. pc = "field" /\ FailWith(Treatment) /\ Treatment \notin {"skip", "decode"}
  BY DEF Reject_Field
<1>2. /\ history \in Seq(Tokens) /\ Keys \subseteq 1..l /\ l \in Nat /\ ~Latched(from)
      /\ l \in Keys /\ name = history[l].name
      /\ \A f \in seen : Given(Keys \ {l}, history, f) # {}
  <2>1. /\ history \in Seq(Tokens) /\ KeysIn(history) \subseteq 1..l /\ l \in Nat /\ ~Latched(from)
        /\ l \in KeysIn(history) /\ name = history[l].name
        /\ \A f \in seen : Given(KeysIn(history) \ {l}, history, f) # {}
    BY <1>1, AtField
  <2>2. Keys = KeysIn(history)
    BY KeysAre
  <2>. QED
    BY <2>1, <2>2
<1>3. /\ Treatment \in {"Application_Error", "Unknown_Field", "Duplicate_Field", "skip", "decode"}
      /\ Treatment = "Unknown_Field" => m = {}
      /\ Treatment = "Duplicate_Field" => \E f \in Fields : m = {f} /\ f \in seen
  BY TreatmentIs
<1>4. Treatment \in {"Application_Error", "Unknown_Field", "Duplicate_Field"}
  BY <1>1, <1>3
<1>. HIDE DEF l
<1>5. /\ Traced' /\ Tallied' /\ from'.error = Treatment
      /\ Treatment = "Application_Error" => Justified
  BY <1>1, <1>2, <1>4, AdapterLeaves
<1>6. Treatment = "Unknown_Field" => Unknown # {}
  BY <1>2, <1>3 DEF Unknown
<1>7. ASSUME Treatment = "Duplicate_Field" PROVE \E f \in Fields : Cardinality(KeysOf(f)) > 1
  <2>1. PICK f \in Fields : m = {f} /\ f \in seen
    BY <1>3, <1>7
  <2>2. PICK k \in Keys : k # l /\ f \in Matches(history[k].name)
    BY <1>2, <2>1 DEF Given
  <2>3. k \in KeysOf(f) /\ l \in KeysOf(f)
    BY <1>2, <2>1, <2>2 DEF KeysOf
  <2>4. KeysOf(f) \subseteq 1..l
    BY <1>2 DEF KeysOf
  <2>5. Cardinality(KeysOf(f)) > 1
    BY <1>2, <2>2, <2>3, <2>4, TwoPlaces
  <2>. QED
    BY <2>5
<1>8. Treatment # "Application_Error" => Justified
  BY <1>4, <1>5, <1>6, <1>7 DEF Justified
<1>. QED
  BY <1>5, <1>8

\* The value of a field that is kept: it is the one selected so far.
LEMMA DecodeLeaves ==
  ASSUME RootKept, Traced, Tallied, Decode_Field
  PROVE  Traced' /\ Tallied' /\ Justified
<1>. DEFINE t == Read_Unsigned(from)
            c == builder.candidate
            n == Next_Token(from)
            l == Len(history)
            K == KeysIn(history)
            h == Append(history, n)
            e(f) == Store(c, f, Head(from.ahead))
<1>1. /\ pc = "field" /\ Treatment = "decode" /\ pc \notin {"idle", "skipping"}
      /\ \/ Starves(t) \/ Rejects(t)
         \/ /\ Answers(t)
            /\ \E f \in Matches(name) : Continue("loop", e(f)) /\ seen' = Mark(f)
            /\ name' = name
  BY DEF Decode_Field
<1>2. /\ pc \notin Before /\ pc # "idle"
      /\ ~Latched(from) /\ from.raw = <<>> /\ InRecord(from) /\ OnRoot(from)
      /\ history \in Seq(Tokens) /\ K \subseteq 1..l /\ l \in Nat
      /\ l \in K /\ name = history[l].name
      /\ Tally(K \ {l}, history, seen, c)
      /\ \A f \in seen : Given(K \ {l}, history, f) # {}
      /\ c = [f \in Fields |-> c[f]]
  BY <1>1, AtField
<1>3. IF from.raw = <<>> THEN \E k \in Calls : t = Event(from, k) ELSE t = Skip_Step(from)
  BY <1>1, AdapterCalls
<1>4. t = Read_Unsigned(from)
  OBVIOUS
<1>. HIDE DEF t
<1>5. CASE Starves(t) \/ Rejects(t)
  BY <1>2, <1>3, <1>5, AskedLeaves
<1>6. ASSUME Answers(t), NEW f \in Matches(name), Continue("loop", e(f)), seen' = Mark(f)
      PROVE  Traced' /\ Tallied' /\ Justified
  <2>1. Live(from) /\ from \in Readers /\ from' = t /\ ~Latched(t)
    BY <1>2, <1>3, <1>6, AskedLeaves
  <2>2. /\ Consumes(from, t) /\ n \in Tokens /\ ~IsKey(from.read, n)
        /\ InRecord(t) /\ OnRoot(t) /\ t.raw = <<>> /\ Top(t).child = "none"
    BY <1>2, <1>4, <2>1, ReadRoot
  <2>3. /\ \A i \in 1..Len(from'.ahead) : from'.ahead[i] \in Shown
        /\ n = Head(from.ahead)
    BY <2>1, <2>2, AheadStays DEF Consumes
  <2>4. /\ history' = h /\ h \in Seq(Tokens) /\ h # <<>>
        /\ RunOf(h)[Len(h)] = t.read /\ KeysIn(h) = K
    BY <1>2, <1>6, <2>1, <2>2, HistoryGrows
  <2>5. f \in Fields /\ Matches(history[l].name) = {f}
        /\ (f \in seen => setup.policy.duplicates = "Keep_Last")
    <3>1. \E g \in Fields : Matches(name) = {g} /\ (g \in seen => setup.policy.duplicates = "Keep_Last")
      BY <1>1, TreatmentIs
    <3>. QED
      BY <1>2, <1>6, <3>1
  <2>6. e(f) = [c EXCEPT ![f] = n.head]
    BY <2>3 DEF Store
  <2>. HIDE DEF c, K, l, n, h, e
  <2>7. /\ Tally(K, h, seen \cup {f}, [c EXCEPT ![f] = n.head])
        /\ \A g \in seen \cup {f} : Given(K, h, g) # {}
    <3>1. LET w == Append(history, n) IN
          /\ Tally(K, w, seen \cup {f}, [c EXCEPT ![f] = n.head])
          /\ \A g \in seen \cup {f} : Given(K, w, g) # {}
      BY <1>2, <2>2, <2>5, TallyDecoded DEF l
    <3>. QED
      BY <3>1 DEF h
  <2>8. e(f) = [g \in Fields |-> e(f)[g]]
    <3>1. \A d : d = [g \in Fields |-> d[g]] =>
            [d EXCEPT ![f] = n.head] = [g \in Fields |-> [d EXCEPT ![f] = n.head][g]]
      OBVIOUS
    <3>. QED
      BY <1>2, <2>6, <3>1
  <2>9. pc' = "loop"
    BY <1>6 DEF Continue
  <2>10. Finished' = K /\ seen' = seen \cup {f}
    BY <1>6, <2>4, <2>9 DEF Finished, Mark
  <2>11. /\ Tally(Finished', history', seen', e(f))
         /\ \A g \in seen' : Given(Finished', history', g) # {}
    BY <2>4, <2>6, <2>7, <2>10
  <2>12. Tallied'
    BY <1>6, <2>8, <2>11, Recorded
  <2>13. Traced'
    BY <2>1, <2>2, <2>3, <2>4, <2>9 DEF Traced, Before, Within, After
  <2>. QED
    BY <2>9, <2>12, <2>13 DEF Justified
<1>. QED
  BY <1>1, <1>5, <1>6

\* A field decoder that fails, or that leaves its value unread: that call cannot succeed.
LEMMA MisreadLeaves ==
  ASSUME RootKept, Traced, Tallied, Misread_Field
  PROVE  Traced' /\ Tallied' /\ Justified
<1>. DEFINE c == builder.candidate
<1>1. /\ pc = "field"
      /\ \/ Application_Fails
         \/ /\ Continue("loop", c)
            /\ \E f \in Matches(name) : seen' = Mark(f)
            /\ UNCHANGED <<from, name, history>>
  BY DEF Misread_Field
<1>2. /\ ~Latched(from) /\ InRecord(from) /\ OnRoot(from) /\ Top(from).child = "ready"
      /\ c = [f \in Fields |-> c[f]]
  BY <1>1, AtField
<1>3. CASE Application_Fails
  BY <1>2, <1>3, ApplicationLeaves
<1>4. CASE Continue("loop", c) /\ UNCHANGED <<from, name, history>>
  <2>. HIDE DEF c
  <2>1. pc' = "loop"
    BY <1>4 DEF Continue
  <2>2. Top(from').child = "ready"
    BY <1>2, <1>4
  <2>3. Tallied'
    BY <1>2, <1>4, <2>2, Recorded
  <2>4. Traced'
    BY <1>1, <1>2, <1>4, <2>1 DEF Traced, Before, Within, After
  <2>. QED
    BY <2>1, <2>3, <2>4 DEF Justified
<1>. QED
  BY <1>1, <1>3, <1>4

\* A field that is passed over: its value holds no key.
LEMMA SkipLeaves ==
  ASSUME RootKept, Traced, Tallied, Skip_Field
  PROVE  Traced' /\ Tallied' /\ Justified
<1>. DEFINE c == builder.candidate
            l == Len(history)
            K == KeysIn(history)
            next(t) == IF t.raw = <<>> THEN "loop" ELSE "skipping"
<1>1. CASE pc = "field" /\ Treatment = "skip" /\ Skip_Call(Skip_Value(from))
  <2>. DEFINE t == Skip_Value(from)
  <2>1. /\ pc \notin Before /\ pc # "idle" /\ pc \notin {"idle", "skipping"}
        /\ ~Latched(from) /\ from.raw = <<>> /\ InRecord(from) /\ OnRoot(from)
        /\ history \in Seq(Tokens) /\ K \subseteq 1..l /\ l \in Nat
        /\ l \in K /\ name = history[l].name
        /\ Tally(K \ {l}, history, seen, c)
        /\ \A f \in seen : Given(K \ {l}, history, f) # {}
        /\ c = [f \in Fields |-> c[f]]
    BY <1>1, AtField
  <2>2. IF from.raw = <<>> THEN \E k \in Calls : t = Event(from, k) ELSE t = Skip_Step(from)
    BY <2>1, AdapterCalls
  <2>3. t = Skip_Value(from)
    OBVIOUS
  <2>. HIDE DEF t
  <2>4. \/ Starves(t) \/ Rejects(t)
        \/ Answers(t) /\ Continue(next(t), c) /\ seen' = seen
    BY <1>1, <2>3 DEF Skip_Call
  <2>5. CASE Starves(t) \/ Rejects(t)
    BY <2>1, <2>2, <2>5, AskedLeaves
  <2>6. CASE Answers(t) /\ Continue(next(t), c) /\ seen' = seen
    <3>1. Live(from) /\ from \in Readers /\ from' = t /\ ~Latched(t)
      BY <2>1, <2>2, <2>6, AskedLeaves
    <3>2. /\ t.ahead = from.ahead /\ t.read = from.read
          /\ InRecord(t) /\ OnRoot(t) /\ t.raw # <<>>
      BY <2>1, <2>3, <3>1, SkipRoot
    <3>3. history' = history
      BY <2>1, <2>6, <3>1, <3>2, AnswersIs
    <3>4. /\ history' \in Seq(Tokens) /\ history' # <<>>
          /\ RunOf(history')[Len(history')] = from'.read
          /\ \A i \in 1..Len(from'.ahead) : from'.ahead[i] \in Shown
      BY <2>1, <2>6, <3>1, <3>2, Quiet
    <3>5. /\ Tally(K, history, seen, c)
          /\ \A f \in seen : Given(K, history, f) # {}
      <4>1. LET m == Matches(name) IN
              \/ m = {} /\ setup.policy.unknown # "Reject_Unknown"
              \/ \E f \in Fields : m = {f} /\ f \in seen /\ setup.policy.duplicates = "Keep_First"
        BY <1>1, TreatmentIs
      <4>2. LET m == Matches(history[l].name) IN
              \/ m = {} /\ setup.policy.unknown # "Reject_Unknown"
              \/ \E f \in Fields : m = {f} /\ f \in seen /\ setup.policy.duplicates = "Keep_First"
        BY <2>1, <4>1
      <4>. QED
        BY <2>1, <4>2, TallySkipped
    <3>. HIDE DEF c, K, l
    <3>6. Continue("skipping", c) /\ pc' = "skipping"
      BY <2>6, <3>2 DEF Continue
    <3>7. Finished' = K
      BY <3>3, <3>6 DEF Finished, K
    <3>8. /\ Tally(Finished', history', seen', c)
          /\ \A f \in seen' : Given(Finished', history', f) # {}
      BY <2>6, <3>3, <3>5, <3>7
    <3>9. Tallied'
      BY <2>1, <3>6, <3>8, Recorded
    <3>10. Traced'
      BY <3>1, <3>2, <3>4, <3>6 DEF Traced, Before, Within, After
    <3>. QED
      BY <3>6, <3>9, <3>10 DEF Justified
  <2>. QED
    BY <2>4, <2>5, <2>6
<1>2. CASE pc = "skipping" /\ Skip_Call(Skip_Step(from))
  <2>. DEFINE t == Skip_Step(from)
  <2>1. /\ pc \notin Before /\ pc # "idle" /\ pc \notin After
        /\ ~Latched(from) /\ from.raw # <<>> /\ InRecord(from) /\ OnRoot(from)
        /\ history \in Seq(Tokens)
    BY <1>2 DEF Traced, Before, Within, After, RootKept
  <2>2. Ordinary /\ Finished = K
    BY <1>2, <2>1 DEF Ordinary, Finished
  <2>3. /\ Tally(K, history, seen, c)
        /\ \A f \in seen : Given(K, history, f) # {}
        /\ c = [f \in Fields |-> c[f]]
    BY <2>1, <2>2 DEF Tallied
  <2>4. IF from.raw = <<>> THEN \E k \in Calls : t = Event(from, k) ELSE t = Skip_Step(from)
    BY <2>1
  <2>5. t = Skip_Step(from)
    OBVIOUS
  <2>. HIDE DEF t
  <2>6. \/ Starves(t) \/ Rejects(t)
        \/ Answers(t) /\ Continue(next(t), c) /\ seen' = seen
    BY <1>2, <2>5 DEF Skip_Call
  <2>7. CASE Starves(t) \/ Rejects(t)
    BY <2>1, <2>4, <2>7, AskedLeaves
  <2>8. CASE Answers(t) /\ Continue(next(t), c) /\ seen' = seen
    <3>1. Live(from) /\ from \in Readers /\ from' = t /\ Live(t) /\ ~Latched(t)
      BY <2>1, <2>4, <2>8, AskedLeaves
    <3>2. /\ InRecord(t) /\ OnRoot(t) /\ Top(t).child # "ready"
          /\ \/ t.ahead = from.ahead /\ t.read = from.read
             \/ /\ Consumes(from, t) /\ Next_Token(from) \in Tokens
                /\ ~IsKey(from.read, Next_Token(from))
      BY <2>1, <2>5, <3>1, SkipStepRoot
    <3>3. /\ history' \in Seq(Tokens) /\ history' # <<>>
          /\ RunOf(history')[Len(history')] = from'.read
          /\ \A i \in 1..Len(from'.ahead) : from'.ahead[i] \in Shown
          /\ KeysIn(history') = K
          /\ \A D \in SUBSET K : \A s, d :
               Tally(D, history, s, d) =>
                 /\ Tally(D, history', s, d)
                 /\ \A f : Given(D, history', f) = Given(D, history, f)
      BY <2>1, <2>8, <3>1, <3>2, Quiet
    <3>. HIDE DEF c, K
    <3>4. /\ Tally(K, history', seen, c)
          /\ \A f \in seen : Given(K, history', f) # {}
      BY <2>3, <3>3
    <3>. DEFINE z == next(t)
    <3>5. z \in {"loop", "skipping"} /\ Continue(z, c)
      BY <2>8
    <3>. HIDE DEF z
    <3>6. pc' = z
      BY <3>5 DEF Continue
    <3>7. Finished' = K
      BY <3>3, <3>5, <3>6 DEF Finished
    <3>8. /\ Tally(Finished', history', seen', c)
          /\ \A f \in seen' : Given(Finished', history', f) # {}
      BY <2>8, <3>4, <3>7
    <3>9. Tallied'
      BY <2>3, <3>5, <3>8, Recorded
    <3>10. Traced'
      BY <3>1, <3>2, <3>3, <3>5, <3>6 DEF Traced, Before, Within, After
    <3>. QED
      BY <3>5, <3>6, <3>9, <3>10 DEF Justified
  <2>. QED
    BY <2>6, <2>7, <2>8
<1>. QED
  BY <1>1, <1>2 DEF Skip_Field

\* The end of the record: at most a break is read, which is no key.
LEMMA CloseLeaves ==
  ASSUME RootKept, Traced, Tallied, Close_Record
  PROVE  Traced' /\ Tallied' /\ Justified
<1>. DEFINE t == End_Record(from)
            c == builder.candidate
            K == KeysIn(history)
<1>1. /\ pc = "close" /\ pc \notin {"idle", "skipping"} /\ pc \notin Before /\ pc \notin After
      /\ ~Latched(from) /\ from.raw = <<>> /\ InRecord(from) /\ history \in Seq(Tokens)
  BY DEF Close_Record, RootKept, Traced, Before, Within, After
<1>2. Starves(t) \/ Rejects(t) \/ (Answers(t) /\ Continue("missing", c) /\ seen' = seen)
  BY DEF Close_Record
<1>3. IF from.raw = <<>> THEN \E k \in Calls : t = Event(from, k) ELSE t = Skip_Step(from)
  BY <1>1, AdapterCalls
<1>4. t = End_Record(from)
  OBVIOUS
<1>. HIDE DEF t
<1>5. CASE Starves(t) \/ Rejects(t)
  BY <1>1, <1>3, <1>5, AskedLeaves
<1>6. CASE Answers(t) /\ Continue("missing", c) /\ seen' = seen
  <2>1. Live(from) /\ from \in Readers /\ from' = t /\ ~Latched(t)
    BY <1>1, <1>3, <1>6, AskedLeaves
  <2>2. /\ t.stack = <<>>
        /\ \/ t.ahead = from.ahead /\ t.read = from.read
           \/ /\ Consumes(from, t) /\ Next_Token(from) \in Tokens
              /\ ~IsKey(from.read, Next_Token(from))
    <3>1. /\ t.stack = <<>>
          /\ \/ t.ahead = from.ahead /\ t.read = from.read
             \/ /\ Consumes(from, t) /\ Next_Token(from) \in Tokens
                /\ Next_Token(from).head = "break"
      BY <1>1, <1>4, <2>1, CloseIs
    <3>. QED
      BY <3>1 DEF IsKey
  <2>3. Ordinary /\ Finished = K
    BY <1>1 DEF Ordinary, Finished
  <2>4. Tally(K, history, seen, c) /\ c = [f \in Fields |-> c[f]]
    BY <1>1, <2>3 DEF Tallied
  <2>5. /\ history' \in Seq(Tokens) /\ history' # <<>>
        /\ RunOf(history')[Len(history')] = from'.read
        /\ \A i \in 1..Len(from'.ahead) : from'.ahead[i] \in Shown
        /\ KeysIn(history') = K
        /\ \A D \in SUBSET K : \A s, d :
             Tally(D, history, s, d) =>
               /\ Tally(D, history', s, d)
               /\ \A f : Given(D, history', f) = Given(D, history, f)
    BY <1>1, <1>6, <2>1, <2>2, Quiet
  <2>. HIDE DEF c, K
  <2>6. pc' = "missing" /\ "missing" \in After
    BY <1>6 DEF Continue, After
  <2>7. Finished' = K
    BY <2>5, <2>6 DEF Finished
  <2>8. Tally(Finished', history', seen', c)
    BY <1>6, <2>4, <2>5, <2>7
  <2>9. Tallied'
    BY <1>6, <2>4, <2>6, <2>8, Recorded
  <2>10. Traced'
    BY <2>1, <2>2, <2>5, <2>6 DEF Traced, Before, Within, After
  <2>. QED
    BY <2>6, <2>9, <2>10 DEF Justified
<1>. QED
  BY <1>2, <1>5, <1>6

\* After the record: all keys are dealt with.
LEMMA AfterRecord ==
  ASSUME RootKept, Traced, Tallied, pc \in After
  PROVE  LET K == KeysIn(history)  c == builder.candidate IN
         /\ pc \notin Before /\ pc # "idle" /\ pc \notin {"idle", "skipping"}
         /\ ~Latched(from) /\ from.raw = <<>> /\ from.stack = <<>>
         /\ history \in Seq(Tokens) /\ history # <<>>
         /\ RunOf(history)[Len(history)] = from.read
         /\ Finished = K /\ Tally(K, history, seen, c) /\ c = [f \in Fields |-> c[f]]
<1>1. pc \notin Before /\ pc # "idle" /\ pc # "skipping" /\ pc # "field" /\ pc # "loop"
  BY DEF After, Before
<1>2. Ordinary /\ Finished = KeysIn(history)
  BY <1>1 DEF Ordinary, Finished
<1>3. /\ Tally(KeysIn(history), history, seen, builder.candidate)
      /\ builder.candidate = [f \in Fields |-> builder.candidate[f]]
  BY <1>1, <1>2 DEF Tallied
<1>4. ~Latched(from) /\ from.raw = <<>>
  BY <1>1 DEF RootKept
<1>5. /\ history \in Seq(Tokens) /\ history # <<>> /\ from.stack = <<>>
      /\ RunOf(history)[Len(history)] = from.read
  BY <1>1 DEF Traced
<1>. QED
  BY <1>1, <1>2, <1>3, <1>4, <1>5

\* The fields that were not seen: no key named them.
LEMMA MissingLeaves ==
  ASSUME RootKept, Traced, Tallied, Apply_Missing
  PROVE  Traced' /\ Tallied' /\ Justified
<1>. DEFINE c == builder.candidate
            K == KeysIn(history)
            e(f) == [c EXCEPT ![f] = "default"]
<1>1. pc = "missing" /\ pc \in After
  BY DEF Apply_Missing, After
<1>2. /\ pc # "idle" /\ ~Latched(from) /\ from.raw = <<>> /\ from.stack = <<>>
      /\ history \in Seq(Tokens) /\ history # <<>>
      /\ RunOf(history)[Len(history)] = from.read
      /\ Tally(K, history, seen, c) /\ c = [f \in Fields |-> c[f]]
  BY <1>1, AfterRecord
<1>3. PICK f \in Fields \ seen :
        \/ Application_Fails
        \/ FailWith("Missing_Field")
        \/ /\ Continue("missing", e(f))
           /\ seen' = Mark(f)
           /\ UNCHANGED <<from, name, history>>
  BY DEF Apply_Missing
<1>. HIDE DEF c
<1>4. Tally(K, history, seen \cup {f}, e(f)) /\ Given(K, history, f) = {}
  BY <1>2, TallyMissing
<1>5. CASE Application_Fails
  BY <1>2, <1>5, ApplicationLeaves
<1>6. CASE FailWith("Missing_Field")
  <2>1. Traced' /\ Tallied' /\ from'.error = "Missing_Field"
    BY <1>2, <1>6, AdapterLeaves
  <2>2. KeysOf(f) = {}
    BY <1>4, KeysAre DEF KeysOf, Given
  <2>. QED
    BY <2>1, <2>2 DEF Justified
<1>7. CASE Continue("missing", e(f)) /\ seen' = Mark(f) /\ UNCHANGED <<from, name, history>>
  <2>1. e(f) = [g \in Fields |-> e(f)[g]]
    <3>1. \A d : d = [g \in Fields |-> d[g]] =>
            [d EXCEPT ![f] = "default"] = [g \in Fields |-> [d EXCEPT ![f] = "default"][g]]
      OBVIOUS
    <3>. QED
      BY <1>2, <3>1
  <2>. HIDE DEF K, e
  <2>2. pc' = "missing" /\ seen' = seen \cup {f} /\ "missing" \in After
    BY <1>7 DEF Continue, Mark, After
  <2>3. Finished' = K
    BY <1>7, <2>2 DEF Finished, K
  <2>4. Tally(Finished', history', seen', e(f))
    BY <1>4, <1>7, <2>2, <2>3
  <2>5. Tallied'
    BY <1>7, <2>1, <2>2, <2>4, Recorded
  <2>6. Traced'
    BY <1>2, <1>7, <2>2 DEF Traced, Before, Within, After
  <2>. QED
    BY <2>2, <2>5, <2>6 DEF Justified
<1>. QED
  BY <1>3, <1>5, <1>6, <1>7

\* The last calls of the adapter, and the proof that the document is whole.
LEMMA FinishLeaves ==
  ASSUME RootKept, Traced, Tallied, Finish_Candidate \/ Prove_Whole
  PROVE  Traced' /\ Tallied' /\ Justified
<1>. DEFINE c == builder.candidate
            K == KeysIn(history)
<1>1. pc \in After /\ seen = Fields /\ pc \in {"missing", "finish"}
  BY DEF Finish_Candidate, Prove_Whole, After, Tallied
<1>2. /\ pc # "idle" /\ ~Latched(from) /\ from.raw = <<>> /\ from.stack = <<>>
      /\ history \in Seq(Tokens) /\ history # <<>>
      /\ RunOf(history)[Len(history)] = from.read /\ pc \notin {"idle", "skipping"}
      /\ Tally(K, history, seen, c) /\ c = [f \in Fields |-> c[f]]
  BY <1>1, AfterRecord
<1>3. Fields' = Fields
  BY <1>1 DEF Finish_Candidate, Prove_Whole, Application_Fails, FailCall, RaiseCall, End, Settled,
              Starves, Rejects, Continue, Fields
<1>. HIDE DEF c
<1>4. ASSUME NEW next \in {"finish", "commit"}, Continue(next, c), seen' = seen,
             history' = history, from'.stack = <<>>, from'.read = from.read,
             \A i \in 1..Len(from'.ahead) : from'.ahead[i] \in Shown
      PROVE  Traced' /\ Tallied' /\ Justified
  <2>. HIDE DEF K
  <2>1. pc' = next /\ pc' # "idle" /\ pc' \notin Before /\ pc' \in After /\ next \in After
        /\ pc' \notin Within /\ pc' # "field"
    BY <1>4 DEF Continue, Before, After, Within
  <2>2. Finished' = K
    BY <1>4, <2>1 DEF Finished, K
  <2>3. Tally(Finished', history', seen', c)
    BY <1>2, <1>4, <2>2
  <2>4. Tallied'
    BY <1>1, <1>2, <1>3, <1>4, <2>1, <2>3, Recorded
  <2>5. Traced'
    BY <1>2, <1>4, <2>1 DEF Traced
  <2>. QED
    BY <2>1, <2>4, <2>5 DEF Justified
<1>5. CASE Finish_Candidate
  <2>1. CASE Application_Fails
    BY <1>2, <2>1, ApplicationLeaves
  <2>2. CASE Continue("finish", c) /\ UNCHANGED <<from, name, seen, history>>
    <3>1. \A i \in 1..Len(from'.ahead) : from'.ahead[i] \in Shown
      BY <2>2 DEF Traced
    <3>. QED
      BY <1>2, <1>4, <2>2, <3>1
  <2>. QED
    BY <1>5, <2>1, <2>2 DEF Finish_Candidate, c
<1>6. CASE Prove_Whole
  <2>. DEFINE t == Finish_Document(from)
  <2>1. Starves(t) \/ Rejects(t) \/ (Answers(t) /\ Continue("commit", c) /\ seen' = seen)
    BY <1>6 DEF Prove_Whole, c
  <2>2. IF from.raw = <<>> THEN \E k \in Calls : t = Event(from, k) ELSE t = Skip_Step(from)
    BY <1>2, AdapterCalls
  <2>3. t = Finish_Document(from)
    OBVIOUS
  <2>. HIDE DEF t
  <2>4. CASE Starves(t) \/ Rejects(t)
    BY <1>2, <2>2, <2>4, AskedLeaves
  <2>5. CASE Answers(t) /\ Continue("commit", c) /\ seen' = seen
    <3>1. from \in Readers /\ from' = t /\ ~Latched(t)
      BY <1>2, <2>2, <2>5, AskedLeaves
    <3>2. t.ahead = from.ahead /\ t.read = from.read /\ t.stack = from.stack
      BY <2>3, <3>1, DocumentIs
    <3>3. history' = history
      BY <1>2, <2>5, <3>1, <3>2, AnswersIs
    <3>4. \A i \in 1..Len(from'.ahead) : from'.ahead[i] \in Shown
      BY <3>1, <3>2, AheadStays
    <3>. QED
      BY <1>2, <1>4, <2>5, <3>1, <3>2, <3>3, <3>4
  <2>. QED
    BY <2>1, <2>4, <2>5
<1>. QED
  BY <1>5, <1>6

\* The commit, and what the client does between its calls.
LEMMA CommitLeaves ==
  ASSUME RootKept, Traced, Tallied, Commit_Candidate
  PROVE  Traced' /\ Tallied' /\ Justified
<1>1. pc \in After
  BY DEF Commit_Candidate, After
<1>2. ~Latched(from) /\ from.stack = <<>>
  BY <1>1, AfterRecord
<1>3. CASE Application_Fails
  BY <1>2, <1>3, ApplicationLeaves
<1>4. CASE /\ builder' = [candidate |-> NoCandidate, published |-> builder.candidate]
           /\ UNCHANGED from /\ Settled(FALSE)
  <2>1. /\ pc' = "idle" /\ seen' = {} /\ history' = <<>> /\ from' = from
        /\ builder'.candidate = NoCandidate
    BY <1>4 DEF Settled
  <2>2. from'.error = NoError
    BY <1>2, <2>1 DEF Latched
  <2>3. Traced'
    BY <1>2, <2>1 DEF Traced, Before, Within, After
  <2>4. Tallied'
    BY <2>1 DEF Tallied, Ordinary, Before
  <2>. QED
    BY <2>2, <2>3, <2>4 DEF Justified, NoError
<1>. QED
  BY <1>3, <1>4 DEF Commit_Candidate

\* Between calls nothing is under way.
LEMMA DriveLeaves ==
  ASSUME RootKept, Traced, Tallied, Drive
  PROVE  Traced' /\ Tallied' /\ Justified
<1>1. /\ pc = "idle" /\ pc' = "idle" /\ UNCHANGED <<builder, setup, name, seen, history>>
      /\ pc \in Before
  BY DEF Drive, Client, Before
<1>2. /\ history = <<>> /\ seen = {} /\ from.stack = <<>> /\ builder.candidate = NoCandidate
      /\ \A i \in 1..Len(from.ahead) : from.ahead[i] \in Shown
  BY <1>1 DEF Traced, Tallied
<1>3. from'.stack = <<>> /\ (from'.ahead = <<>> \/ from'.ahead = from.ahead)
  <2>1. from \in Readers
    BY DEF RootKept, Live, Dead, Bounded
  <2>2. CASE from' = Aborted(from.error)
    BY <2>2 DEF Aborted, Abort_Document, Unwind, Latch, Latched, Fresh
  <2>3. CASE from' = [Fresh EXCEPT !.error = from.error]
    BY <2>3 DEF Fresh
  <2>4. ASSUME NEW c \in {NoError, "Application_Error"}, from' = [from EXCEPT !.error = c]
        PROVE  from'.stack = <<>> /\ from'.ahead = from.ahead
    BY <1>2, <2>1, <2>4 DEF Readers
  <2>. QED
    BY <2>2, <2>3, <2>4 DEF Drive, Client
<1>4. Traced'
  BY <1>1, <1>2, <1>3 DEF Traced, Before, Within, After
<1>5. Tallied'
  BY <1>1, <1>2 DEF Tallied, Ordinary, Before
<1>. QED
  BY <1>1, <1>4, <1>5 DEF Justified

\* The inductive invariant of Deserialize.
IRoot == RootKept /\ Traced /\ Tallied

\* Every step of the call, or of its client, keeps the invariant; and a call that ends with an
\* error about a field has the tokens on its side.
LEMMA RootGoesOn ==
  IRoot /\ [RootNext]_rootVars => IRoot' /\ [Justified]_rootVars
<1>. SUFFICES ASSUME RootKept, Traced, Tallied, [RootNext]_rootVars
              PROVE  IRoot' /\ [Justified]_rootVars
  BY DEF IRoot
<1>1. RootKept'
  BY RootSteps
<1>2. CASE UNCHANGED rootVars
  <2>1. /\ from' = from /\ builder' = builder /\ setup' = setup /\ pc' = pc /\ name' = name
        /\ seen' = seen /\ history' = history
    BY <1>2 DEF rootVars
  <2>2. Traced'
    BY <2>1 DEF Traced
  <2>3. Tallied'
    <3>1. Fields' = Fields /\ Finished' = Finished /\ Ordinary' = Ordinary
      BY <2>1 DEF Fields, Finished, Ordinary
    <3>2. Ordinary => Tally(Finished, history, seen, builder.candidate)'
      <4>1. Ordinary => Tally(Finished', history', seen', builder'.candidate)
        BY <2>1, <3>1 DEF Tallied
      <4>. QED
        BY <2>1, <4>1, TallyNext
    <3>3. Ordinary /\ pc \notin After => (\A f \in seen : Given(Finished, history, f) # {})'
      <4>1. Ordinary /\ pc \notin After => \A f \in seen' : Given(Finished', history', f) # {}
        BY <2>1, <3>1 DEF Tallied
      <4>. QED
        BY <2>1, <4>1, GivenNext
    <3>. QED
      BY <2>1, <3>1, <3>2, <3>3 DEF Tallied, After
  <2>. QED
    BY <1>1, <1>2, <2>2, <2>3 DEF IRoot
<1>3. CASE Drive
  BY <1>1, <1>3, DriveLeaves DEF IRoot
<1>4. CASE Begin \/ Prepare_Metadata
  BY <1>1, <1>4, BeginLeaves DEF IRoot
<1>5. CASE Open_Record
  BY <1>1, <1>5, OpenLeaves DEF IRoot
<1>6. CASE Ask_Field
  BY <1>1, <1>6, AskLeaves DEF IRoot
<1>7. CASE Reject_Field
  BY <1>1, <1>7, RejectLeaves DEF IRoot
<1>8. CASE Decode_Field
  BY <1>1, <1>8, DecodeLeaves DEF IRoot
<1>9. CASE Misread_Field
  BY <1>1, <1>9, MisreadLeaves DEF IRoot
<1>10. CASE Skip_Field
  BY <1>1, <1>10, SkipLeaves DEF IRoot
<1>11. CASE Close_Record
  BY <1>1, <1>11, CloseLeaves DEF IRoot
<1>12. CASE Apply_Missing
  BY <1>1, <1>12, MissingLeaves DEF IRoot
<1>13. CASE Finish_Candidate \/ Prove_Whole
  BY <1>1, <1>13, FinishLeaves DEF IRoot
<1>14. CASE Commit_Candidate
  BY <1>1, <1>14, CommitLeaves DEF IRoot
<1>. QED
  BY <1>2, <1>3, <1>4, <1>5, <1>6, <1>7, <1>8, <1>9, <1>10, <1>11, <1>12, <1>13, <1>14
     DEF RootNext, Deserialize

\* The invariant holds when the client starts.
LEMMA RootStarts == RootInit => IRoot
<1>. SUFFICES ASSUME RootInit PROVE IRoot
  OBVIOUS
<1>1. RootKept
  BY RootBegins
<1>2. /\ pc = "idle" /\ history = <<>> /\ seen = {} /\ from = Fresh
      /\ builder.candidate = NoCandidate
  BY DEF RootInit
<1>3. from.stack = <<>> /\ from.ahead = <<>>
  BY <1>2 DEF Fresh
<1>4. Traced
  BY <1>2, <1>3 DEF Traced, Before, Within, After
<1>5. Tallied
  BY <1>2 DEF Tallied, Ordinary, Before
<1>. QED
  BY <1>1, <1>4, <1>5 DEF IRoot

\* The value selected is unique: it is the reference's.
LEMMA SelectedIs ==
  ASSUME IRoot, pc = "commit", NEW f \in Fields
  PROVE  builder.candidate[f] = Selected(f)
<1>. DEFINE G == KeysOf(f)
            v == builder.candidate[f]
            late == setup.policy.duplicates = "Keep_Last"
<1>1. /\ Tally(Keys, history, seen, builder.candidate) /\ history \in Seq(Tokens) /\ seen = Fields
  BY KeysAre, AfterRecord DEF IRoot, After, Tallied
<1>2. Chosen(Keys, history, f, v) /\ Given(Keys, history, f) = G
  BY <1>1 DEF Tally, KeysOf, Given
<1>3. \A k \in G : k \in Nat
  BY <1>1, KeysAre, KeysBelow DEF KeysOf
<1>. HIDE DEF G
<1>4. CASE G = {}
  BY <1>2, <1>4 DEF Chosen, Selected, G
<1>5. CASE G # {}
  <2>1. PICK k \in G : Preferred(G, k) /\ v = history[k + 1].head
    BY <1>2, <1>5 DEF Chosen
  <2>2. CASE late
    <3>1. \A j \in G : j <= k
      BY <2>1, <2>2 DEF Preferred
    <3>2. \A i \in G : (\A j \in G : j <= i) => i = k
      BY <1>3, <2>1, <3>1
    <3>3. (CHOOSE i \in G : \A j \in G : j <= i) = k
      BY <2>1, <3>1, <3>2
    <3>. QED
      BY <1>5, <2>1, <2>2, <3>3 DEF Selected, G
  <2>3. CASE ~late
    <3>1. \A j \in G : k <= j
      BY <2>1, <2>3 DEF Preferred
    <3>2. \A i \in G : (\A j \in G : i <= j) => i = k
      BY <1>3, <2>1, <3>1
    <3>3. (CHOOSE i \in G : \A j \in G : i <= j) = k
      BY <2>1, <3>1, <3>2
    <3>. QED
      BY <1>5, <2>1, <2>3, <3>3 DEF Selected, G
  <2>. QED
    BY <2>2, <2>3
<1>. QED
  BY <1>4, <1>5

\* What is committed is what the reference decoder makes of the document.
LEMMA PublishedIs == IRoot => PublishedIsDecoded
<1>. SUFFICES ASSUME IRoot PROVE PublishedIsDecoded
  OBVIOUS
<1>1. pc = "idle" => builder.candidate = NoCandidate
  BY DEF IRoot, Tallied
<1>2. ASSUME pc = "commit"
      PROVE  /\ Grammar!Whole(Decoding[Len(history)])
             /\ builder.candidate = [f \in Fields |-> Selected(f)]
             /\ setup.policy.duplicates = "Reject_Duplicate" =>
                  \A f \in Fields : Cardinality(KeysOf(f)) <= 1
             /\ setup.policy.unknown = "Reject_Unknown" => Unknown = {}
  <2>1. pc \in After
    BY <1>2 DEF After
  <2>2. /\ RunOf(history)[Len(history)] = from.read
        /\ Tally(Keys, history, seen, builder.candidate)
        /\ builder.candidate = [f \in Fields |-> builder.candidate[f]]
    BY <2>1, KeysAre, AfterRecord DEF IRoot
  <2>3. Grammar!Whole(Decoding[Len(history)])
    <3>1. Live(from) /\ from.complete
      BY <1>2 DEF IRoot, RootKept, Dead
    <3>2. from.root = "complete"
      BY <3>1 DEF Live, Rooted
    <3>3. Grammar!Whole(from.read)
      BY <3>1, <3>2, LiveReads
    <3>4. Decoding[Len(history)] = from.read
      BY <2>2, DecodingIs
    <3>. QED
      BY <3>3, <3>4
  <2>4. builder.candidate = [f \in Fields |-> Selected(f)]
    <3>1. \A f \in Fields : builder.candidate[f] = Selected(f)
      BY <1>2, SelectedIs
    <3>. QED
      BY <2>2, <3>1
  <2>5. ASSUME setup.policy.duplicates = "Reject_Duplicate", NEW f \in Fields
        PROVE  Cardinality(KeysOf(f)) <= 1
    <3>. DEFINE G == KeysOf(f)
    <3>1. \A j, k \in G : j = k
      BY <2>2, <2>5 DEF Tally, KeysOf, Given
    <3>. HIDE DEF G
    <3>2. CASE G = {}
      BY <3>2, FS_EmptySet DEF G
    <3>3. ASSUME NEW k \in G PROVE Cardinality(G) <= 1
      <4>1. G = {k}
        BY <3>1
      <4>. QED
        BY <4>1, FS_Singleton
    <3>. QED
      BY <3>2, <3>3 DEF G
  <2>6. setup.policy.unknown = "Reject_Unknown" => Unknown = {}
    BY <2>2 DEF Tally, Unknown
  <2>. QED
    BY <2>3, <2>4, <2>5, <2>6
<1>. QED
  BY <1>1, <1>2 DEF PublishedIsDecoded

\* What Deserialize publishes is what a reader of the whole document, the policy in hand,
\* would have: the tokens consumed are one well-formed document, every field holds the value
\* the policy selects among those its keys were given or its default, and no rule of the
\* policy is broken.  No candidate outlives its call.
THEOREM PublishedIsDecodedHolds == RootSpec => []PublishedIsDecoded
<1>1. RootInit => IRoot
  BY RootStarts
<1>2. IRoot /\ [RootNext]_rootVars => IRoot'
  BY RootGoesOn
<1>3. IRoot => PublishedIsDecoded
  BY PublishedIs
<1>. QED
  BY <1>1, <1>2, <1>3, PTL DEF RootSpec

\* A call ends with an error about a field only if the tokens it consumed bear it out: a key
\* of no field, two keys of one field, a field without a key.
THEOREM RejectionIsJustifiedHolds == RootSpec => RejectionIsJustified
<1>1. RootInit => IRoot
  BY RootStarts
<1>2. IRoot /\ [RootNext]_rootVars =>
        IRoot' /\ [pc # "idle" /\ pc' = "idle" =>
          /\ from'.error = "Unknown_Field" => Unknown # {}
          /\ from'.error = "Duplicate_Field" => \E f \in Fields : Cardinality(KeysOf(f)) > 1
          /\ from'.error = "Missing_Field" => \E f \in Fields : KeysOf(f) = {}]_rootVars
  BY RootGoesOn DEF Justified
<1>. QED
  BY <1>1, <1>2, PTL DEF RootSpec, RejectionIsJustified
=============================================================================
