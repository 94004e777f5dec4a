---------------------------- MODULE DeserializeRoot ----------------------------
(***************************************************************************)
(* Deserialization_Adapters.Deserialize around                             *)
(* Adapters.Records.Deserialize_Candidate, reading through the CBOR        *)
(* reader: a record is decoded field by field into a private candidate,    *)
(* which is committed only when the document proved whole.                 *)
(*                                                                         *)
(* The builder and the field decoders are the application's: each of its   *)
(* procedures succeeds, latches an error or raises.  A field holds an      *)
(* unsigned integer.  `from.ahead` is supplied as in CborClient; a text    *)
(* token carries its `name`.  Names are within their limits.               *)
(***************************************************************************)
EXTENDS CborReader, FiniteSets

CONSTANTS
  Records,        \* record descriptions: see RecordsAssumption
  Policies        \* Policy.Records: [duplicates, unknown]

\* Fields are 1 .. Len(declared): declared[f] is the primary name, then the aliases, and
\* matches[f] the names for which Matches_Field answers True.
ASSUME RecordsAssumption ==
  \A r \in Records :
    /\ r.declared \in Seq(Seq(Names)) /\ \A f \in DOMAIN r.declared : r.declared[f] # <<>>
    /\ r.matches \in [DOMAIN r.declared -> SUBSET Names]

ASSUME PoliciesAssumption ==
  Policies \subseteq [duplicates : {"Reject_Duplicate", "Keep_First", "Keep_Last"},
                      unknown : {"Reject_Unknown", "Ignore_Unknown"}]

VARIABLES
  from,        \* From, with the Error the caller passed
  builder,     \* Target: the candidate and the published value
  setup,       \* the record description and the policy of this instantiation
  pc,          \* "idle", or what the call does next
  name,        \* the name Next_Field returned
  seen,        \* Seen, as a set of fields
  raised,      \* whether the last call ended with an exception
  history      \* the tokens the call has consumed

rootVars == <<from, builder, setup, pc, name, seen, raised, history>>

NoCandidate == <<>>

\* bound: the tokens a source shows
Shown ==
  {t \in Tokens :
     /\ t.head \in {"zero", "one", "null", "text", "break", "map", "map_start", "array", "end"}
     /\ t.head = "array" => t.count = 1}

Fields == DOMAIN setup.record.declared
Declared(f) == {setup.record.declared[f][i] : i \in DOMAIN setup.record.declared[f]}
Matches(n) == {f \in Fields : n \in setup.record.matches[f]}

RootInit ==
  /\ from = Fresh
  /\ builder = [candidate |-> NoCandidate, published |-> NoCandidate]
  /\ setup \in [record : Records, policy : Policies]
  /\ pc = "idle" /\ name = NoName /\ seen = {} /\ raised = FALSE /\ history = <<>>

-----------------------------------------------------------------------------
(* The root transaction: how a call ends. *)

Settled(outcome) ==
  /\ pc' = "idle" /\ name' = NoName /\ seen' = {} /\ history' = <<>>
  /\ raised' = outcome
  /\ UNCHANGED setup

Rollback_Candidate(b) == [b EXCEPT !.candidate = NoCandidate]

\* A slip: the failed call forgets the reader.
LeftOpen(error) == [Fresh EXCEPT !.error = error]

\* The reader after Abort_Document.  It answers Invalid_State until it is reset, whatever
\* was left of the source and of the budget, so that is forgotten.
Aborted(error) == Abort_Document([Fresh EXCEPT !.error = error])

\* Abort_Document, then Rollback_Candidate: after an error, or in the handler.
End(r, outcome) ==
  /\ from' = Aborted(r.error)
  /\ builder' = Rollback_Candidate(builder)
  /\ Settled(outcome)

FailCall(r) == End(r, FALSE)
FailWith(code) == FailCall(Fail(from, code))
RaiseCall == End(from, TRUE)

\* The application's procedure latches an error, or raises.
Application_Fails == FailCall(LatchCode(from, "Application_Error")) \/ RaiseCall

\* On to the next call, with what the application's procedure left in the candidate.
Continue(next, candidate) ==
  /\ pc' = next
  /\ builder' = [builder EXCEPT !.candidate = candidate]
  /\ UNCHANGED <<setup, raised>>

-----------------------------------------------------------------------------
(* The calls on the reader. *)

\* A slip: the first value is replaced although it is to be kept.
ReplaceDuplicate ==
  IF setup.policy.duplicates = "Reject_Duplicate" THEN "Duplicate_Field" ELSE "decode"

OfDuplicate ==
  CASE setup.policy.duplicates = "Reject_Duplicate" -> "Duplicate_Field"
    [] setup.policy.duplicates = "Keep_First" -> "skip"
    [] setup.policy.duplicates = "Keep_Last" -> "decode"

\* What becomes of the field `name`: an unknown one, one seen before, or a new one.
Treatment ==
  LET m == Matches(name)
  IN  CASE Cardinality(m) > 1 -> "Application_Error"
        [] m = {} -> IF setup.policy.unknown = "Reject_Unknown" THEN "Unknown_Field" ELSE "skip"
        [] Cardinality(m) = 1 /\ m \subseteq seen -> OfDuplicate
        [] OTHER -> "decode"

\* A call on the reader left it as t: the call waits until the source shows another token,
\* or returns with an error, or without one; what it consumed goes into the history.
Starves(t) ==
  /\ t.error = Starved
  /\ \E token \in Shown : from' = [from EXCEPT !.ahead = Append(@, token)]
  /\ UNCHANGED <<builder, setup, pc, name, seen, raised, history>>

Rejects(t) == t.error # Starved /\ Latched(t) /\ FailCall(t)

Answers(t) ==
  /\ ~Latched(t)
  /\ from' = t
  /\ history' = history \o SubSeq(from.ahead, 1, Len(from.ahead) - Len(t.ahead))

-----------------------------------------------------------------------------
(* Deserialize, call by call. *)

\* Begin_Candidate; the record description is then checked before the first event.
Begin ==
  /\ pc = "idle" /\ ~Latched(from)
  /\ \/ Application_Fails
     \/ /\ Continue("prepare", [f \in Fields |-> "unset"])
        /\ UNCHANGED <<from, name, seen, history>>

\* Every declared name belongs to one field, once, and matches it only.
WellDescribed ==
  /\ \A f \in Fields : \A n \in Declared(f) : Matches(n) = {f}
  /\ \A f \in Fields : Cardinality(Declared(f)) = Len(setup.record.declared[f])

Prepare_Metadata ==
  /\ pc = "prepare"
  /\ \/ /\ ~WellDescribed
        /\ FailWith("Application_Error")
     \/ /\ WellDescribed
        /\ Continue("begin", builder.candidate)
        /\ UNCHANGED <<from, name, seen, history>>

Open_Record ==
  /\ pc = "begin"
  /\ \E t \in {Begin_Record(from)} :
       \/ Starves(t) \/ Rejects(t)
       \/ Answers(t) /\ Continue("loop", builder.candidate) /\ UNCHANGED <<name, seen>>

\* The name of a field that is there is the last token it consumed.
Ask_Field ==
  /\ pc = "loop"
  /\ \E t \in {Next_Field(from, TRUE)} :
       \/ Starves(t) \/ Rejects(t)
       \/ /\ Answers(t) /\ Top(t).child = "ready"
          /\ Continue("field", builder.candidate)
          /\ name' = Head(from.ahead).name /\ UNCHANGED seen
       \/ /\ Answers(t) /\ Top(t).child # "ready"
          /\ Continue("close", builder.candidate)
          /\ name' = NoName /\ UNCHANGED seen

Reject_Field ==
  /\ pc = "field"
  /\ Treatment \notin {"skip", "decode"}
  /\ FailWith(Treatment)

\* A slip: the field is not marked as seen.
MarkNothing(f) == seen

Mark(f) == seen \cup {f}

\* Deserialize_Field reads its value into the candidate.
Store(candidate, f, token) == [candidate EXCEPT ![f] = token.head]

Decode_Field ==
  /\ pc = "field" /\ Treatment = "decode"
  /\ \E t \in {Read_Unsigned(from)} :
       \/ Starves(t) \/ Rejects(t)
       \/ /\ Answers(t)
          /\ \E f \in Matches(name) :
               /\ Continue("loop", Store(builder.candidate, f, Head(from.ahead)))
               /\ seen' = Mark(f)
          /\ UNCHANGED name

\* It may refuse before or after it read, or succeed without having read anything.
Misread_Field ==
  /\ pc = "field" /\ Treatment = "decode"
  /\ \/ Application_Fails
     \/ /\ Continue("loop", builder.candidate)
        /\ \E f \in Matches(name) : seen' = Mark(f)
        /\ UNCHANGED <<from, name, history>>

Skip_Call(t) ==
  \/ Starves(t) \/ Rejects(t)
  \/ /\ Answers(t)
     /\ Continue(IF t.raw = <<>> THEN "loop" ELSE "skipping", builder.candidate)
     /\ UNCHANGED <<name, seen>>

Skip_Field ==
  \/ /\ pc = "field" /\ Treatment = "skip"
     /\ \E t \in {Skip_Value(from)} : Skip_Call(t)
  \/ /\ pc = "skipping"
     /\ \E t \in {Skip_Step(from)} : Skip_Call(t)

Close_Record ==
  /\ pc = "close"
  /\ \E t \in {End_Record(from)} :
       \/ Starves(t) \/ Rejects(t)
       \/ Answers(t) /\ Continue("missing", builder.candidate) /\ UNCHANGED <<name, seen>>

\* The fields that were not seen, in order: a default is applied, or the field is missing.
Apply_Missing ==
  /\ pc = "missing"
  /\ \E f \in Fields \ seen :
       /\ \A g \in Fields \ seen : f <= g
       /\ \/ Application_Fails
          \/ FailWith("Missing_Field")
          \/ /\ Continue("missing", [builder.candidate EXCEPT ![f] = "default"])
             /\ seen' = Mark(f)
             /\ UNCHANGED <<from, name, history>>

Finish_Candidate ==
  /\ pc = "missing" /\ seen = Fields
  /\ \/ Application_Fails
     \/ /\ Continue("finish", builder.candidate)
        /\ UNCHANGED <<from, name, seen, history>>

Prove_Whole ==
  /\ pc = "finish"
  /\ \E t \in {Finish_Document(from)} :
       \/ Starves(t) \/ Rejects(t)
       \/ Answers(t) /\ Continue("commit", builder.candidate) /\ UNCHANGED <<name, seen>>

Commit_Candidate ==
  /\ pc = "commit"
  /\ \/ Application_Fails
     \/ /\ builder' = [candidate |-> NoCandidate, published |-> builder.candidate]
        /\ UNCHANGED from
        /\ Settled(FALSE)

-----------------------------------------------------------------------------
(* The client, between calls. *)

Client(r) ==
  /\ pc = "idle"
  /\ from' = r /\ raised' = FALSE
  /\ UNCHANGED <<builder, setup, pc, name, seen, history>>

Drive ==
  \/ Client(Aborted(from.error))
  \/ /\ builder.published = NoCandidate   \* bound: the first document published is the last
     /\ Client([Fresh EXCEPT !.error = from.error])
  \/ \E c \in {NoError, "Application_Error"} : Client([from EXCEPT !.error = c])

Deserialize ==
  \/ Begin \/ Prepare_Metadata \/ Open_Record \/ Ask_Field \/ Reject_Field \/ Decode_Field
  \/ Misread_Field \/ Skip_Field \/ Close_Record \/ Apply_Missing \/ Finish_Candidate
  \/ Prove_Whole \/ Commit_Candidate

RootNext == Drive \/ Deserialize

RootSpec == RootInit /\ [][RootNext]_rootVars

-----------------------------------------------------------------------------
(* Reference: the entries of a record, read off the tokens. *)

\* What the reference decoder of CborGrammar knows after the first i tokens.
Decoding ==
  LET d[i \in 0..Len(history)] ==
        IF i = 0
        THEN Grammar!Start
        ELSE Grammar!ReadToken(d[i - 1], Structure(history[i]))
  IN  d

\* The tokens that are keys: only the root is open, and it holds whole pairs.
Keys ==
  {i \in 1..Len(history) :
     LET before == Decoding[i - 1] IN
     /\ i > 1 /\ history[i].head = "text"
     /\ Grammar!Incomplete(before) = {1}
     /\ IF before.open[1].indefinite THEN ~before.open[1].odd ELSE before.open[1].left % 2 = 0}

KeysOf(f) == {i \in Keys : f \in Matches(history[i].name)}
Unknown == {i \in Keys : Matches(history[i].name) = {}}

\* The value the policy selects among those a field was given.
Selected(f) ==
  LET i == IF setup.policy.duplicates = "Keep_Last"
           THEN CHOOSE k \in KeysOf(f) : \A j \in KeysOf(f) : j <= k
           ELSE CHOOSE k \in KeysOf(f) : \A j \in KeysOf(f) : k <= j
  IN  IF KeysOf(f) = {} THEN "default" ELSE history[i + 1].head

-----------------------------------------------------------------------------
(* Properties. *)

\* Decoding can publish only what a reader of the whole document, the policy in hand, would
\* have: every field its value or its default, with no rule of the policy broken.  No
\* candidate outlives its call, however the call ended.
PublishedIsDecoded ==
  /\ pc = "idle" => builder.candidate = NoCandidate
  /\ pc = "commit" =>
       /\ Grammar!Whole(Decoding[Len(history)])
       /\ builder.candidate = [f \in Fields |-> Selected(f)]
       /\ setup.policy.duplicates = "Reject_Duplicate" => \A f \in Fields : Cardinality(KeysOf(f)) <= 1
       /\ setup.policy.unknown = "Reject_Unknown" => Unknown = {}

\* A field is called unknown, a duplicate or missing only if the tokens say so.
RejectionIsJustified ==
  [][pc # "idle" /\ pc' = "idle" =>
       /\ from'.error = "Unknown_Field" => Unknown # {}
       /\ from'.error = "Duplicate_Field" => \E f \in Fields : Cardinality(KeysOf(f)) > 1
       /\ from'.error = "Missing_Field" => \E f \in Fields : KeysOf(f) = {}]_rootVars

\* Seen between calls, Deserialize is one step of the transaction.
Status(r) == IF r.failed THEN "poisoned" ELSE IF r.complete THEN "complete" ELSE "open"

Transaction == INSTANCE DecodeTransaction
  WITH source <- IF pc \in {"idle", "prepare", "begin"} THEN Status(from) ELSE "open",
       error <- IF pc = "idle" THEN from.error ELSE NoError,
       published <- builder.published

DeserializeIsTransactional == Transaction!Spec
=============================================================================
