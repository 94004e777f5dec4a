------------------------------ MODULE CborClient ------------------------------
(***************************************************************************)
(* A client of the CBOR reader that makes any call at any time, right or   *)
(* wrong, of a source that shows one token after another.                  *)
(***************************************************************************)
EXTENDS CborReader

VARIABLES
  reader,   \* the Reader, its budget, and the caller's Error_Info
  call      \* the call waiting for the source, or NoCall

vars == <<reader, call>>

Init ==
  /\ reader = Fresh
  /\ call = NoCall

\* The handler runs, or has to wait for the source.
Run(r, c) ==
  \E t \in {Event(r, c)} :
    \/ /\ t.error = Starved
       /\ reader' = r /\ call' = c
    \/ /\ t.error # Starved
       /\ reader' = [t EXCEPT !.raw = IF Latched(t) THEN <<>> ELSE @]
       /\ call' = NoCall

Start ==
  /\ call = NoCall /\ reader.raw = <<>>
  /\ \E c \in Calls : Run(reader, c)

Skip == call = NoCall /\ reader.raw # <<>> /\ Run(reader, [op |-> "Skip_Step"])

\* The source shows its next token to the call that waits for it.
Supply ==
  /\ call # NoCall
  /\ \E token \in Tokens : Run([reader EXCEPT !.ahead = Append(@, token)], call)

Between(r) == call = NoCall /\ reader.raw = <<>> /\ reader' = r /\ UNCHANGED call

Abort == Between(Abort_Document(reader))

\* Reset is Initialize: the same source is read again, or another one.
Reset == Between([Fresh EXCEPT !.error = reader.error])

\* The client latches an error of its own, or takes a clear Error_Info.
SetError(c) == Between([reader EXCEPT !.error = c])

Next ==
  \/ Start
  \/ Skip
  \/ Supply
  \/ Abort
  \/ Reset
  \/ \E c \in {NoError, "Application_Error"} : SetError(c)

Spec == Init /\ [][Next]_vars

-----------------------------------------------------------------------------
(* Properties. *)

WithinLimits ==
  /\ reader.values <= DecodeLimits.values
  /\ reader.input <= DecodeLimits.input
  /\ Len(reader.scopes) + Len(reader.raw) <= DecodeLimits.nesting + 1
  /\ \A i \in DOMAIN reader.scopes : reader.scopes[i] <= DecodeLimits.items

\* Until it fails, the budget has one scope per container of the reader, charged with the
\* children announced in it; once it failed, by itself or by Abort_Document, none is left.
\* Whatever calls led there, raw skips included, no charge went past the decode limits.
BudgetTracksStack ==
  /\ WithinLimits
  /\ IF reader.failed
     THEN reader.scopes = <<>>
     ELSE /\ Len(reader.scopes) = Len(reader.stack)
          /\ \A i \in DOMAIN reader.stack :
               LET f == reader.stack[i]
               IN  reader.scopes[i] = IF f.kind = "optional" THEN f.declared ELSE f.observed

\* Whatever calls led there, what an unfailed reader consumed is the beginning of one
\* well-formed CBOR item, and its root is complete only when that item is.
ConsumedIsWellFormed ==
  ~reader.failed =>
    /\ ~reader.read.bad
    /\ reader.root = "complete" => Grammar!Whole(reader.read)

\* A document is complete only when exactly one item was consumed, up to the end.
CompleteIsWhole ==
  reader.complete /\ ~reader.failed =>
    Grammar!Whole(reader.read) /\ reader.ahead = <<EndToken>>

Malformed(r) ==
  \/ r.read.bad
  \/ Next_Token(r).head = "reserved"
  \/ Next_Token(r).head = "end" /\ ~Grammar!Whole(r.read)
  \/ Grammar!ReadToken(r.read, Structure(Next_Token(r))).bad

\* A Syntax_Error is never the fault of the calls: the source ended too early or went on too
\* long, or its next token cannot follow what was consumed.
SyntaxErrorIsReal ==
  [][reader.error # "Syntax_Error" /\ reader'.error = "Syntax_Error" => Malformed(reader')]_vars
=============================================================================
