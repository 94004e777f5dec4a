----------------------------- MODULE Generation -----------------------------
(***************************************************************************)
(* A run of the fixture generator from its first read to its publication:  *)
(* main of tools/generator/generate.py, then load_overlay, load_type_ir,   *)
(* load_checker and main of generator_impl.py, and the identity checks of  *)
(* verify_manifest.py on what it published.  Seven files are read, each by *)
(* a step of its own, and any of them may be edited between two steps.     *)
(*                                                                         *)
(* The bytes of a file are one value and so is their digest.  Publication  *)
(* is the one step that AtomicPublication promises and Publication takes   *)
(* many steps to keep.                                                     *)
(***************************************************************************)
EXTENDS Naturals

CONSTANTS
  Generators, Nobody,
  Implementations,   \* the bytes generator_impl.py may have
  Documents,         \* the Type IR documents
  Reviewed,          \* the one whose digest the fixture profile names
  Meaning,           \* the semantic fingerprint of a document
  Admitted,          \* the documents the vendored checker accepts, by profile
  Overlays,          \* the overlays
  Pinned, Altered,   \* a pinned file as reviewed, and any other
  Unread,
  MaxEdits           \* bound on the edits explored

ASSUME NobodyAssumption == Nobody \notin Generators

ASSUME ReviewedAssumption == Reviewed \in Documents

\* wellFormed stands for the canonical form, the closed keys, the versions,
\* the limits and the names load_overlay asks for.
ASSUME OverlaysAssumption ==
  \A o \in Overlays :
    /\ o.wellFormed \in BOOLEAN /\ o.fixtureOnly \in BOOLEAN
    /\ o.source \in Documents
    /\ o.meaning \in {Meaning[d] : d \in Documents}

Implementation == "generator_impl.py"
Overlay == "overlay"
TypeIr == "type_ir"
PinnedFiles == {"checker", "schema", "project", "unit"}
Files == {Implementation, Overlay, TypeIr} \cup PinnedFiles

\* A pinned file is the one whose digest is a constant of the source, or not.
Contents == [f \in Files |->
  IF f = Implementation THEN Implementations
  ELSE IF f = Overlay THEN Overlays
  ELSE IF f = TypeIr THEN Documents ELSE {Pinned, Altered}]

VARIABLES
  disk,          \* what each file holds
  fixture,       \* whether a generator was given --test-fixture-shape
  pc,            \* where it is
  held,          \* the bytes it read of each file
  used,          \* the bytes it executed, parsed or checked
  attestation,   \* what the manifest it writes will say
  published,     \* whose generation the output directory holds
  outcome,       \* how each generator ended
  verifier,      \* the verifier: what it will do, or its verdict
  compared,      \* the implementation it compared a manifest with
  edits

own == <<pc, held, used, attestation>>
output == <<published, outcome>>
verification == <<verifier, compared>>
vars == <<disk, fixture, own, output, verification, edits>>

Promise == INSTANCE AtomicPublication

Nothing == [f \in Files |-> Unread]

\* The pinned files are as reviewed when a generator starts, unless edited.
Init ==
  /\ \E i \in Implementations, o \in Overlays, d \in Documents :
       disk = [f \in Files |->
         IF f = Implementation THEN i
         ELSE IF f = Overlay THEN o ELSE IF f = TypeIr THEN d ELSE Pinned]
  /\ fixture \in [Generators -> BOOLEAN]
  /\ pc = [g \in Generators |-> Implementation]
  /\ held = [g \in Generators |-> Nothing]
  /\ used = [g \in Generators |-> Nothing]
  /\ attestation = [g \in Generators |-> Unread]
  /\ published = Nobody
  /\ outcome = [g \in Generators |-> "none"]
  /\ verifier = "idle" /\ compared = Unread
  /\ edits = 0

-----------------------------------------------------------------------------
(* The generator. *)

Goto(g, place) == pc' = [pc EXCEPT ![g] = place]

\* Someone else changes a file, between any two steps of everybody.
Edit(f) ==
  /\ edits < MaxEdits
  /\ \E c \in Contents[f] \ {disk[f]} : disk' = [disk EXCEPT ![f] = c]
  /\ edits' = edits + 1
  /\ UNCHANGED <<fixture, own, output, verification>>

\* One read of one file.
Read(g, f, next) ==
  /\ pc[g] = f
  /\ held' = [held EXCEPT ![g][f] = disk[f]]
  /\ Goto(g, next)
  /\ UNCHANGED <<disk, fixture, used, attestation, output, verification, edits>>

\* Every other step works on what was read.
Work(g, place, next) ==
  /\ pc[g] = place
  /\ Goto(g, next)
  /\ UNCHANGED <<disk, fixture, held, output, verification, edits>>

\* A slip: the implementation is imported from its own path.
ExecuteInPlace(g) ==
  /\ Work(g, "execute", Overlay)
  /\ used' = [used EXCEPT ![g][Implementation] = disk[Implementation]]
  /\ UNCHANGED attestation

\* The bytes that were hashed are written to a directory of their own and
\* executed from there.
Execute(g) ==
  /\ Work(g, "execute", Overlay)
  /\ used' = [used EXCEPT ![g][Implementation] = held[g][Implementation]]
  /\ UNCHANGED attestation

\* load_overlay, and the mode both sides must name.
ParseOverlay(g) ==
  /\ Work(g, "parse", TypeIr)
  /\ held[g][Overlay].wellFormed
  /\ held[g][Overlay].fixtureOnly = fixture[g]
  /\ used' = [used EXCEPT ![g][Overlay] = held[g][Overlay]]
  /\ UNCHANGED attestation

\* load_checker: four digests, then the four files are written to a directory of
\* their own, where the checker finds them.
CheckPins(g) ==
  /\ Work(g, "pins", "check")
  /\ \A f \in PinnedFiles : held[g][f] = Pinned
  /\ used' = [used EXCEPT ![g] =
       [f \in Files |-> IF f \in PinnedFiles THEN held[g][f] ELSE @[f]]]
  /\ UNCHANGED attestation

Profile(g) == IF fixture[g] THEN "fixture_shape" ELSE "strict"

\* load_checked on the copy of the document.
LoadChecked(g) ==
  /\ Work(g, "check", "bind")
  /\ held[g][TypeIr] \in Admitted[Profile(g)]
  /\ used' = [used EXCEPT ![g][TypeIr] = held[g][TypeIr]]
  /\ UNCHANGED attestation

\* What the headers and the manifest say.
Attest(g) ==
  [fixtureOnly |-> fixture[g],
   generator   |-> held[g][Implementation],
   overlay     |-> held[g][Overlay],
   source      |-> used[g][TypeIr],
   meaning     |-> Meaning[used[g][TypeIr]],
   unit        |-> IF fixture[g] THEN Pinned ELSE Unread]

\* A slip: the fingerprint binds the overlay, the digest of the source does not.
BindByMeaning(g) ==
  /\ Work(g, "bind", "publish")
  /\ Meaning[used[g][TypeIr]] = used[g][Overlay].meaning
  /\ fixture[g]
  /\ attestation' = [attestation EXCEPT ![g] = Attest(g)]
  /\ UNCHANGED used

\* The overlay is bound to the document, the fixture profile to the reviewed
\* one, and lower refuses whatever is not of the fixture profile.
Bind(g) ==
  /\ Work(g, "bind", "publish")
  /\ Meaning[used[g][TypeIr]] = used[g][Overlay].meaning
  /\ used[g][TypeIr] = used[g][Overlay].source
  /\ fixture[g] => used[g][TypeIr] = Reviewed
  /\ fixture[g]
  /\ attestation' = [attestation EXCEPT ![g] = Attest(g)]
  /\ UNCHANGED used

\* publish, whose failures are those of any other step.
Publish(g) ==
  /\ pc[g] = "publish"
  /\ Promise!Publish(g)
  /\ Goto(g, "report")
  /\ UNCHANGED <<disk, fixture, held, used, attestation, verification, edits>>

Report(g) ==
  /\ pc[g] = "report"
  /\ Promise!End(g, "ok")
  /\ Goto(g, "done")
  /\ UNCHANGED <<disk, fixture, held, used, attestation, verification, edits>>

\* A guard above is not met, or a call raises: the exception is reported and
\* the process returns 1.  What is published stays.
Fail(g) ==
  /\ pc[g] # "done"
  /\ Promise!End(g, "error")
  /\ Goto(g, "done")
  /\ UNCHANGED <<disk, fixture, held, used, attestation, verification, edits>>

Generate(g) ==
  \/ Read(g, Implementation, "execute")
  \/ Execute(g)
  \/ Read(g, Overlay, "parse")
  \/ ParseOverlay(g)
  \/ Read(g, TypeIr, "checker")
  \/ Read(g, "checker", "schema")
  \/ Read(g, "schema", "project")
  \/ Read(g, "project", "unit")
  \/ Read(g, "unit", "pins")
  \/ CheckPins(g)
  \/ LoadChecked(g)
  \/ Bind(g)
  \/ Publish(g)
  \/ Report(g)

-----------------------------------------------------------------------------
(* The verifier, whose reads of the output are those of PublicationReaders. *)

Verifying(next) ==
  /\ verifier' = next
  /\ UNCHANGED <<disk, fixture, own, output, edits>>

ReadManifest ==
  /\ verifier = "idle" /\ published # Nobody
  /\ Verifying("identity") /\ UNCHANGED compared

\* A slip: the generator's digest need only look like one.
CompareGeneratorForm ==
  /\ verifier = "identity"
  /\ compared' = disk[Implementation]
  /\ Verifying("fixture")

\* The implementation is read next to the verifier, whatever it is by now.
CompareGenerator ==
  /\ verifier = "identity"
  /\ compared' = disk[Implementation]
  /\ Verifying(IF attestation[published].generator = disk[Implementation]
                 THEN "fixture" ELSE "rejected")

\* With --require-fixture.
CompareFixture ==
  /\ verifier = "fixture"
  /\ LET manifest == attestation[published] IN
       Verifying(IF manifest.fixtureOnly /\ manifest.source = Reviewed
                      /\ manifest.meaning = Meaning[Reviewed] /\ manifest.unit = Pinned
                   THEN "accepted" ELSE "rejected")
  /\ UNCHANGED compared

Exit ==
  /\ verifier \in {"accepted", "rejected"}
  /\ verifier' = "idle" /\ compared' = Unread
  /\ UNCHANGED <<disk, fixture, own, output, edits>>

Next ==
  \/ \E f \in Files : Edit(f)
  \/ \E g \in Generators : Generate(g) \/ Fail(g)
  \/ ReadManifest \/ CompareGenerator \/ CompareFixture \/ Exit

Spec == Init /\ [][Next]_vars

-----------------------------------------------------------------------------
Places ==
  Files \cup {"execute", "parse", "pins", "check", "bind", "publish", "report", "done"}

Bytes == (UNION {Contents[f] : f \in Files}) \cup {Unread}

TypeOK ==
  /\ \A f \in Files : disk[f] \in Contents[f]
  /\ fixture \in [Generators -> BOOLEAN]
  /\ pc \in [Generators -> Places]
  /\ held \in [Generators -> [Files -> Bytes]]
  /\ used \in [Generators -> [Files -> Bytes]]
  /\ published \in Generators \cup {Nobody}

\* A published manifest names the bytes the generation really was made with:
\* those of the generator that ran, of the overlay that was parsed, of the
\* document that was checked and of the four files it was checked by, whatever
\* was edited while the generator ran.
AttestedIsUsed ==
  published # Nobody =>
    LET manifest == attestation[published] IN
      /\ used[published][Implementation] = manifest.generator
      /\ used[published][Overlay] = manifest.overlay
      /\ used[published][TypeIr] = manifest.source
      /\ \A f \in PinnedFiles : used[published][f] = Pinned

\* Nothing is published but the reviewed fixture, under an overlay that was
\* written for those very bytes: not by an edit between the reads of the two,
\* and never in the strict profile.
PublishedIsReviewed ==
  published # Nobody =>
    /\ fixture[published]
    /\ used[published][Overlay].fixtureOnly
    /\ used[published][Overlay].source = used[published][TypeIr]
    /\ used[published][TypeIr] = Reviewed

\* What the verifier accepts was made by the implementation it looked at, not
\* by one that was on the disk before or after.
AcceptedIsCurrent ==
  verifier = "accepted" => used[published][Implementation] = compared
=============================================================================
