-------------------------- MODULE GenerationProofs --------------------------
(***************************************************************************)
(* What a manifest attests, for any number of generators, documents and    *)
(* edits.  The invariant follows the bytes of one run: after each step     *)
(* that uses a file, what was used is what was read, and it is never read  *)
(* again.                                                                  *)
(***************************************************************************)
EXTENDS Generation, TLAPS

AfterExecute ==
  {Overlay, "parse", TypeIr, "checker", "schema", "project", "unit", "pins", "check",
   "bind", "publish", "report"}
AfterParse ==
  {TypeIr, "checker", "schema", "project", "unit", "pins", "check", "bind", "publish",
   "report"}

Shape ==
  /\ pc \in [Generators -> Places]
  /\ held \in [Generators -> [Files -> Bytes]]
  /\ used \in [Generators -> [Files -> Bytes]]
  /\ attestation = [g \in Generators |-> attestation[g]]   \* a function on the generators
  /\ fixture \in [Generators -> BOOLEAN]
  /\ published \in Generators \cup {Nobody}

Executed(g) == used[g][Implementation] = held[g][Implementation]

Parsed(g) ==
  /\ used[g][Overlay] = held[g][Overlay]
  /\ used[g][Overlay].fixtureOnly = fixture[g]

Checked(g) == \A f \in PinnedFiles : used[g][f] = Pinned

\* What main has established when it calls publish.
Ready(g) ==
  /\ Executed(g) /\ Parsed(g) /\ Checked(g)
  /\ fixture[g]
  /\ used[g][TypeIr] = used[g][Overlay].source /\ used[g][TypeIr] = Reviewed
  /\ attestation[g] = Attest(g)

Follows(g) ==
  /\ pc[g] \in AfterExecute => Executed(g)
  /\ pc[g] \in AfterParse => Parsed(g)
  /\ pc[g] \in {"check", "bind", "publish", "report"} => Checked(g)
  /\ pc[g] \in {"publish", "report"} => Ready(g)
  /\ published = g => pc[g] \in {"report", "done"} /\ Ready(g)

DiskOK == \A f \in Files : disk[f] \in Contents[f]

IInv == Shape /\ \A g \in Generators : Follows(g)

-----------------------------------------------------------------------------
\* Generators start with nothing read, used or published, so nothing has to
\* follow yet.
LEMMA InitFollows == Init => IInv
<1> SUFFICES ASSUME Init PROVE IInv
  OBVIOUS
<1>1. Shape
  <2>1. Unread \in Bytes
    BY DEF Bytes
  <2>. QED
    BY <2>1 DEF Init, Shape, Places, Nothing, Files
<1>2. ASSUME NEW g \in Generators PROVE Follows(g)
  <2>1. pc[g] = Implementation /\ published # g
    BY NobodyAssumption DEF Init
  <2>. QED
    BY <2>1 DEF Follows, AfterExecute, AfterParse, Implementation, Overlay, TypeIr
<1>. QED
  BY <1>1, <1>2 DEF IInv

\* A step of one generator touches nothing that the others read or used.
LEMMA OthersFollow ==
  ASSUME NEW h \in Generators, Follows(h),
         pc'[h] = pc[h], held'[h] = held[h], used'[h] = used[h],
         attestation'[h] = attestation[h], fixture'[h] = fixture[h],
         published' = h => published = h
  PROVE  Follows(h)'
<1>1. Executed(h)' = Executed(h) /\ Parsed(h)' = Parsed(h) /\ Checked(h)' = Checked(h)
  BY DEF Executed, Parsed, Checked
<1>2. Attest(h)' = Attest(h)
  BY DEF Attest
<1>3. Ready(h)' = Ready(h)
  BY <1>1, <1>2 DEF Ready
<1>. QED
  BY <1>1, <1>3 DEF Follows

\* A step of a generator, its failure included, keeps what it used and attests
\* in line with what it read, as long as the disk holds files of each kind.
LEMMA GenerateFollows ==
  ASSUME IInv, NEW g \in Generators, Generate(g) \/ Fail(g),
         \A f \in Files : disk[f] \in Contents[f]
  PROVE  IInv'
<1> USE NobodyAssumption DEF IInv, Shape, Goto
<1>a. \A f \in Files : disk[f] \in Bytes
  BY DEF Bytes
<1> DEFINE Frame ==
      \A h \in Generators \ {g} :
        /\ pc'[h] = pc[h] /\ held'[h] = held[h] /\ used'[h] = used[h]
        /\ attestation'[h] = attestation[h]
        /\ fixture'[h] = fixture[h] /\ (published' = h => published = h)
<1>0. ASSUME Shape', Frame, Follows(g)' PROVE IInv'
  <2>1. ASSUME NEW h \in Generators PROVE Follows(h)'
    BY <1>0, OthersFollow
  <2>. QED
    BY <1>0, <2>1
<1>1. CASE Read(g, Implementation, "execute")
  <2>1. Shape' /\ Frame
    BY <1>1, <1>a DEF Read, output, Places, Files, PinnedFiles, Implementation, Overlay,
      TypeIr
  <2>2. Follows(g)'
    BY <1>1 DEF Read, output, Follows, Executed, Parsed, Checked, AfterExecute,
      AfterParse, Files, PinnedFiles, Implementation, Overlay, TypeIr
  <2>. QED
    BY <2>1, <2>2, <1>0
<1>2. CASE Execute(g)
  <2>1. Shape' /\ Frame
    BY <1>2, <1>a DEF Work, Execute, output, Places, Files, PinnedFiles, Implementation,
      Overlay, TypeIr
  <2>2. Follows(g)'
    BY <1>2 DEF Work, Execute, output, Follows, Executed, Parsed, Checked, AfterExecute,
      AfterParse, Files, PinnedFiles, Implementation, Overlay, TypeIr
  <2>. QED
    BY <2>1, <2>2, <1>0
<1>3. CASE Read(g, Overlay, "parse")
  <2>1. Shape' /\ Frame
    BY <1>3, <1>a DEF Read, output, Places, Files, PinnedFiles, Implementation, Overlay,
      TypeIr
  <2>2. Follows(g)'
    BY <1>3 DEF Read, output, Follows, Executed, Parsed, Checked, AfterExecute,
      AfterParse, Files, PinnedFiles, Implementation, Overlay, TypeIr
  <2>. QED
    BY <2>1, <2>2, <1>0
<1>4. CASE ParseOverlay(g)
  <2>1. Shape' /\ Frame
    BY <1>4, <1>a DEF Work, ParseOverlay, output, Places, Files, PinnedFiles,
      Implementation, Overlay, TypeIr
  <2>2. Follows(g)'
    BY <1>4 DEF Work, ParseOverlay, output, Follows, Executed, Parsed, Checked,
      AfterExecute,
      AfterParse, Files, PinnedFiles, Implementation, Overlay, TypeIr
  <2>. QED
    BY <2>1, <2>2, <1>0
<1>5. CASE Read(g, TypeIr, "checker")
  <2>1. Shape' /\ Frame
    BY <1>5, <1>a DEF Read, output, Places, Files, PinnedFiles, Implementation, Overlay,
      TypeIr
  <2>2. Follows(g)'
    BY <1>5 DEF Read, output, Follows, Executed, Parsed, Checked, AfterExecute,
      AfterParse, Files, PinnedFiles, Implementation, Overlay, TypeIr
  <2>. QED
    BY <2>1, <2>2, <1>0
<1>6. CASE \E f \in PinnedFiles, next \in {"schema", "project", "unit", "pins"} :
             Read(g, f, next)
  <2>1. Shape' /\ Frame
    BY <1>6, <1>a DEF Read, output, Places, Files, PinnedFiles, Implementation, Overlay,
      TypeIr
  <2>2. Follows(g)'
    BY <1>6 DEF Read, output, Follows, Executed, Parsed, Checked, AfterExecute,
      AfterParse, Files, PinnedFiles, Implementation, Overlay, TypeIr
  <2>. QED
    BY <2>1, <2>2, <1>0
<1>7. CASE CheckPins(g)
  <2>1. Shape' /\ Frame
    BY <1>7, <1>a DEF Work, CheckPins, output, Places, Files, PinnedFiles, Implementation,
      Overlay, TypeIr
  <2>2. Follows(g)'
    BY <1>7 DEF Work, CheckPins, output, Follows, Executed, Parsed, Checked, AfterExecute,
      AfterParse, Files, PinnedFiles, Implementation, Overlay, TypeIr
  <2>. QED
    BY <2>1, <2>2, <1>0
<1>8. CASE LoadChecked(g)
  <2>1. Shape' /\ Frame
    BY <1>8, <1>a DEF Work, LoadChecked, output, Places, Files, PinnedFiles,
      Implementation, Overlay, TypeIr
  <2>2. Follows(g)'
    BY <1>8 DEF Work, LoadChecked, output, Follows, Executed, Parsed, Checked, AfterExecute,
      AfterParse, Files, PinnedFiles, Implementation, Overlay, TypeIr
  <2>. QED
    BY <2>1, <2>2, <1>0
<1>9. CASE Bind(g)
  <2>1. Shape' /\ Frame
    BY <1>9, <1>a DEF Work, Bind, output, Places, Files, PinnedFiles, Implementation,
      Overlay, TypeIr
  <2>2. Follows(g)'
    BY <1>9 DEF Work, Bind, output, Follows, Executed, Parsed, Checked, Ready, Attest,
      AfterExecute,
      AfterParse, Files, PinnedFiles, Implementation, Overlay, TypeIr
  <2>. QED
    BY <2>1, <2>2, <1>0
<1>10. CASE Publish(g)
  <2>1. Shape' /\ Frame
    BY <1>10, <1>a DEF Publish, Promise!Publish, Places, Files, PinnedFiles,
      Implementation, Overlay, TypeIr
  <2>2. Follows(g)'
    BY <1>10 DEF Publish, Promise!Publish, Follows, Executed, Parsed, Checked, Ready,
      Attest, AfterExecute,
      AfterParse, Files, PinnedFiles, Implementation, Overlay, TypeIr
  <2>. QED
    BY <2>1, <2>2, <1>0
<1>11. CASE Report(g)
  <2>1. Shape' /\ Frame
    BY <1>11, <1>a DEF Report, Promise!End, own, Places, Files, PinnedFiles,
      Implementation, Overlay, TypeIr
  <2>2. Follows(g)'
    BY <1>11 DEF Report, Promise!End, own, Follows, Executed, Parsed, Checked, Ready,
      Attest, AfterExecute,
      AfterParse, Files, PinnedFiles, Implementation, Overlay, TypeIr
  <2>. QED
    BY <2>1, <2>2, <1>0
<1>12. CASE Fail(g)
  <2>1. Shape' /\ Frame
    BY <1>12, <1>a DEF Fail, Promise!End, own, Places, Files, PinnedFiles, Implementation,
      Overlay, TypeIr
  <2>2. Follows(g)'
    BY <1>12 DEF Fail, Promise!End, own, Follows, Executed, Parsed, Checked, Ready,
      Attest, AfterExecute,
      AfterParse, Files, PinnedFiles, Implementation, Overlay, TypeIr
  <2>. QED
    BY <2>1, <2>2, <1>0
<1>. QED
  BY <1>1, <1>2, <1>3, <1>4, <1>5, <1>6, <1>7, <1>8, <1>9, <1>10, <1>11, <1>12 DEF
    Generate, PinnedFiles

\* Generators, edits of the files and the verifier all keep the invariant.
LEMMA StepFollows ==
  ASSUME IInv, DiskOK, [Next]_vars
  PROVE  IInv' /\ DiskOK'
<1>1. CASE \E g \in Generators : Generate(g) \/ Fail(g)
  <2>1. IInv'
    BY <1>1, GenerateFollows DEF DiskOK
  <2>2. disk' = disk
    BY <1>1 DEF Generate, Read, Work, Execute, ParseOverlay, CheckPins, LoadChecked, Bind,
      Publish, Report, Fail
  <2>. QED
    BY <2>1, <2>2 DEF DiskOK
<1>2. CASE (\E f \in Files : Edit(f)) \/ ReadManifest \/ CompareGenerator \/ CompareFixture
           \/ Exit \/ UNCHANGED vars
  <2>1. UNCHANGED <<fixture, own, output>>
    BY <1>2 DEF Edit, ReadManifest, CompareGenerator, CompareFixture, Exit, Verifying, vars
  <2>2. IInv'
    <3>1. Shape'
      BY <2>1 DEF own, output, IInv, Shape
    <3>2. ASSUME NEW g \in Generators PROVE Follows(g)'
      BY <2>1, OthersFollow DEF own, output, IInv
    <3>. QED
      BY <3>1, <3>2 DEF IInv
  <2>3. DiskOK'
    <3>1. CASE \E f \in Files : Edit(f)
      BY <1>2, <3>1 DEF Edit, DiskOK
    <3>2. CASE disk' = disk
      BY <3>2 DEF DiskOK
    <3>. QED
      BY <1>2, <3>1, <3>2 DEF ReadManifest, CompareGenerator, CompareFixture, Exit,
        Verifying,
        vars
  <2>. QED
    BY <2>2, <2>3
<1>. QED
  BY <1>1, <1>2 DEF Next

\* Every file on the disk starts as one of its kind.
LEMMA InitDisk == Init => DiskOK
  BY DEF Init, DiskOK, Contents, Files, Implementation, Overlay, TypeIr, PinnedFiles

\* The inductive invariant: what a generator used follows from what it read and
\* from how far it is, and every file on the disk is one of its kind.
THEOREM InvariantHolds == Spec => [](IInv /\ DiskOK)
<1>1. Init => IInv /\ DiskOK
  BY InitFollows, InitDisk
<1>2. IInv /\ DiskOK /\ [Next]_vars => IInv' /\ DiskOK'
  BY StepFollows
<1>. QED
  BY <1>1, <1>2, PTL DEF Spec

\* Every file, every read and every use stays in its range.
THEOREM TypeCorrect == Spec => []TypeOK
<1>1. IInv /\ DiskOK => TypeOK
  BY DEF IInv, Shape, DiskOK, TypeOK
<1>. QED
  BY <1>1, InvariantHolds, PTL

\* For any number of generators and whatever is edited while they run, a
\* manifest names the bytes that were executed, parsed and checked
\* (generate.py, load_overlay, load_type_ir, load_checker).
THEOREM AttestationHolds == Spec => []AttestedIsUsed
<1>1. ASSUME IInv PROVE AttestedIsUsed
  <2>1. SUFFICES ASSUME published # Nobody
                 PROVE
                        /\ used[published][Implementation] = attestation[published].generator
                        /\ used[published][Overlay] = attestation[published].overlay
                        /\ used[published][TypeIr] = attestation[published].source
                        /\ \A f \in PinnedFiles : used[published][f] = Pinned
    BY DEF AttestedIsUsed
  <2>2. published \in Generators /\ Ready(published)
    BY <1>1, <2>1 DEF IInv, Shape, Follows
  <2>. QED
    BY <2>2 DEF Ready, Executed, Parsed, Checked, Attest
<1>. QED
  BY <1>1, InvariantHolds, PTL

\* For any documents and overlays, only the reviewed fixture is published, under
\* an overlay written for its bytes (main and lower).
THEOREM OnlyReviewed == Spec => []PublishedIsReviewed
<1>1. ASSUME IInv PROVE PublishedIsReviewed
  <2>1. ASSUME published # Nobody PROVE Ready(published)
    BY <1>1, <2>1 DEF IInv, Shape, Follows
  <2>. QED
    BY <2>1 DEF Ready, Parsed, PublishedIsReviewed
<1>. QED
  BY <1>1, InvariantHolds, PTL

-----------------------------------------------------------------------------
(* The verifier, which reads a manifest that nobody changes any more. *)

\* What the verifier has compared is what the published manifest names.
Compared ==
  /\ verifier \in {"identity", "fixture", "accepted"} => published # Nobody
  /\ verifier \in {"fixture", "accepted"} => attestation[published].generator = compared

\* A generator never touches the manifest that is published.
LEMMA PublishedStays ==
  ASSUME IInv, NEW g \in Generators, Generate(g) \/ Fail(g), published # Nobody
  PROVE  published' = published /\ attestation'[published] = attestation[published]
<1>1. published \in Generators
  BY DEF IInv, Shape
<1>2. published = g => pc[g] \in {"report", "done"}
  BY DEF IInv, Follows
<1>3. published' = published
  BY DEF Generate, Read, Work, Execute, ParseOverlay, CheckPins, LoadChecked, Bind, Publish,
    Report, Fail, output, Promise!Publish, Promise!End
<1>4. CASE Bind(g)
  <2>1. pc[g] = "bind" /\ attestation' = [attestation EXCEPT ![g] = Attest(g)]
    BY <1>4 DEF Bind, Work
  <2>2. g # published
    BY <1>2, <2>1
  <2>3. attestation = [h \in Generators |-> attestation[h]]
    BY DEF IInv, Shape
  <2>. QED
    BY <1>1, <1>3, <2>1, <2>2, <2>3
<1>5. CASE ~Bind(g)
  <2>1. attestation' = attestation
    BY <1>5 DEF Generate, Read, Work, Execute, ParseOverlay, CheckPins, LoadChecked, Publish,
      Report, Fail
  <2>. QED
    BY <1>3, <2>1
<1>. QED
  BY <1>4, <1>5

\* A step compares before it publishes, whoever takes it.
LEMMA StepCompares ==
  ASSUME IInv, DiskOK, Compared, [Next]_vars
  PROVE  Compared'
<1>1. CASE \E g \in Generators : Generate(g) \/ Fail(g)
  <2>1. PICK g \in Generators : Generate(g) \/ Fail(g)
    BY <1>1
  <2>2. UNCHANGED verification
    BY <2>1 DEF Generate, Read, Work, Execute, ParseOverlay, CheckPins, LoadChecked, Bind,
      Publish, Report, Fail
  <2>. QED
    BY <2>1, <2>2, PublishedStays DEF Compared, verification
<1>2. CASE CompareGenerator
  BY <1>2 DEF CompareGenerator, Verifying, own, output, Compared
<1>3. CASE (\E f \in Files : Edit(f)) \/ ReadManifest \/ CompareFixture \/ Exit \/ UNCHANGED vars
  BY <1>3 DEF Edit, ReadManifest, CompareFixture, Exit, Verifying, own, output, verification,
    vars, Compared
<1>. QED
  BY <1>1, <1>2, <1>3 DEF Next

\* What the verifier accepts was made by the implementation it looked at
\* (verify), for any number of generators and edits.
THEOREM AcceptanceHolds == Spec => []AcceptedIsCurrent
<1>1. Init => Compared
  BY DEF Init, Compared
<1>2. IInv /\ Compared => AcceptedIsCurrent
  <2> SUFFICES ASSUME IInv, Compared, verifier = "accepted"
               PROVE  used[published][Implementation] = compared
    BY DEF AcceptedIsCurrent
  <2>1. published \in Generators
    BY DEF IInv, Shape, Compared
  <2>2. Ready(published)
    BY <2>1 DEF IInv, Follows
  <2>. QED
    BY <2>2 DEF Compared, Ready, Executed, Attest
<1>. QED
  BY <1>1, <1>2, InitFollows, InitDisk, StepFollows, StepCompares, PTL DEF Spec
=============================================================================
