-------------------------- MODULE PublicationProofs --------------------------
(***************************************************************************)
(* Publication is atomic for any number of generators, and the verifier    *)
(* accepts only what is whole.  The invariant says what a generator owns   *)
(* while it is between its claim and its manifest, and what it may have    *)
(* left behind when it is not.                                             *)
(***************************************************************************)
EXTENDS PublicationReaders, TLAPS

(* Between output.mkdir and the manifest, or the end of the handler. *)
Holds(g) == pc[g] \in {"linking", "undoing"}

\* There is one holder; what the directory holds is its own, and no manifest.
HolderOwns ==
  \A g \in Generators : Holds(g) =>
    /\ exists
    /\ output[Manifest] = Nobody
    /\ \A n \in Names : output[n] \in {g, Nobody}
    /\ \A h \in Generators : Holds(h) => h = g

EmptyUnlessExists == ~exists => \A n \in Names : output[n] = Nobody

\* The status is set on every way out of the try block.
StatusFollows ==
  \A g \in Generators :
    /\ pc[g] \in {"start", "staged", "writing", "linking"} => status[g] = "none" /\
      ~littered[g]
    /\ pc[g] = "undoing" => status[g] = "error"
    /\ pc[g] \in {"undoing", "cleaning", "done", "killed"} => status[g] # "none"
    /\ status[g] = "ok" => output[Manifest] = g

\* Whose file is in the directory holds it, has published, or was cut short.
LeftBehind ==
  \A g \in Generators :
    (\E n \in Names : output[n] = g) =>
      Holds(g) \/ status[g] \in {"ok", "interrupted", "killed"} \/ littered[g]

StagingGone ==
  \A g \in Generators :
    /\ pc[g] = "start" => ~staged[g]
    /\ pc[g] = "done" /\ status[g] # "interrupted" /\ ~littered[g] => ~staged[g]

IInv ==
  /\ TypeOK
  /\ HolderOwns
  /\ EmptyUnlessExists
  /\ StatusFollows
  /\ LeftBehind
  /\ StagingGone
  /\ ManifestMeansWhole

-----------------------------------------------------------------------------
\* A directory that is absent, or holds a generation of before, owes nothing to
\* any generator.
LEMMA InitHolds == Init => IInv
<1> SUFFICES ASSUME Init PROVE IInv
  OBVIOUS
<1> USE NamesAssumption, MakersAssumption DEF Init, Names, AdaFiles
<1>1. TypeOK
  BY DEF TypeOK, Makers, Places
<1>2. HolderOwns
  BY DEF HolderOwns, Holds
<1>3. EmptyUnlessExists
  BY DEF EmptyUnlessExists
<1>4. StatusFollows
  BY DEF StatusFollows
<1>5. LeftBehind
  BY DEF LeftBehind
<1>6. StagingGone
  BY DEF StagingGone
<1>7. ManifestMeansWhole
  BY DEF ManifestMeansWhole
<1>. QED
  BY <1>1, <1>2, <1>3, <1>4, <1>5, <1>6, <1>7 DEF IInv

\* Every call of publish, its handler and its finally clause keeps the invariant.
LEMMA StepHolds ==
  ASSUME IInv, NEW g \in Generators,
         Step(g) \/ Fail(g) \/ Interrupt(g) \/ Kill(g)
  PROVE  IInv'
<1> USE NamesAssumption, MakersAssumption DEF IInv, TypeOK, Goto, Names, AdaFiles
<1>1. CASE Stage(g)
  <2>1. TypeOK'
    BY <1>1 DEF Stage, Makers, Places
  <2>2. HolderOwns'
    BY <1>1 DEF Stage, HolderOwns, Holds
  <2>3. EmptyUnlessExists'
    BY <1>1 DEF Stage, EmptyUnlessExists
  <2>4. StatusFollows'
    BY <1>1 DEF Stage, StatusFollows
  <2>5. LeftBehind'
    BY <1>1 DEF Stage, LeftBehind, Holds
  <2>6. StagingGone'
    BY <1>1 DEF Stage, StagingGone
  <2>7. ManifestMeansWhole'
    BY <1>1 DEF Stage, ManifestMeansWhole, Whole
  <2>. QED
    BY <2>1, <2>2, <2>3, <2>4, <2>5, <2>6, <2>7
<1>2. CASE \E n \in Names : Write(g, n)
  <2>1. TypeOK'
    BY <1>2 DEF Write, Makers, Places
  <2>2. HolderOwns'
    BY <1>2 DEF Write, HolderOwns, Holds
  <2>3. EmptyUnlessExists'
    BY <1>2 DEF Write, EmptyUnlessExists
  <2>4. StatusFollows'
    BY <1>2 DEF Write, StatusFollows
  <2>5. LeftBehind'
    BY <1>2 DEF Write, LeftBehind, Holds
  <2>6. StagingGone'
    BY <1>2 DEF Write, StagingGone
  <2>7. ManifestMeansWhole'
    BY <1>2 DEF Write, ManifestMeansWhole, Whole
  <2>. QED
    BY <2>1, <2>2, <2>3, <2>4, <2>5, <2>6, <2>7
<1>3. CASE Claim(g)
  <2>1. TypeOK'
    BY <1>3 DEF Claim, Makers, Places
  <2>2. HolderOwns'
    BY <1>3 DEF Claim, HolderOwns, Holds, StatusFollows, Ended, EmptyUnlessExists
  <2>3. EmptyUnlessExists'
    BY <1>3 DEF Claim, EmptyUnlessExists
  <2>4. StatusFollows'
    BY <1>3 DEF Claim, StatusFollows
  <2>5. LeftBehind'
    BY <1>3 DEF Claim, LeftBehind, Holds
  <2>6. StagingGone'
    BY <1>3 DEF Claim, StagingGone
  <2>7. ManifestMeansWhole'
    BY <1>3 DEF Claim, ManifestMeansWhole, Whole
  <2>. QED
    BY <2>1, <2>2, <2>3, <2>4, <2>5, <2>6, <2>7
<1>4. CASE Refuse(g)
  <2>1. TypeOK'
    BY <1>4 DEF Refuse, Makers, Places
  <2>2. HolderOwns'
    BY <1>4 DEF Refuse, HolderOwns, Holds
  <2>3. EmptyUnlessExists'
    BY <1>4 DEF Refuse, EmptyUnlessExists
  <2>4. StatusFollows'
    BY <1>4 DEF Refuse, StatusFollows
  <2>5. LeftBehind'
    BY <1>4 DEF Refuse, LeftBehind, Holds, HolderOwns, StatusFollows
  <2>6. StagingGone'
    BY <1>4 DEF Refuse, StagingGone
  <2>7. ManifestMeansWhole'
    BY <1>4 DEF Refuse, ManifestMeansWhole, Whole
  <2>. QED
    BY <2>1, <2>2, <2>3, <2>4, <2>5, <2>6, <2>7
<1>5. CASE \E n \in Names : Link(g, n)
  <2>1. TypeOK'
    BY <1>5 DEF Link, Makers, Places
  <2>2. HolderOwns'
    BY <1>5 DEF Link, HolderOwns, Holds
  <2>3. EmptyUnlessExists'
    BY <1>5 DEF Link, EmptyUnlessExists
  <2>4. StatusFollows'
    BY <1>5 DEF Link, StatusFollows
  <2>5. LeftBehind'
    BY <1>5 DEF Link, LeftBehind, Holds
  <2>6. StagingGone'
    BY <1>5 DEF Link, StagingGone
  <2>7. ManifestMeansWhole'
    BY <1>5 DEF Link, ManifestMeansWhole, Whole, HolderOwns, Holds, StatusFollows,
      Ended, EmptyUnlessExists, LinkedBefore
  <2>. QED
    BY <2>1, <2>2, <2>3, <2>4, <2>5, <2>6, <2>7
<1>6. CASE \E n \in Names : UndoEntry(g, n)
  <2>1. TypeOK'
    BY <1>6 DEF UndoEntry, Makers, Places
  <2>2. HolderOwns'
    BY <1>6 DEF UndoEntry, HolderOwns, Holds
  <2>3. EmptyUnlessExists'
    BY <1>6 DEF UndoEntry, EmptyUnlessExists
  <2>4. StatusFollows'
    BY <1>6 DEF UndoEntry, StatusFollows, HolderOwns, Holds
  <2>5. LeftBehind'
    BY <1>6 DEF UndoEntry, LeftBehind, Holds
  <2>6. StagingGone'
    BY <1>6 DEF UndoEntry, StagingGone
  <2>7. ManifestMeansWhole'
    BY <1>6 DEF UndoEntry, ManifestMeansWhole, Whole, HolderOwns, Holds
  <2>. QED
    BY <2>1, <2>2, <2>3, <2>4, <2>5, <2>6, <2>7
<1>7. CASE UndoDirectory(g)
  <2>1. TypeOK'
    BY <1>7 DEF UndoDirectory, Makers, Places
  <2>2. HolderOwns'
    BY <1>7 DEF UndoDirectory, HolderOwns, Holds
  <2>3. EmptyUnlessExists'
    BY <1>7 DEF UndoDirectory, EmptyUnlessExists
  <2>4. StatusFollows'
    BY <1>7 DEF UndoDirectory, StatusFollows
  <2>5. LeftBehind'
    BY <1>7 DEF UndoDirectory, LeftBehind, Holds
  <2>6. StagingGone'
    BY <1>7 DEF UndoDirectory, StagingGone
  <2>7. ManifestMeansWhole'
    BY <1>7 DEF UndoDirectory, ManifestMeansWhole, Whole
  <2>. QED
    BY <2>1, <2>2, <2>3, <2>4, <2>5, <2>6, <2>7
<1>8. CASE \E n \in Names : CleanEntry(g, n)
  <2>1. TypeOK'
    BY <1>8 DEF CleanEntry, Makers, Places
  <2>2. HolderOwns'
    BY <1>8 DEF CleanEntry, HolderOwns, Holds
  <2>3. EmptyUnlessExists'
    BY <1>8 DEF CleanEntry, EmptyUnlessExists
  <2>4. StatusFollows'
    BY <1>8 DEF CleanEntry, StatusFollows
  <2>5. LeftBehind'
    BY <1>8 DEF CleanEntry, LeftBehind, Holds
  <2>6. StagingGone'
    BY <1>8 DEF CleanEntry, StagingGone
  <2>7. ManifestMeansWhole'
    BY <1>8 DEF CleanEntry, ManifestMeansWhole, Whole
  <2>. QED
    BY <2>1, <2>2, <2>3, <2>4, <2>5, <2>6, <2>7
<1>9. CASE CleanDirectory(g)
  <2>1. TypeOK'
    BY <1>9 DEF CleanDirectory, Makers, Places
  <2>2. HolderOwns'
    BY <1>9 DEF CleanDirectory, HolderOwns, Holds
  <2>3. EmptyUnlessExists'
    BY <1>9 DEF CleanDirectory, EmptyUnlessExists
  <2>4. StatusFollows'
    BY <1>9 DEF CleanDirectory, StatusFollows
  <2>5. LeftBehind'
    BY <1>9 DEF CleanDirectory, LeftBehind, Holds
  <2>6. StagingGone'
    BY <1>9 DEF CleanDirectory, StagingGone
  <2>7. ManifestMeansWhole'
    BY <1>9 DEF CleanDirectory, ManifestMeansWhole, Whole
  <2>. QED
    BY <2>1, <2>2, <2>3, <2>4, <2>5, <2>6, <2>7
<1>10. CASE Fail(g)
  <2>1. TypeOK'
    BY <1>10 DEF Fail, AfterException, Claimed, fileVars, Litter, Makers, Places
  <2>2. HolderOwns'
    BY <1>10 DEF Fail, AfterException, Claimed, fileVars, HolderOwns, Holds
  <2>3. EmptyUnlessExists'
    BY <1>10 DEF Fail, fileVars, EmptyUnlessExists
  <2>4. StatusFollows'
    BY <1>10 DEF Fail, AfterException, Claimed, fileVars, Litter, StatusFollows
  <2>5. LeftBehind'
    <3>1. output' = output /\ \A h \in Generators \ {g} :
            Holds(h)' = Holds(h) /\ status'[h] = status[h] /\ littered'[h] = littered[h]
      BY <1>10 DEF Fail, fileVars, Litter, Holds
    <3>2. CASE pc[g] \in {"linking", "undoing", "cleaning"}
      <4>1. Holds(g)' \/ littered'[g]
        BY <1>10, <3>2 DEF Fail, Litter, AfterException, Claimed, Holds, HolderOwns
      <4>. QED
        BY <3>1, <4>1 DEF LeftBehind
    <3>3. CASE pc[g] \in {"start", "staged", "writing"}
      <4>1. \A n \in Names : output[n] # g
        BY <3>3 DEF LeftBehind, StatusFollows, Holds
      <4>. QED
        BY <3>1, <4>1 DEF LeftBehind
    <3>. QED
      BY <1>10, <3>2, <3>3 DEF Fail, Ended, Places
  <2>6. StagingGone'
    BY <1>10 DEF Fail, AfterException, Claimed, fileVars, Litter, StagingGone
  <2>7. ManifestMeansWhole'
    BY <1>10 DEF Fail, fileVars, ManifestMeansWhole, Whole
  <2>. QED
    BY <2>1, <2>2, <2>3, <2>4, <2>5, <2>6, <2>7
<1>11. CASE Interrupt(g)
  <2>1. TypeOK'
    BY <1>11 DEF Interrupt, fileVars, Litter, Makers, Places
  <2>2. HolderOwns'
    BY <1>11 DEF Interrupt, fileVars, HolderOwns, Holds
  <2>3. EmptyUnlessExists'
    BY <1>11 DEF Interrupt, fileVars, EmptyUnlessExists
  <2>4. StatusFollows'
    BY <1>11 DEF Interrupt, fileVars, Litter, StatusFollows
  <2>5. LeftBehind'
    BY <1>11 DEF Interrupt, fileVars, Litter, LeftBehind, Holds
  <2>6. StagingGone'
    BY <1>11 DEF Interrupt, fileVars, Litter, StagingGone
  <2>7. ManifestMeansWhole'
    BY <1>11 DEF Interrupt, fileVars, ManifestMeansWhole, Whole
  <2>. QED
    BY <2>1, <2>2, <2>3, <2>4, <2>5, <2>6, <2>7
<1>12. CASE Kill(g)
  <2>1. TypeOK'
    BY <1>12 DEF Kill, fileVars, Makers, Places
  <2>2. HolderOwns'
    BY <1>12 DEF Kill, fileVars, HolderOwns, Holds
  <2>3. EmptyUnlessExists'
    BY <1>12 DEF Kill, fileVars, EmptyUnlessExists
  <2>4. StatusFollows'
    BY <1>12 DEF Kill, fileVars, StatusFollows
  <2>5. LeftBehind'
    BY <1>12 DEF Kill, fileVars, LeftBehind, Holds
  <2>6. StagingGone'
    BY <1>12 DEF Kill, fileVars, StagingGone
  <2>7. ManifestMeansWhole'
    BY <1>12 DEF Kill, fileVars, ManifestMeansWhole, Whole
  <2>. QED
    BY <2>1, <2>2, <2>3, <2>4, <2>5, <2>6, <2>7
<1>. QED
  BY <1>1, <1>2, <1>3, <1>4, <1>5, <1>6, <1>7, <1>8, <1>9, <1>10, <1>11, <1>12 DEF Step

-----------------------------------------------------------------------------
\* And so does every step of the system.
LEMMA NextHolds == IInv /\ [Next]_vars => IInv'
<1> SUFFICES ASSUME IInv, [Next]_vars PROVE IInv'
  OBVIOUS
<1>1. CASE Next
  BY <1>1, StepHolds DEF Next
<1>2. CASE UNCHANGED vars
  BY <1>2 DEF vars, IInv, TypeOK, HolderOwns, Holds, EmptyUnlessExists, StatusFollows,
    LeftBehind, StagingGone, ManifestMeansWhole, Whole
<1>. QED
  BY <1>1, <1>2

\* The inductive invariant: who made each entry follows from where its maker is
\* in publish, and the staging directory holds what was written and not removed.
THEOREM InvariantHolds == Spec => []IInv
  BY InitHolds, NextHolds, PTL DEF Spec

\* Every variable keeps its range, whatever fails and whoever is killed.
THEOREM TypeCorrect == Spec => []TypeOK
<1>1. IInv => TypeOK
  BY DEF IInv
<1>. QED
  BY <1>1, InvariantHolds, PTL

\* For any number of generators, a manifest that one of them put in the output
\* directory stands for a whole generation of its own (publish).
THEOREM ManifestsAreWhole == Spec => []ManifestMeansWhole
<1>1. IInv => ManifestMeansWhole
  BY DEF IInv
<1>. QED
  BY <1>1, InvariantHolds, PTL

\* For any number of generators, one that ends with status 1 has left nothing,
\* unless the removal itself was cut short (the handler and the finally clause).
THEOREM RejectionIsClean == Spec => []RejectedLeavesNothing
<1>1. IInv => RejectedLeavesNothing
  BY DEF IInv, LeftBehind, StagingGone, RejectedLeavesNothing, Holds
<1>. QED
  BY <1>1, InvariantHolds, PTL

-----------------------------------------------------------------------------
\* The initial states of the file system are initial states of the promise.
LEMMA InitRefines == Init => Atomic!Init
  BY MakersAssumption DEF Init, Atomic!Init, Ended, Names

\* Every step of one generator publishes, ends it, or is not seen.
LEMMA StepRefines ==
  ASSUME IInv, NEW g \in Generators,
         Step(g) \/ Fail(g) \/ Interrupt(g) \/ Kill(g)
  PROVE  [Atomic!Next]_(Atomic!vars)
<1> DEFINE outcome == [h \in Generators |-> IF Ended(h) THEN status[h] ELSE "none"]
<1> USE NamesAssumption, MakersAssumption DEF IInv, TypeOK, Goto, Names, AdaFiles
<1>1. ASSUME output'[Manifest] = output[Manifest],
             \A h \in Generators : h # g => pc'[h] = pc[h] /\ status'[h] = status[h],
             ~Ended(g), pc'[g] \notin {"done", "killed"}
      PROVE  UNCHANGED Atomic!vars
  <2>1. outcome' = outcome
    BY <1>1 DEF Ended
  <2>. QED
    BY <1>1, <2>1 DEF Atomic!vars
<1>2. ASSUME output'[Manifest] = output[Manifest],
             \A h \in Generators : h # g => pc'[h] = pc[h] /\ status'[h] = status[h],
             ~Ended(g), pc'[g] \in {"done", "killed"}, status'[g] \in Atomic!Outcomes,
             status'[g] = "ok" => output[Manifest] = g
      PROVE  Atomic!Next
  <2>1. PICK o \in Atomic!Outcomes : o = status'[g]
    BY <1>2
  <2>2. outcome' = [outcome EXCEPT ![g] = o]
    BY <1>2, <2>1 DEF Ended
  <2>3. outcome[g] = "none"
    BY <1>2
  <2>4. Atomic!End(g, o)
    BY <1>2, <2>1, <2>2, <2>3 DEF Atomic!End
  <2>. QED
    BY <2>4 DEF Atomic!Next
<1>3. CASE \E n \in Names : Link(g, n) /\ n = Manifest
  <2>1. output[Manifest] = Nobody /\ output'[Manifest] = g
    BY <1>3 DEF Link
  <2>2. outcome' = outcome
    BY <1>3 DEF Link, Ended
  <2>3. outcome[g] = "none"
    BY <1>3 DEF Link, Ended
  <2>4. Atomic!Publish(g)
    BY <2>1, <2>2, <2>3 DEF Atomic!Publish
  <2>. QED
    BY <2>4 DEF Atomic!Next
<1>4. CASE \E n \in Names : Link(g, n) /\ n # Manifest
  BY <1>4, <1>1 DEF Link, Ended
<1>5. CASE \E n \in Names : UndoEntry(g, n)
  <2>1. output'[Manifest] = output[Manifest]
    BY <1>5 DEF UndoEntry, HolderOwns, Holds
  <2>. QED
    BY <1>5, <2>1, <1>1 DEF UndoEntry, Ended
<1>6. CASE CleanDirectory(g)
  BY <1>6, <1>2 DEF CleanDirectory, Ended, StatusFollows, Atomic!Outcomes
<1>7. CASE Fail(g)
  <2>1. CASE pc'[g] = "done"
    BY <1>7, <2>1, <1>2 DEF Fail, fileVars, Atomic!Outcomes
  <2>2. CASE pc'[g] # "done"
    BY <1>7, <2>2, <1>1 DEF Fail, fileVars, AfterException
  <2>. QED
    BY <2>1, <2>2
<1>8. CASE Interrupt(g)
  <2>1. CASE pc'[g] = "done"
    BY <1>8, <2>1, <1>2 DEF Interrupt, fileVars, Atomic!Outcomes
  <2>2. CASE pc'[g] # "done"
    BY <1>8, <2>2, <1>1 DEF Interrupt, fileVars
  <2>. QED
    BY <2>1, <2>2
<1>9. CASE Kill(g)
  BY <1>9, <1>2 DEF Kill, fileVars, Atomic!Outcomes
<1>10. CASE Stage(g) \/ Claim(g) \/ Refuse(g) \/ UndoDirectory(g)
  BY <1>10, <1>1 DEF Stage, Claim, Refuse, UndoDirectory, Ended
<1>11. CASE \E n \in Names : Write(g, n) \/ CleanEntry(g, n)
  BY <1>11, <1>1 DEF Write, CleanEntry, Ended
<1>. QED
  BY <1>3, <1>4, <1>5, <1>6, <1>7, <1>8, <1>9, <1>10, <1>11 DEF Step

\* For any number of generators and every point of failure: at most one
\* publishes, nothing published is replaced or taken back, and status 0 names
\* the publisher (the whole of publish implements one atomic step).
THEOREM PublicationIsAtomic == Spec => ImplementsAtomicPublication
<1>1. ASSUME IInv, [Next]_vars PROVE [Atomic!Next]_(Atomic!vars)
  <2>1. CASE Next
    BY <1>1, <2>1, StepRefines DEF Next
  <2>2. CASE UNCHANGED vars
    BY <2>2 DEF vars, Atomic!vars, Ended
  <2>. QED
    BY <1>1, <2>1, <2>2
<1>. QED
  BY <1>1, InitRefines, InvariantHolds, PTL
    DEF Spec, ImplementsAtomicPublication, Atomic!Spec

-----------------------------------------------------------------------------
(* What the verifier has seen is still so. *)
Seen ==
  /\ at \in {"list", "hash_body", "hash_spec", "text_spec", "text_body", "accepted"} =>
       maker # Nobody /\ output[Manifest] = maker
  /\ at \in {"hash_spec", "text_spec", "text_body", "accepted"} => output[BodyFile] = maker
  /\ at \in {"text_spec", "text_body", "accepted"} => output[SpecFile] = maker

\* Beside a manifest nothing changes: its maker has done, and nobody else claims.
LEMMA ManifestSettles ==
  ASSUME IInv, NEW g \in Generators,
         Step(g) \/ Fail(g) \/ Interrupt(g) \/ Kill(g), output[Manifest] # Nobody
  PROVE  output' = output
<1>1. ~Holds(g)
  BY DEF IInv, HolderOwns
<1>. QED
  BY <1>1 DEF Holds, Step, Stage, Write, Claim, Refuse, Link, UndoEntry, UndoDirectory,
    CleanEntry, CleanDirectory, Fail, Interrupt, Kill, fileVars

\* What the verifier has compared so far stays true under every other step.
LEMMA ReadersHold ==
  IInv /\ Seen /\ [ReadersNext]_all => IInv' /\ Seen'
<1> SUFFICES ASSUME IInv, Seen, [ReadersNext]_all PROVE IInv' /\ Seen'
  OBVIOUS
<1>1. CASE \E g \in Generators : Generate(g) \/ Disturb(g)
  <2>1. PICK g \in Generators : Generate(g) \/ Disturb(g)
    BY <1>1
  <2>2. Step(g) \/ Fail(g) \/ Interrupt(g) \/ Kill(g)
    BY <2>1 DEF Generate, Disturb
  <2>3. UNCHANGED <<at, maker>>
    BY <2>1 DEF Generate, Disturb, readers
  <2>4. IInv'
    BY <2>2, StepHolds
  <2>5. output[Manifest] # Nobody => output' = output
    BY <2>2, ManifestSettles
  <2>6. Seen'
    BY <2>3, <2>5 DEF Seen
  <2>. QED
    BY <2>4, <2>6
<1>2. CASE Verify
  <2>1. IInv'
    BY <1>2, NextHolds DEF Verify, ReadManifest, ListEntries, HashFile, ReadText, Proceed
  <2>2. Seen'
    BY <1>2 DEF Verify, ReadManifest, ListEntries, HashFile, ReadText, Proceed, Seen, vars
  <2>. QED
    BY <2>1, <2>2
<1>3. CASE BeginVerify \/ BeginScan \/ Scan \/ ScanCrash \/ Exit
  <2>1. IInv'
    BY <1>3, NextHolds DEF BeginVerify, BeginScan, Scan, ScanDirectory, ScanManifests,
      ScanCrash, Exit
  <2>2. Seen'
    BY <1>3 DEF BeginVerify, BeginScan, Scan, ScanDirectory, ScanManifests, ScanCrash, Exit,
      Seen, vars, Verdicts
  <2>. QED
    BY <2>1, <2>2
<1>4. CASE UNCHANGED all
  <2>1. UNCHANGED vars /\ UNCHANGED <<at, maker>>
    BY <1>4 DEF all, readers
  <2>. QED
    BY <2>1, NextHolds DEF Seen, vars
<1>. QED
  BY <1>1, <1>2, <1>3, <1>4 DEF ReadersNext

\* Whatever generators start, fail or are killed between two reads of the
\* verifier, what it accepts is one whole generation and stays so (verify).
THEOREM VerifiedHolds == ReadersSpec => []VerifiedIsWhole
<1>1. ReadersInit => IInv /\ Seen
  BY InitHolds DEF ReadersInit, Seen
<1>2. IInv /\ Seen => VerifiedIsWhole
  BY NamesAssumption, MakersAssumption
    DEF IInv, EmptyUnlessExists, Seen, VerifiedIsWhole, Whole, Names, AdaFiles
<1>. QED
  BY <1>1, <1>2, ReadersHold, PTL DEF ReadersSpec

-----------------------------------------------------------------------------
(* What the scanner has passed stays away: a generator whose file disappeared *)
(* is on its way out, and neither links nor writes again.                      *)
Over(g) == pc[g] \in {"undoing", "cleaning", "done", "killed"}

\* The directory d of the tree holds an Ada source made by m.
InTree(d, m) ==
  \/ d = Nobody /\ m # Nobody /\ \E n \in AdaFiles : output[n] = m
  \/ d \in Generators /\ m = d /\ staging[d] \cap AdaFiles # {}

\* What is not of a generator comes with a manifest, and stays.
ForeignStays ==
  (\E n \in Names : output[n] \in {Foreign, Edited}) => output[Manifest] # Nobody

Scanning == at \in {"ada", "clean"}

Passed ==
  Scanning =>
    /\ before \subseteq Directories \X Makers
    /\ \A d \in Directories, m \in Makers : <<d, m>> \in before =>
         /\ InTree(d, m) \/ (m \in Generators /\ Over(m))
         /\ d = Nobody \/ d = m
         /\ InTree(d, m) => at = "ada" /\ d \in left

\* Marked is the set of the trees' markers, and a tree that is not Nobody's is its maker's.
LEMMA MarkedIsInTree ==
  ASSUME TypeOK
  PROVE  /\ Marked \subseteq Directories \X Makers
         /\ \A d \in Directories, m \in Makers : <<d, m>> \in Marked <=> InTree(d, m)
         /\ \A d \in Directories, m \in Makers : InTree(d, m) => d = Nobody \/ d = m
<1>1. Nobody \notin Generators
  BY MakersAssumption
<1>2. \A n \in AdaFiles : output[n] \in Makers
  BY DEF TypeOK, Names
<1>3. \A e \in Marked : e \in Directories \X Makers
  BY <1>2 DEF Marked, Directories, Makers
<1>4. ASSUME NEW d \in Directories, NEW m \in Makers
      PROVE  <<d, m>> \in Marked <=> InTree(d, m)
  BY <1>1 DEF Marked, InTree, Directories
<1>. QED
  BY <1>3, <1>4 DEF InTree

\* A generator that is over adds nothing; a file disappears only under one that
\* is over.
LEMMA StepPasses ==
  ASSUME IInv, ForeignStays, NEW g \in Generators,
         Step(g) \/ Fail(g) \/ Interrupt(g) \/ Kill(g)
  PROVE  /\ ForeignStays'
         /\ \A d \in Directories, m \in Makers :
              /\ m \in Generators /\ Over(m) =>
                   Over(m)' /\ (InTree(d, m)' => InTree(d, m))
              /\ InTree(d, m) => InTree(d, m)' \/ (m \in Generators /\ Over(m)')
<1> USE DEF IInv, TypeOK
<1>n. /\ Nobody \notin Generators /\ Foreign \notin Generators /\ Edited \notin Generators
      /\ Nobody # Foreign /\ Nobody # Edited
  BY MakersAssumption
<1>m. Manifest \in Names /\ AdaFiles \subseteq Names
  BY DEF Names
<1>1. CASE Stage(g) \/ (\E n \in Names : Write(g, n)) \/ Claim(g) \/ Refuse(g)
  <2>1. output' = output
    BY <1>1 DEF Stage, Write, Claim, Refuse
  <2>2. \A h \in Generators : Over(h) => pc'[h] = pc[h] /\ staging'[h] = staging[h]
    BY <1>1 DEF Stage, Write, Claim, Refuse, Goto, Over
  <2>3. \A h \in Generators : staging[h] \subseteq staging'[h]
    BY <1>1 DEF Stage, Write, Claim, Refuse
  <2>. QED
    BY <2>1, <2>2, <2>3 DEF InTree, ForeignStays, Over
<1>2. CASE \E n \in Names : Link(g, n)
  <2>1. PICK n \in Names : Link(g, n)
    BY <1>2
  <2>2. /\ output' = [output EXCEPT ![n] = g] /\ output[n] = Nobody
        /\ staging' = staging /\ pc[g] = "linking"
        /\ \A h \in Generators : h # g => pc'[h] = pc[h]
    BY <2>1 DEF Link, Goto
  <2>3. ForeignStays'
    BY <2>2, <1>n, <1>m DEF ForeignStays
  <2>. QED
    BY <2>2, <2>3, <1>n, <1>m DEF InTree, Over, Makers
<1>3. CASE \E n \in Names : UndoEntry(g, n)
  <2>1. PICK n \in Names : UndoEntry(g, n)
    BY <1>3
  <2>2. /\ output' = [output EXCEPT ![n] = Nobody] /\ output[n] # Nobody
        /\ staging' = staging /\ pc' = pc /\ pc[g] = "undoing"
    BY <2>1 DEF UndoEntry
  <2>3. output[n] = g /\ \A k \in Names : output[k] \in {g, Nobody}
    BY <2>2 DEF HolderOwns, Holds
  <2>4. ForeignStays'
    BY <2>2, <2>3, <1>n, <1>m DEF ForeignStays
  <2>. QED
    BY <2>2, <2>3, <2>4, <1>n, <1>m DEF InTree, Over, Makers
<1>4. CASE (\E n \in Names : CleanEntry(g, n)) \/ CleanDirectory(g) \/ UndoDirectory(g)
  <2>1. output' = output
    BY <1>4 DEF CleanEntry, CleanDirectory, UndoDirectory
  <2>2. \A h \in Generators : staging'[h] \subseteq staging[h] /\ (h # g => staging'[h] = staging[h])
    BY <1>4 DEF CleanEntry, CleanDirectory, UndoDirectory
  <2>3. Over(g)' /\ \A h \in Generators : h # g => pc'[h] = pc[h]
    BY <1>4 DEF CleanEntry, CleanDirectory, UndoDirectory, Goto, Over
  <2>. QED
    BY <2>1, <2>2, <2>3 DEF InTree, ForeignStays, Over
<1>5. CASE Fail(g) \/ Interrupt(g) \/ Kill(g)
  <2>1. output' = output /\ staging' = staging
    BY <1>5 DEF Fail, Interrupt, Kill, fileVars
  <2>2. Over(g)' /\ \A h \in Generators : h # g => pc'[h] = pc[h]
    BY <1>5 DEF Fail, Interrupt, Kill, Goto, Over, AfterException
  <2>. QED
    BY <2>1, <2>2 DEF InTree, ForeignStays, Over
<1>. QED
  BY <1>1, <1>2, <1>3, <1>4, <1>5 DEF Step

\* The pass of the scanner, one directory after the other.
LEMMA ScanPasses ==
  ASSUME IInv, ForeignStays, Passed, [ReadersNext]_all
  PROVE  ForeignStays' /\ Passed'
<1>1. CASE \E g \in Generators : Generate(g) \/ Disturb(g)
  <2>1. PICK g \in Generators : Generate(g) \/ Disturb(g)
    BY <1>1
  <2>2. Step(g) \/ Fail(g) \/ Interrupt(g) \/ Kill(g)
    BY <2>1 DEF Generate, Disturb
  <2>3. UNCHANGED <<at, left, before>>
    BY <2>1 DEF Generate, Disturb, readers
  <2>4. ForeignStays'
    BY <2>2, StepPasses
  <2>5. ASSUME Scanning, NEW d \in Directories, NEW m \in Makers, <<d, m>> \in before
        PROVE  /\ (InTree(d, m) \/ (m \in Generators /\ Over(m)))'
               /\ InTree(d, m)' => InTree(d, m)
    BY <2>5, <2>2, StepPasses DEF Passed
  <2>6. Passed'
    BY <2>3, <2>5 DEF Passed, Scanning, Directories, Makers
  <2>. QED
    BY <2>4, <2>6
<1>2. CASE BeginVerify \/ Verify \/ ScanCrash \/ Exit
  <2>1. UNCHANGED vars /\ ~Scanning'
    BY <1>2 DEF BeginVerify, Verify, ReadManifest, ListEntries, HashFile, ReadText, Proceed,
      ScanCrash, Exit, Scanning
  <2>. QED
    BY <2>1 DEF Passed, ForeignStays, vars
<1>3. CASE BeginScan
  <2>1. UNCHANGED vars /\ at' = "ada" /\ left' = Directories /\ before' = Marked
    BY <1>3 DEF BeginScan
  <2>2. TypeOK
    BY DEF IInv
  <2>3. ASSUME NEW d \in Directories, NEW m \in Makers
        PROVE  InTree(d, m)' = InTree(d, m)
    BY <2>1 DEF vars, InTree
  <2>. QED
    BY <2>1, <2>2, <2>3, MarkedIsInTree DEF Passed, ForeignStays, vars, Directories, Makers
<1>4. CASE \E d \in Directories : ScanDirectory(d)
  <2>1. PICK d \in Directories : ScanDirectory(d)
    BY <1>4
  <2>2. UNCHANGED vars
    BY <2>1 DEF ScanDirectory
  <2>3. CASE HasAda(d)
    BY <2>1, <2>2, <2>3 DEF ScanDirectory, Passed, Scanning, ForeignStays, vars
  <2>4. CASE ~HasAda(d)
    <3>1. at' = at /\ before' = before /\ left' = left \ {d} /\ Scanning
      BY <2>1, <2>4 DEF ScanDirectory, Scanning
    <3>2. \A m \in Makers : ~InTree(d, m)
      BY <2>4, MakersAssumption DEF HasAda, InTree
    <3>3. \A e \in Directories, m \in Makers : InTree(e, m)' = InTree(e, m)
      BY <2>2 DEF vars, InTree
    <3>. QED
      BY <2>2, <3>1, <3>2, <3>3 DEF Passed, Scanning, ForeignStays, vars, Directories, Makers,
        Over
  <2>. QED
    BY <2>3, <2>4
<1>5. CASE ScanManifests
  <2>1. UNCHANGED vars /\ before' = before /\ left' = left /\ at = "ada" /\ left = {}
    BY <1>5 DEF ScanManifests
  <2>2. \A d \in Directories, m \in Makers : InTree(d, m)' = InTree(d, m)
    BY <2>1 DEF vars, InTree
  <2>. QED
    BY <2>1, <2>2 DEF Passed, Scanning, ForeignStays, vars, Directories, Makers, Over
<1>6. CASE UNCHANGED all
  <2>1. UNCHANGED vars /\ UNCHANGED <<at, left, before>>
    BY <1>6 DEF all, readers
  <2>2. \A d \in Directories, m \in Makers : InTree(d, m)' = InTree(d, m)
    BY <2>1 DEF vars, InTree
  <2>. QED
    BY <2>1, <2>2 DEF Passed, Scanning, ForeignStays, vars, Directories, Makers, Over
<1>. QED
  BY <1>1, <1>2, <1>3, <1>4, <1>5, <1>6 DEF ReadersNext, Scan

\* A scan that reports nothing missed nothing, for any number of generators that
\* link, undo, clean or die while it walks the tree (find_violations).
THEOREM ScanHolds == ReadersSpec => []CleanIsClean
<1>1. ReadersInit => IInv /\ Seen /\ ForeignStays /\ Passed
  <2> SUFFICES ASSUME ReadersInit PROVE ForeignStays /\ Passed
    BY InitHolds DEF ReadersInit, Seen
  <2>1. ForeignStays
    BY NamesAssumption, MakersAssumption DEF ReadersInit, Init, ForeignStays, Names
  <2>. QED
    BY <2>1 DEF ReadersInit, Passed, Scanning
<1>2. (IInv /\ Seen) /\ (ForeignStays /\ Passed) /\ [ReadersNext]_all =>
        (IInv /\ Seen)' /\ (ForeignStays /\ Passed)'
  BY ReadersHold, ScanPasses
<1>3. IInv /\ Passed => CleanIsClean
  <2> SUFFICES ASSUME IInv, Passed, at = "clean", NEW e \in before \cap Marked
               PROVE  FALSE
    BY DEF CleanIsClean
  <2>1. PICK d \in Directories, m \in Makers : e = <<d, m>>
    BY MarkedIsInTree DEF IInv
  <2>2. InTree(d, m)
    BY <2>1, MarkedIsInTree DEF IInv
  <2>. QED
    BY <2>1, <2>2 DEF Passed, Scanning
<1>. QED
  BY <1>1, <1>2, <1>3, PTL DEF ReadersSpec
=============================================================================
