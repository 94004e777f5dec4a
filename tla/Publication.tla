---------------------------- MODULE Publication ----------------------------
(***************************************************************************)
(* The end of a run of the fixture generator: publish in                   *)
(* tools/generator/generator_impl.py and the exit status main gives it,    *)
(* for any number of generators started with the same --output.  Every     *)
(* call on the file system is a step of its own; a call may raise, an      *)
(* interrupt may arrive between two of them, and a process may be killed.  *)
(* A file that was half written before a failure is one that was written:  *)
(* it is in the staging directory, where nothing but its removal is left.  *)
(*                                                                         *)
(* The bytes of a file are the process that made them: two generators      *)
(* never count as having written the same file.                            *)
(***************************************************************************)

CONSTANTS
  Generators,   \* the generator processes
  SpecFile,     \* the .ads of the output unit
  BodyFile,     \* its .adb
  Manifest,     \* serde-generation.json
  Foreign,      \* the maker of an earlier generation
  Edited,       \* the maker of a file that was changed since it was generated
  Nobody        \* the maker of a file that is not there

ASSUME NamesAssumption ==
  /\ SpecFile # BodyFile /\ SpecFile # Manifest /\ BodyFile # Manifest

ASSUME MakersAssumption ==
  /\ {Foreign, Edited, Nobody} \cap Generators = {}
  /\ Foreign # Edited /\ Foreign # Nobody /\ Edited # Nobody

VARIABLES
  exists,       \* whether the output directory is there
  output,       \* who made each of its entries
  staged,       \* whether the staging directory of a generator is there
  staging,      \* the names of its entries
  pc,           \* where each generator is
  status,       \* how the process will end
  littered      \* whether the removal of what it made was cut short

fileVars == <<exists, output, staged, staging>>
vars == <<exists, output, staged, staging, pc, status, littered>>

AdaFiles == {SpecFile, BodyFile}
Names == AdaFiles \cup {Manifest}
Makers == Generators \cup {Foreign, Edited, Nobody}

Places == {"start", "staged", "writing", "linking", "undoing", "cleaning", "done", "killed"}
Ended(g) == pc[g] \in {"done", "killed"}

\* The files are written in the order of the dictionary, the manifest last.
WrittenBefore(n) ==
  IF n = Manifest THEN AdaFiles ELSE {SpecFile} \ {n}

\* A slip: the manifest is linked like any other file.
LinkedBeforeAnyOrder(n) == {}

\* They are linked in the order of their names (.adb, .ads), the manifest last.
LinkedBefore(n) ==
  IF n = Manifest THEN AdaFiles ELSE {BodyFile} \ {n}

\* The directory may be there, with an earlier generation: as it was made, or
\* with a body that was edited or removed since.
Init ==
  /\ \/ exists = FALSE /\ output = [n \in Names |-> Nobody]
     \/ /\ exists = TRUE
        /\ \E body \in {Foreign, Edited, Nobody} :
             output = [n \in Names |-> IF n = BodyFile THEN body ELSE Foreign]
  /\ staged = [g \in Generators |-> FALSE]
  /\ staging = [g \in Generators |-> {}]
  /\ pc = [g \in Generators |-> "start"]
  /\ status = [g \in Generators |-> "none"]
  /\ littered = [g \in Generators |-> FALSE]

Goto(g, place) == pc' = [pc EXCEPT ![g] = place]

-----------------------------------------------------------------------------
(* The try block. *)

\* output.parent.mkdir and mkdtemp.
Stage(g) ==
  /\ pc[g] = "start"
  /\ staged' = [staged EXCEPT ![g] = TRUE]
  /\ Goto(g, "staged")
  /\ UNCHANGED <<exists, output, staging, status, littered>>

Write(g, n) ==
  /\ pc[g] \in {"staged", "writing"}
  /\ n \notin staging[g] /\ WrittenBefore(n) \subseteq staging[g]
  /\ staging' = [staging EXCEPT ![g] = @ \cup {n}]
  /\ Goto(g, "writing")
  /\ UNCHANGED <<exists, output, staged, status, littered>>

Written(g) == staging[g] = Names

\* output.mkdir succeeds for one of those who call it.
Claim(g) ==
  /\ pc[g] = "writing" /\ Written(g)
  /\ ~exists
  /\ exists' = TRUE
  /\ Goto(g, "linking")
  /\ UNCHANGED <<output, staged, staging, status, littered>>

\* A slip: a GenerationError goes through the handler like an OSError of a link.
RefuseThroughHandler(g) ==
  /\ pc[g] = "writing" /\ Written(g)
  /\ exists
  /\ status' = [status EXCEPT ![g] = "error"]
  /\ Goto(g, "undoing")
  /\ UNCHANGED <<exists, output, staged, staging, littered>>

\* FileExistsError: a GenerationError leaves the try block unclaimed.
Refuse(g) ==
  /\ pc[g] = "writing" /\ Written(g)
  /\ exists
  /\ status' = [status EXCEPT ![g] = "error"]
  /\ Goto(g, "cleaning")
  /\ UNCHANGED <<exists, output, staged, staging, littered>>

\* os.link refuses to replace an entry: that is a Fail.
Link(g, n) ==
  /\ pc[g] = "linking"
  /\ exists /\ output[n] = Nobody
  /\ n \in staging[g]
  /\ \A m \in LinkedBefore(n) : output[m] # Nobody
  /\ output' = [output EXCEPT ![n] = g]
  /\ IF n = Manifest
       THEN /\ status' = [status EXCEPT ![g] = "ok"]
            /\ Goto(g, "cleaning")
       ELSE UNCHANGED <<status, pc>>
  /\ UNCHANGED <<exists, staged, staging, littered>>

-----------------------------------------------------------------------------
(* The handler and the finally clause. *)

\* The handler removes what is in the directory, whoever put it there.
UndoEntry(g, n) ==
  /\ pc[g] = "undoing"
  /\ output[n] # Nobody
  /\ output' = [output EXCEPT ![n] = Nobody]
  /\ UNCHANGED <<exists, staged, staging, pc, status, littered>>

UndoDirectory(g) ==
  /\ pc[g] = "undoing"
  /\ \A n \in Names : output[n] = Nobody
  /\ exists' = FALSE
  /\ Goto(g, "cleaning")
  /\ UNCHANGED <<output, staged, staging, status, littered>>

\* A slip: the finally clause removes the files it knows, not the manifest.
CleanEntryOfFiles(g, n) ==
  /\ pc[g] = "cleaning" /\ n # Manifest
  /\ n \in staging[g]
  /\ staging' = [staging EXCEPT ![g] = @ \ {n}]
  /\ UNCHANGED <<exists, output, staged, pc, status, littered>>

CleanEntry(g, n) ==
  /\ pc[g] = "cleaning"
  /\ n \in staging[g]
  /\ staging' = [staging EXCEPT ![g] = @ \ {n}]
  /\ UNCHANGED <<exists, output, staged, pc, status, littered>>

CleanDirectory(g) ==
  /\ pc[g] = "cleaning"
  /\ staging[g] = {}
  /\ staged' = [staged EXCEPT ![g] = FALSE]
  /\ Goto(g, "done")
  /\ UNCHANGED <<exists, output, staging, status, littered>>

-----------------------------------------------------------------------------
(* What may go wrong between two of these steps, or instead of one. *)

\* The local of publish: it stays FALSE until output.mkdir has succeeded.
Claimed(g) == pc[g] = "linking"

\* A slip: the handler removes the directory it could not claim, too.
AfterExceptionAnyClaim(g) ==
  IF pc[g] \in {"writing", "linking"} /\ exists THEN "undoing"
  ELSE IF pc[g] \in {"start", "cleaning"} THEN "done" ELSE "cleaning"

\* A slip: no handler, the finally clause alone.
AfterExceptionNoHandler(g) ==
  IF pc[g] \in {"start", "cleaning"} THEN "done" ELSE "cleaning"

\* Where an exception takes the process: out of publish, to the handler's
\* removal of a claimed directory, or past it to the finally clause.
AfterException(g) ==
  IF Claimed(g) /\ exists THEN "undoing"
  ELSE IF pc[g] \in {"start", "cleaning"} THEN "done" ELSE "cleaning"

Litter(g) == littered' = [littered EXCEPT ![g] = @ \/ pc[g] \in {"undoing", "cleaning"}]

\* A call raises, for any reason; main reports it and returns 1.
Fail(g) ==
  /\ ~Ended(g)
  /\ status' = [status EXCEPT ![g] = "error"]
  /\ Litter(g)
  /\ Goto(g, AfterException(g))
  /\ UNCHANGED fileVars

\* KeyboardInterrupt is no Exception: only the finally clause runs, and not
\* even that between mkdtemp and the try block.
Interrupt(g) ==
  /\ ~Ended(g)
  /\ status' = [status EXCEPT ![g] = "interrupted"]
  /\ Litter(g)
  /\ \/ pc[g] \in {"start", "staged", "cleaning"} /\ Goto(g, "done")
     \/ pc[g] \in {"staged", "writing", "linking", "undoing"} /\ Goto(g, "cleaning")
  /\ UNCHANGED fileVars

Kill(g) ==
  /\ ~Ended(g)
  /\ status' = [status EXCEPT ![g] = "killed"]
  /\ Goto(g, "killed")
  /\ UNCHANGED <<fileVars, littered>>

-----------------------------------------------------------------------------
Step(g) ==
  \/ Stage(g)
  \/ \E n \in Names : Write(g, n)
  \/ Claim(g)
  \/ Refuse(g)
  \/ \E n \in Names : Link(g, n)
  \/ \E n \in Names : UndoEntry(g, n)
  \/ UndoDirectory(g)
  \/ \E n \in Names : CleanEntry(g, n)
  \/ CleanDirectory(g)

Next == \E g \in Generators : Step(g) \/ Fail(g) \/ Interrupt(g) \/ Kill(g)

Spec == Init /\ [][Next]_vars

-----------------------------------------------------------------------------
TypeOK ==
  /\ exists \in BOOLEAN
  /\ output \in [Names -> Makers]
  /\ staged \in [Generators -> BOOLEAN]
  /\ staging \in [Generators -> SUBSET Names]
  /\ pc \in [Generators -> Places]
  /\ status \in [Generators -> {"none", "ok", "error", "interrupted", "killed"}]
  /\ littered \in [Generators -> BOOLEAN]

Whole(m) == exists /\ \A n \in Names : output[n] = m

\* The manifest of a generator stands for a whole generation: every file it
\* lists is there and was made by the same process, whoever else tried, failed,
\* was interrupted or was killed at whatever step.
ManifestMeansWhole ==
  output[Manifest] \in Generators => Whole(output[Manifest])

\* A generator that ends with status 1 has left nothing behind, neither in
\* the output directory nor beside it, unless the removal itself failed.
RejectedLeavesNothing ==
  \A g \in Generators :
    pc[g] = "done" /\ status[g] = "error" /\ ~littered[g] =>
      /\ \A n \in Names : output[n] # g
      /\ ~staged[g]

\* The publication is atomic: the generation a directory shows is the first
\* that was completed in it, for ever, and status 0 names the process that
\* made it (README: "The tool never overwrites an existing directory").
Atomic == INSTANCE AtomicPublication WITH
  published <- output[Manifest],
  outcome <- [g \in Generators |-> IF Ended(g) THEN status[g] ELSE "none"]

ImplementsAtomicPublication == Atomic!Spec
=============================================================================
