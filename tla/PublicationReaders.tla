-------------------------- MODULE PublicationReaders --------------------------
(***************************************************************************)
(* Publication next to the two programs that look at what it leaves:       *)
(* tools/generator/verify_manifest.py, which reads the output directory    *)
(* one file at a time, and tools/generator/check_release_markers.py, which *)
(* walks the tree above it, staging directories included.  Neither takes   *)
(* a lock, so generators run between any two of their reads.  They write   *)
(* nothing: one at a time shows all that either can see.                   *)
(*                                                                         *)
(* The verifier compares the digest a manifest lists with the bytes of the *)
(* file: they agree when one process made both.  Every generation carries  *)
(* the fixture marker, since nothing else is ever published.               *)
(***************************************************************************)
EXTENDS Publication, Naturals

CONSTANT MaxDisturbances   \* bound on the failures, interrupts and kills explored

ASSUME DisturbancesAssumption == MaxDisturbances \in Nat

VARIABLES
  at,       \* the next read of the program that runs, or its verdict
  maker,    \* verifier: whose manifest it read
  left,     \* scanner: the directories its pass has left
  before,   \* scanner: the marked files there were when it began
  disturbances

readers == <<at, maker, left, before>>
all == <<vars, readers, disturbances>>

VerifierPlaces == {"manifest", "list", "hash_body", "hash_spec", "text_spec", "text_body"}
Verdicts == {"accepted", "rejected", "clean", "violations", "crashed"}

-----------------------------------------------------------------------------
(* verify *)

BeginVerify ==
  /\ at = "idle"
  /\ at' = "manifest"
  /\ UNCHANGED <<vars, maker, left, before, disturbances>>

\* The manifest is read whole; no manifest is an error.
ReadManifest ==
  /\ at = "manifest"
  /\ at' = IF output[Manifest] = Nobody THEN "rejected" ELSE "list"
  /\ maker' = output[Manifest]
  /\ UNCHANGED <<vars, left, before, disturbances>>

\* The next read when this one shows what the verifier wants.
Proceed(wanted, next) ==
  /\ IF wanted THEN at' = next /\ UNCHANGED maker ELSE at' = "rejected" /\ maker' = Nobody
  /\ UNCHANGED <<vars, left, before, disturbances>>

\* The directory holds the files the manifest lists and the manifest.
ListEntries ==
  at = "list" /\ Proceed(\A n \in Names : output[n] # Nobody, "hash_body")

\* A slip: the digests are looked up but not compared.
HashFileUncompared(place, n, next) ==
  at = place /\ Proceed(output[n] # Nobody, next)

\* The digests are compared in the order of the names.
HashFile(place, n, next) ==
  at = place /\ Proceed(output[n] = maker, next)

\* The files are read a second time, for the marker and the package name.
ReadText(place, n, next) ==
  at = place /\ Proceed(output[n] # Nobody, next)

Verify ==
  \/ ReadManifest
  \/ ListEntries
  \/ HashFile("hash_body", BodyFile, "hash_spec")
  \/ HashFile("hash_spec", SpecFile, "text_spec")
  \/ ReadText("text_spec", SpecFile, "text_body")
  \/ ReadText("text_body", BodyFile, "accepted")

-----------------------------------------------------------------------------
(* find_violations *)

\* The directories of the tree: the output's, and the generators' beside it.
Directories == {Nobody} \cup Generators

\* Who left a file that carries the marker in a directory: <<directory, maker>>.
Marked ==
  {<<Nobody, output[n]>> : n \in {m \in AdaFiles : output[m] # Nobody}} \cup
  {<<g, g>> : g \in {h \in Generators : staging[h] \cap AdaFiles # {}}}

HasAda(d) ==
  IF d = Nobody THEN \E n \in AdaFiles : output[n] # Nobody
  ELSE staging[d] \cap AdaFiles # {}

HasManifest(d) ==
  IF d = Nobody THEN output[Manifest] # Nobody ELSE Manifest \in staging[d]

BeginScan ==
  /\ at = "idle"
  /\ at' = "ada"
  /\ left' = Directories
  /\ before' = Marked
  /\ UNCHANGED <<vars, maker, disturbances>>

\* A slip: the directories whose name begins with a dot are passed over.
ScanDirectoryInSight(d) ==
  /\ at = "ada" /\ d \in left
  /\ IF d = Nobody /\ HasAda(d)
       THEN at' = "violations" /\ left' = {} /\ before' = {}
       ELSE left' = left \ {d} /\ UNCHANGED <<at, before>>
  /\ UNCHANGED <<vars, maker, disturbances>>

\* The Ada sources of a directory are read.  One violation decides: the rest of
\* the walk can only add to the list, or crash.
ScanDirectory(d) ==
  /\ at = "ada" /\ d \in left
  /\ IF HasAda(d)
       THEN at' = "violations" /\ left' = {} /\ before' = {}
       ELSE left' = left \ {d} /\ UNCHANGED <<at, before>>
  /\ UNCHANGED <<vars, maker, disturbances>>

\* Then the manifests, in one step: they can only add to the list.
ScanManifests ==
  /\ at = "ada" /\ left = {}
  /\ at' = IF \E d \in Directories : HasManifest(d) THEN "violations" ELSE "clean"
  /\ UNCHANGED <<vars, maker, left, before, disturbances>>

\* A file that was listed is gone when it is read, or is not JSON yet: the
\* exception is not caught and the program does not exit with 0.
ScanCrash ==
  /\ at = "ada"
  /\ at' = "crashed" /\ left' = {} /\ before' = {}
  /\ UNCHANGED <<vars, maker, disturbances>>

Scan == (\E d \in Directories : ScanDirectory(d)) \/ ScanManifests

-----------------------------------------------------------------------------
\* The program exits, and either may be started again.
Exit ==
  /\ at \in Verdicts
  /\ at' = "idle" /\ maker' = Nobody /\ left' = {} /\ before' = {}
  /\ UNCHANGED <<vars, disturbances>>

ReadersInit ==
  /\ Init
  /\ at = "idle" /\ maker = Nobody /\ left = {} /\ before = {}
  /\ disturbances = 0

Generate(g) == Step(g) /\ UNCHANGED <<readers, disturbances>>

Disturb(g) ==
  /\ disturbances < MaxDisturbances
  /\ disturbances' = disturbances + 1
  /\ Fail(g) \/ Interrupt(g) \/ Kill(g)
  /\ UNCHANGED readers

ReadersNext ==
  \/ \E g \in Generators : Generate(g) \/ Disturb(g)
  \/ BeginVerify
  \/ Verify
  \/ BeginScan
  \/ Scan
  \/ ScanCrash
  \/ Exit

\* A process that was started and has not ended goes on.  Nobody has to disturb
\* it, and nobody has to look at the directory.
Fairness ==
  /\ \A g \in Generators : WF_all(Generate(g))
  /\ WF_all(Verify \/ Scan)

ReadersSpec == ReadersInit /\ [][ReadersNext]_all /\ Fairness

-----------------------------------------------------------------------------
ReadersTypeOK ==
  /\ TypeOK
  /\ at \in {"idle"} \cup VerifierPlaces \cup {"ada"} \cup Verdicts
  /\ maker \in Makers
  /\ left \subseteq Directories
  /\ before \subseteq Directories \X Makers
  /\ disturbances \in 0..MaxDisturbances

\* The verifier reads the directory in six steps and accepts only what is, and
\* from then on stays, one whole generation: the one whose manifest it read
\* first.
VerifiedIsWhole ==
  at = "accepted" => Whole(maker)

\* A scan that finds nothing missed nothing: no marked file that was in the
\* tree when it began is still there, not even in the staging directory that
\* a killed generator left.
CleanIsClean ==
  at = "clean" => before \cap Marked = {}

\* Every generator that is not killed ends, the refused and the disturbed ones
\* too; so do the verifier and the scanner, whatever they read.
Settles ==
  /\ \A g \in Generators : <>Ended(g)
  /\ at \notin Verdicts \cup {"idle"} ~> at \in Verdicts

\* Generators that compete for a new directory do not all lose: when no call
\* fails and none is interrupted or killed, one of them publishes.
SomeoneWins ==
  ~exists =>
    <>(output[Manifest] \in Generators \/ disturbances > 0)
=============================================================================
