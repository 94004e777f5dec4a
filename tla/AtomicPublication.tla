-------------------------- MODULE AtomicPublication --------------------------
(***************************************************************************)
(* What publishing a generation promises (tools/generator/README.md): of   *)
(* the generators that name one output directory at most one publishes,    *)
(* what is published is never replaced nor taken back, and a generator     *)
(* that reports success is the one that published.                         *)
(***************************************************************************)

CONSTANTS
  Generators,   \* the generator processes
  Nobody        \* nothing is published

VARIABLES
  published,    \* whose generation the directory holds
  outcome       \* how each generator ended, "none" while it runs

vars == <<published, outcome>>

Outcomes == {"ok", "error", "interrupted", "killed"}

Init ==
  /\ published \notin Generators
  /\ outcome = [g \in Generators |-> "none"]

Publish(g) ==
  /\ published = Nobody /\ outcome[g] = "none"
  /\ published' = g
  /\ UNCHANGED outcome

\* A failure says nothing of what was published: the removal of the staging
\* directory may be what failed.
End(g, o) ==
  /\ outcome[g] = "none"
  /\ o = "ok" => published = g
  /\ outcome' = [outcome EXCEPT ![g] = o]
  /\ UNCHANGED published

Next == \E g \in Generators : Publish(g) \/ \E o \in Outcomes : End(g, o)

Spec == Init /\ [][Next]_vars
=============================================================================
