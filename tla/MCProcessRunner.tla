-------------------------- MODULE MCProcessRunner ---------------------------
(* Two callers of Run and two process identifiers. *)
EXTENDS ProcessRunner, TLC

\* Aborts everywhere but in the instant between the protected call of
\* Release_Safely and the clearing of Held.
MCAbortPoints == Abortable \ {"released"}

\* With that instant.
MCEveryAbortPoint == Abortable

=============================================================================
