--------------------------- MODULE ProcessRunner ----------------------------
(***************************************************************************)
(* The build process runner of the Ada generator                           *)
(* (flyology_serde_generator-build_processes.adb): tasks that call Run, the *)
(* process-wide gate they queue on, the pipes and the child each one owns, *)
(* and the process table of the host.                                      *)
(*                                                                         *)
(* Run holds the gate from its first raw pipe through the spawn, then      *)
(* watches its child until both streams are at an end and the exit is seen *)
(* without reaping it, or until its deadline; then it kills the group,     *)
(* reaps the leader and, when all went well, swaps the result in.  A       *)
(* fail-stop poisons the gate and never returns.  A task may be aborted    *)
(* wherever Run does not defer aborts.                                     *)
(*                                                                         *)
(* Abstracted: the budget of the caller (a reservation may be denied       *)
(* wherever the code makes one), the captured text, the failure statuses   *)
(* other than time-out and poison (one value), EINTR (a step not taken),   *)
(* and what an ABI-impossible answer of the host would do.                 *)
(***************************************************************************)
EXTENDS Naturals, Sequences, SequencesExt

CONSTANTS
  Runners,      \* the tasks that call Run
  Pids,         \* the process identifiers of the host, reused once reaped
  Nobody,       \* no runner
  NoChild,      \* Guard.Child = -1
  AbortPoints   \* where a task may be aborted

Points == {"idle", "acquiring", "waiting", "opening", "converting", "preparing",
           "spawning", "releasing", "marked", "released", "classifying", "discarding",
           "watching", "reading", "deciding", "checking", "halted", "cleaning", "killing",
           "confirming", "awaiting", "reaping", "publishing", "swapped", "leaving", "stopped"}

\* A slip: the swap of the result defers no abort.
DeferredButSwap == {"waiting", "killing", "confirming", "awaiting", "reaping", "stopped"}

\* Where aborts are deferred: at the entry of the gate, in the finalization
\* that resolves the child, and while the result is swapped.
Deferred == {"waiting", "killing", "confirming", "awaiting", "reaping", "swapped", "stopped"}

Abortable == Points \ (Deferred \cup {"idle"})

ASSUME NobodyAssumption == Nobody \notin Runners
ASSUME NoChildAssumption == NoChild \notin Pids
ASSUME AbortAssumption == AbortPoints \subseteq Abortable

VARIABLES
  gate,    \* Runner_State: Busy, Damaged, the queue of Acquire, its answers
  run,     \* [Runners -> the locals of the runner's call of Run]
  procs    \* [Pids -> the process of that identifier]

vars == <<gate, run, procs>>

Streams == {"output", "error"}
Kinds == {"Exited", "Signaled"}
NoKind == "none"

Statuses == {"Ready_To_Run", "Run_Completed", "Run_Timed_Out", "Run_Runner_Poisoned",
             "Run_Failed", "Aborted"}

\* A call of Run at its Acquire: Result_Payload starts as Exited, Into holds
\* what the caller passed.  "shared": Into and Candidate name one result.
Called ==
  [pc |-> "acquiring", status |-> "Ready_To_Run", hold |-> "no", raw |-> FALSE,
   pipes |-> 0, child |-> NoChild, observed |-> NoKind, candidate |-> "Exited",
   ended |-> {}, late |-> FALSE, closeFailed |-> FALSE, into |-> "old", shared |-> FALSE,
   ending |-> NoKind]

Free == [owner |-> Nobody, state |-> "none", killer |-> Nobody, inherits |-> {}]

Init ==
  /\ gate = [busy |-> FALSE, damaged |-> FALSE, queue |-> <<>>, answer |-> [r \in Runners |-> "none"]]
  /\ run = [r \in Runners |-> [Called EXCEPT !.pc = "idle"]]
  /\ procs = [p \in Pids |-> Free]

At(r, point) == run[r].pc = point
Goto(r, point) == run' = [run EXCEPT ![r].pc = point]
Fail(r, status, point) == run' = [run EXCEPT ![r].pc = point, ![r].status = status]

-----------------------------------------------------------------------------
(* Runner_Gate.  The callers queued on Acquire are served at the end of    *)
(* each protected action, in order, while the barrier is open.             *)

\* A slip: the barrier is "not Busy" alone.
ServeIdle(g) ==
  IF g.busy \/ g.queue = <<>> THEN g
  ELSE [g EXCEPT !.busy = ~g.damaged, !.queue = Tail(g.queue),
                 !.answer[Head(g.queue)] = IF g.damaged THEN "refused" ELSE "granted"]

Serve(g) ==
  CASE g.damaged ->
         [g EXCEPT !.queue = <<>>,
                   !.answer = [r \in Runners |->
                     IF r \in Range(g.queue) THEN "refused" ELSE g.answer[r]]]
    [] ~g.damaged /\ ~g.busy /\ g.queue # <<>> ->
         [g EXCEPT !.busy = TRUE, !.queue = Tail(g.queue), !.answer[Head(g.queue)] = "granted"]
    [] OTHER -> g

Acquire(g, r) == Serve([g EXCEPT !.queue = Append(@, r)])

Release(g, safe) ==
  Serve([g EXCEPT !.damaged = @ \/ ~g.busy \/ ~safe, !.busy = FALSE])

Poison(g) == Serve([g EXCEPT !.damaged = TRUE])

\* The gate after a close that failed, or did not.
Closed(g, failed) == IF failed THEN Poison(g) ELSE g

\* Ownership_Fail_Stop in a finalization: poison, and loop for ever.
FailStop(r) ==
  /\ gate' = Poison(gate)
  /\ Goto(r, "stopped")

-----------------------------------------------------------------------------
(* Run, up to the spawn. *)

\* The returns before the gate: a session or a command that is not the
\* owner's, a budget that denies, no storage for the candidate; or a gate
\* already poisoned.
Decline(r) ==
  /\ At(r, "idle")
  /\ \E status \in {"Run_Failed"} \cup (IF gate.damaged THEN {"Run_Runner_Poisoned"} ELSE {}) :
       run' = [run EXCEPT ![r] = [Called EXCEPT !.pc = "idle", !.status = status]]
  /\ UNCHANGED <<gate, procs>>

Call(r) ==
  /\ At(r, "idle")
  /\ ~gate.damaged
  /\ run' = [run EXCEPT ![r] = Called]
  /\ UNCHANGED <<gate, procs>>

AcquireGate(r) ==
  /\ At(r, "acquiring")
  /\ gate' = Acquire(gate, r)
  /\ Goto(r, "waiting")
  /\ UNCHANGED procs

\* The answer of the entry, taken: Held with it, or Run_Runner_Poisoned.
Answered(r) ==
  /\ At(r, "waiting")
  /\ \/ /\ gate.answer[r] = "granted"
        /\ run' = [run EXCEPT ![r].pc = "opening", ![r].hold = "unsafe"]
     \/ /\ gate.answer[r] = "refused"
        /\ Fail(r, "Run_Runner_Poisoned", "leaving")
  /\ gate' = [gate EXCEPT !.answer[r] = "none"]
  /\ UNCHANGED procs

\* Open_Cloexec_Pipe: the raw pair.  A pipe that answers neither 0 nor -1
\* poisons the runner.
OpenRaw(r) ==
  /\ At(r, "opening")
  /\ \/ /\ run' = [run EXCEPT ![r].pc = "converting", ![r].raw = TRUE]
        /\ UNCHANGED gate
     \/ /\ Fail(r, "Run_Failed", "releasing")
        /\ \E impossible \in BOOLEAN : gate' = Closed(gate, impossible)
  /\ UNCHANGED procs

\* Open_Cloexec_Pipe: the duplicates made, the raw pair closed.  When a
\* duplicate or a close fails, no end of this pipe is left open.
Convert(r) ==
  /\ At(r, "converting")
  /\ \/ /\ run' = [run EXCEPT ![r].raw = FALSE, ![r].pipes = @ + 1,
                              ![r].pc = IF run[r].pipes = 2 THEN "preparing" ELSE "opening"]
        /\ UNCHANGED gate
     \/ /\ run' = [run EXCEPT ![r].raw = FALSE, ![r].status = "Run_Failed", ![r].pc = "releasing"]
        /\ \E failed \in BOOLEAN : gate' = Closed(gate, failed)
  /\ UNCHANGED procs

\* A slip: the gate covers the raw pipes and no more.
PrepareReleasing(r) ==
  /\ At(r, "preparing")
  /\ run' = [run EXCEPT ![r].pc = "spawning", ![r].hold = "no"]
  /\ gate' = Release(gate, TRUE)
  /\ UNCHANGED procs

\* Set_Nonblocking on the two read ends, the write end of the input closed,
\* the pipes handed to the child guard.
Prepare(r) ==
  /\ At(r, "preparing")
  /\ \/ /\ Goto(r, "spawning")
        /\ UNCHANGED gate
     \/ /\ Fail(r, "Run_Failed", "releasing")
        /\ \E failed \in BOOLEAN : gate' = Closed(gate, failed)
  /\ UNCHANGED procs

\* Spawn_Command: a child that inherits whatever raw descriptor is open; or
\* none, after an error; or an exception, that leaves the gate held.
Spawn(r) ==
  /\ At(r, "spawning")
  /\ \/ \E p \in Pids :
          /\ procs[p] = Free
          /\ procs' = [procs EXCEPT ![p] =
               [owner |-> r, state |-> "running", killer |-> Nobody,
                inherits |-> {q \in Runners : run[q].raw}]]
          /\ run' = [run EXCEPT ![r].pc = "releasing", ![r].child = p]
          /\ UNCHANGED gate
     \/ /\ Goto(r, "releasing")
        /\ UNCHANGED <<gate, procs>>
     \/ /\ Fail(r, "Run_Failed", "cleaning")
        /\ \E released \in BOOLEAN : gate' = Closed(gate, ~released)
        /\ UNCHANGED procs

\* Release_Safely: Safe set, then the protected call, then Held cleared.
MarkSafe(r) ==
  /\ At(r, "releasing")
  /\ run' = [run EXCEPT ![r].pc = "marked", ![r].hold = IF @ = "no" THEN "no" ELSE "safe"]
  /\ UNCHANGED <<gate, procs>>

ReleaseSafely(r) ==
  /\ At(r, "marked")
  /\ Goto(r, "released")
  /\ gate' = IF run[r].hold = "no" THEN gate ELSE Release(gate, TRUE)
  /\ UNCHANGED procs

ClearHeld(r) ==
  /\ At(r, "released")
  /\ run' = [run EXCEPT ![r].hold = "no",
                        ![r].pc = IF run[r].status = "Ready_To_Run" THEN "classifying" ELSE "discarding"]
  /\ UNCHANGED <<gate, procs>>

\* Fail_Setup, or the finalization of Setup: every pipe closed.
Discard(r) ==
  /\ At(r, "discarding")
  /\ run' = [run EXCEPT ![r].pc = "leaving", ![r].raw = FALSE, ![r].pipes = 0]
  /\ \E failed \in {FALSE, run[r].raw \/ run[r].pipes > 0} : gate' = Closed(gate, failed)
  /\ UNCHANGED procs

-----------------------------------------------------------------------------
(* Run, from the spawn to the end of the observation. *)

\* Classify_Spawn_Release, the deadline and the ends that belong to the child:
\* damage met on the way poisons later use and the child is cleaned up.
Classify(r) ==
  /\ At(r, "classifying")
  /\ \/ /\ run[r].child # NoChild
        /\ Goto(r, "watching")
        /\ UNCHANGED gate
     \/ /\ Fail(r, "Run_Failed", "cleaning")
        /\ \E damage \in BOOLEAN : gate' = Closed(gate, damage)
  /\ UNCHANGED procs

Watching == {"watching", "reading", "deciding", "checking"}

\* The clock reaches the deadline.
DeadlinePasses(r) ==
  /\ run[r].pc \in Watching /\ ~run[r].late
  /\ run' = [run EXCEPT ![r].late = TRUE]
  /\ UNCHANGED <<gate, procs>>

\* The two looks at the clock: at the top of the loop and after the reads.
TimeOut(r) ==
  /\ run[r].pc \in {"watching", "deciding"} /\ run[r].late
  /\ Fail(r, "Run_Timed_Out", "cleaning")
  /\ UNCHANGED <<gate, procs>>

Watch(r) ==
  /\ At(r, "watching") /\ ~run[r].late
  /\ Goto(r, "reading")
  /\ UNCHANGED <<gate, procs>>

\* Read_Stream on the streams not yet at an end: some of them end, or a
\* limit, a denial, a read or a close fails.
ReadStreams(r) ==
  /\ At(r, "reading")
  /\ \E S \in SUBSET Streams :
       /\ run[r].ended \subseteq S
       /\ \/ /\ run' = [run EXCEPT ![r].pc = "deciding", ![r].ended = S]
             /\ UNCHANGED gate
          \/ /\ run[r].ended # Streams
             /\ run' = [run EXCEPT ![r].pc = "cleaning", ![r].ended = S, ![r].status = "Run_Failed"]
             /\ \E failed \in BOOLEAN : gate' = Closed(gate, failed)
  /\ UNCHANGED procs

\* After the reads, in time: the child is looked at once both streams ended.
Decide(r) ==
  /\ At(r, "deciding") /\ ~run[r].late
  /\ Goto(r, IF run[r].ended = Streams THEN "checking" ELSE "watching")
  /\ UNCHANGED <<gate, procs>>

\* A slip: the end of both streams is taken for the end of the child.
CheckChildByStreams(r) ==
  /\ At(r, "checking")
  /\ Goto(r, "cleaning")
  /\ UNCHANGED <<gate, procs>>

\* Check_Child: waitid with WNOWAIT; no event, an exit recorded and not
\* reaped, a denial, or an answer the runner stops on, with aborts enabled.
CheckChild(r) ==
  /\ At(r, "checking")
  /\ LET kind == procs[run[r].child].state
     IN  \/ /\ kind \notin Kinds
            /\ Goto(r, "watching")
            /\ UNCHANGED gate
         \/ /\ kind \in Kinds
            /\ run' = [run EXCEPT ![r].pc = "cleaning", ![r].candidate = kind, ![r].observed = kind]
            /\ UNCHANGED gate
         \/ /\ Fail(r, "Run_Failed", "cleaning")
            /\ UNCHANGED gate
         \/ /\ Goto(r, "halted")
            /\ gate' = Poison(gate)
  /\ UNCHANGED procs

-----------------------------------------------------------------------------
(* Resolve_Child, the publication and the finalization of the call. *)

\* Every pipe closed; a close that fails is kept until the child is resolved.
\* Neither the streams nor the clock are looked at again.
ClosePipes(r) ==
  /\ At(r, "cleaning")
  /\ \E failed \in {FALSE, run[r].pipes > 0} :
       /\ run' = [run EXCEPT ![r].pipes = 0, ![r].closeFailed = failed, ![r].ended = {}, ![r].late = FALSE,
                   ![r].pc = IF run[r].child # NoChild THEN "killing"
                             ELSE IF failed THEN "stopped" ELSE "leaving"]
       /\ gate' = Closed(gate, failed)
  /\ UNCHANGED procs

\* kill (-Child, SIGKILL), and what it answers.
KillGroup(r) ==
  /\ At(r, "killing")
  /\ LET p == run[r].child
     IN  \/ /\ procs[p].state = "running"
            /\ procs' = [procs EXCEPT ![p].state = "killed", ![p].killer = r]
            /\ Goto(r, "reaping")
            /\ UNCHANGED gate
         \/ /\ procs[p].state \notin {"running", "none"}
            /\ Goto(r, "reaping")
            /\ UNCHANGED <<gate, procs>>
         \/ /\ \E answer \in {"confirming", "awaiting"} : Goto(r, answer)
            /\ UNCHANGED <<gate, procs>>
         \/ /\ FailStop(r)
            /\ UNCHANGED procs

Terminal(p) == procs[p].state \notin {"running", "none"}

\* The terminal state peeked at must be the one observed earlier.
Matches(r) == run[r].observed \in {NoKind, procs[run[r].child].state}

\* A slip: no such process is taken to mean that there is nothing to reap.
ConfirmGone(r) ==
  /\ At(r, "confirming")
  /\ run' = [run EXCEPT ![r].pc = "leaving", ![r].child = NoChild]
  /\ UNCHANGED <<gate, procs>>

\* After ESRCH one more look must find the leader terminal.
Confirm(r) ==
  /\ At(r, "confirming")
  /\ \/ /\ Terminal(run[r].child) /\ Matches(r)
        /\ Goto(r, "reaping")
        /\ UNCHANGED gate
     \/ /\ ~(Terminal(run[r].child) /\ Matches(r))
        /\ FailStop(r)
  /\ UNCHANGED procs

\* After EPERM the look is repeated until the leader is terminal.
Await(r) ==
  /\ At(r, "awaiting")
  /\ Terminal(run[r].child)
  /\ IF Matches(r)
     THEN Goto(r, "reaping") /\ UNCHANGED gate
     ELSE FailStop(r)
  /\ UNCHANGED procs

\* A slip: the guard keeps the identifier it has given back.
ReapKeepingChild(r) ==
  /\ At(r, "reaping")
  /\ procs' = [procs EXCEPT ![run[r].child] = Free]
  /\ run' = [run EXCEPT ![r].pc = "leaving", ![r].ending = procs[run[r].child].state]
  /\ UNCHANGED gate

\* waitpid: the identifier goes back to the host.  The status must match the
\* observation; a close that failed stops the runner now.
Reap(r) ==
  /\ At(r, "reaping")
  /\ \/ /\ Terminal(run[r].child)
        /\ procs' = [procs EXCEPT ![run[r].child] = Free]
        /\ IF Matches(r)
           THEN /\ run' = [run EXCEPT
                     ![r].child = NoChild, ![r].observed = NoKind,
                     ![r].ending = procs[run[r].child].state,
                     ![r].pc = IF run[r].closeFailed THEN "stopped"
                               ELSE IF run[r].status = "Ready_To_Run" THEN "publishing" ELSE "leaving"]
                /\ gate' = Closed(gate, run[r].closeFailed)
           ELSE FailStop(r)
     \/ /\ FailStop(r)
        /\ UNCHANGED procs

\* The swap of the result, with aborts deferred: Into takes the candidate ...
Swap(r) ==
  /\ At(r, "publishing")
  /\ run' = [run EXCEPT ![r].pc = "swapped", ![r].into = run[r].candidate, ![r].shared = TRUE]
  /\ UNCHANGED <<gate, procs>>

\* ... which Candidate gives up; the old result is discarded ...
Commit(r) ==
  /\ At(r, "swapped")
  /\ run' = [run EXCEPT ![r].pc = "leaving", ![r].shared = FALSE, ![r].status = "Run_Completed"]
  /\ UNCHANGED <<gate, procs>>

\* ... or, after an exception before that, Into takes the old result back.
Restore(r) ==
  /\ At(r, "swapped")
  /\ run' = [run EXCEPT ![r].pc = "cleaning", ![r].into = "old", ![r].shared = FALSE,
                        ![r].status = "Run_Failed"]
  /\ UNCHANGED <<gate, procs>>

\* The finalization of Run: the child guard resolves what it still owns, the
\* gate guard releases what it still holds, Candidate frees its result.
Leave(r) ==
  /\ At(r, "leaving")
  /\ IF run[r].child # NoChild
     THEN Goto(r, "cleaning") /\ UNCHANGED gate
     ELSE /\ run' = [run EXCEPT ![r] =
               [Called EXCEPT !.pc = "idle", !.status = run[r].status,
                              !.into = IF run[r].shared THEN "dangling" ELSE run[r].into,
                              !.ending = run[r].ending, !.raw = run[r].raw, !.pipes = run[r].pipes]]
          /\ gate' = IF run[r].hold = "no" THEN gate ELSE Release(gate, run[r].hold = "safe")
  /\ UNCHANGED procs

\* The pipes are still those of Setup: not yet handed to the child guard.
InSetup(r) ==
  \/ run[r].pc \in {"opening", "converting", "preparing", "discarding"}
  \/ run[r].pc \in {"releasing", "marked", "released"} /\ run[r].status # "Ready_To_Run"

\* A task is aborted, once, where aborts are not deferred: no handler runs,
\* only the finalization of the owner of what it holds.
Abort(r) ==
  /\ run[r].pc \in AbortPoints /\ run[r].status # "Aborted"
  /\ run' = [run EXCEPT ![r].status = "Aborted", ![r].pc = IF InSetup(r) THEN "discarding" ELSE "cleaning"]
  /\ UNCHANGED <<gate, procs>>

-----------------------------------------------------------------------------
(* The host, and the whole. *)

\* A child ends by itself: it exits, or a signal not of the runner's ends it.
End(p) ==
  /\ procs[p].state = "running"
  /\ \E kind \in Kinds : procs' = [procs EXCEPT ![p].state = kind]
  /\ UNCHANGED <<gate, run>>

\* A step of the code of a call under way.
Step(r) ==
  \/ AcquireGate(r) \/ Answered(r) \/ OpenRaw(r) \/ Convert(r) \/ Prepare(r)
  \/ Spawn(r) \/ MarkSafe(r) \/ ReleaseSafely(r) \/ ClearHeld(r) \/ Discard(r) \/ Classify(r)
  \/ TimeOut(r) \/ Watch(r) \/ ReadStreams(r) \/ Decide(r) \/ CheckChild(r)
  \/ ClosePipes(r) \/ KillGroup(r) \/ Confirm(r) \/ Await(r) \/ Reap(r)
  \/ Swap(r) \/ Commit(r) \/ Restore(r) \/ Leave(r)

Next ==
  \/ \E r \in Runners : Decline(r) \/ Call(r) \/ Step(r) \/ DeadlinePasses(r) \/ Abort(r)
  \/ \E p \in Pids : End(p)

\* The scheduler runs every task that can run, and the clock advances.  A
\* child need not end, nor close a stream.
Fairness == \A r \in Runners : WF_vars(Step(r)) /\ WF_vars(DeadlinePasses(r))

Spec == Init /\ [][Next]_vars /\ Fairness

-----------------------------------------------------------------------------
(* Properties. *)

Gates == [busy : BOOLEAN, damaged : BOOLEAN, queue : Seq(Runners),
          answer : [Runners -> {"none", "granted", "refused"}]]

Locals ==
  [pc : Points, status : Statuses, hold : {"no", "unsafe", "safe"}, raw : BOOLEAN,
   pipes : Nat, child : Pids \cup {NoChild}, observed : Kinds \cup {NoKind},
   candidate : Kinds, ended : SUBSET Streams, late : BOOLEAN, closeFailed : BOOLEAN,
   into : Kinds \cup {"old", "dangling"}, shared : BOOLEAN, ending : Kinds \cup {NoKind, "killed"}]

Processes ==
  [owner : Runners \cup {Nobody}, state : Kinds \cup {"none", "running", "killed"},
   killer : Runners \cup {Nobody}, inherits : SUBSET Runners]

\* Type invariant.
TypeOK ==
  /\ gate \in Gates
  /\ run \in [Runners -> Locals]
  /\ procs \in [Pids -> Processes]

\* No child holds a raw descriptor of another call: nothing spawns while one
\* is open (Runner_Gate from Acquire through Spawn_Exact).
NoForeignDescriptors == \A p \in Pids : procs[p].inherits = {}

\* A group is killed by nobody but the call that spawned its leader, however
\* identifiers are reused (Resolve_Child and the finalization after it).
KillsOwnGroup == \A p \in Pids : procs[p].killer \in {Nobody, procs[p].owner}

\* A call that has returned, or was aborted, leaves neither a child, a zombie,
\* a pipe nor a claim on the gate (Resolve_Child, Fail_Setup, the guards).
NothingLeftBehind ==
  \A r \in Runners : At(r, "idle") =>
    /\ \A p \in Pids : procs[p].owner # r
    /\ ~run[r].raw /\ run[r].pipes = 0 /\ run[r].hold = "no"

\* What Run publishes is how the child, by then reaped, did end by itself, and
\* one owner has it.  A call that completes publishes; one that does not leaves
\* the old result, unless it is aborted after the swap (Check_Child, Run).
PublishedIsTrue ==
  \A r \in Runners :
    /\ run[r].into # "old" =>
         /\ run[r].into = run[r].ending
         /\ \A p \in Pids : procs[p].owner # r
    /\ At(r, "idle") =>
         /\ run[r].status = "Run_Completed" => run[r].into # "old"
         /\ run[r].into # "old" => run[r].status \in {"Run_Completed", "Aborted"}

\* A live leader the runner may not signal is waited for without bound, and
\* with the gate held when the call was aborted between spawn and release.
AwaitingInGate == \E q \in Runners : At(q, "awaiting") /\ run[q].hold # "no"

\* Every call returns or stops for good: no caller waits for ever at a
\* poisoned gate or on a child past its deadline.  The one wait left is that
\* for a leader that lives on and cannot be signalled, its own or that of the
\* holder of the gate (Runner_Gate, Run, Resolve_Child).
CallsEnd ==
  \A r \in Runners : ~At(r, "idle") ~>
    run[r].pc \in {"idle", "halted", "stopped", "awaiting"} \/ AwaitingInGate

=============================================================================
