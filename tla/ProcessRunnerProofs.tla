------------------------ MODULE ProcessRunnerProofs -------------------------
(***************************************************************************)
(* The process runner for any number of callers and identifiers: the gate  *)
(* has one holder, and raw descriptors and spawns happen within its hold;  *)
(* a kill reaches only the caller's own child; what a call leaves behind   *)
(* and what it publishes.                                                  *)
(*                                                                         *)
(* Most steps are calm: they leave the gate alone or poison it, and make   *)
(* no caller a holder that was not one.  Four steps are not, and have      *)
(* lemmas of their own.                                                    *)
(***************************************************************************)
EXTENDS ProcessRunner, TLAPS

Queued(g, r) == \E i \in DOMAIN g.queue : g.queue[i] = r
OneEach(g) == \A i, j \in DOMAIN g.queue : g.queue[i] = g.queue[j] => i = j

\* What serving the queue does to the gate g, giving h.
Serves(g, h) ==
  /\ h \in Gates
  /\ OneEach(h)
  /\ g.busy => h.busy
  /\ \A r \in Runners :
       /\ Queued(h, r) => Queued(g, r) /\ h.answer[r] = g.answer[r]
       /\ h.answer[r] # g.answer[r] => Queued(g, r)
       /\ h.answer[r] = "granted" /\ g.answer[r] # "granted" =>
            /\ ~g.busy /\ h.busy
            /\ \A q \in Runners : h.answer[q] = "granted" /\ g.answer[q] # "granted" => q = r

-----------------------------------------------------------------------------
LEMMA ServeServes ==
  ASSUME NEW g \in Gates, OneEach(g)
  PROVE  Serves(g, Serve(g))
<1> USE DEF Gates
<1>1. CASE g.damaged
  <2> DEFINE h == [g EXCEPT !.queue = <<>>,
                     !.answer = [r \in Runners |->
                       IF r \in Range(g.queue) THEN "refused" ELSE g.answer[r]]]
  <2>1. Serve(g) = h
    BY <1>1 DEF Serve
  <2> <<>> \in Seq(Runners)
    OBVIOUS
  <2>2. h \in Gates /\ h.queue = <<>> /\ h.busy = g.busy
    OBVIOUS
  <2>3. \A r \in Runners : h.answer[r] = IF r \in Range(g.queue) THEN "refused" ELSE g.answer[r]
    OBVIOUS
  <2>4. \A r \in Runners : r \in Range(g.queue) <=> Queued(g, r)
    BY DEF Queued, Range
  <2> HIDE DEF h
  <2>5. OneEach(h) /\ \A r \in Runners : ~Queued(h, r)
    BY <2>2 DEF OneEach, Queued
  <2>. QED
    BY <2>1, <2>2, <2>3, <2>4, <2>5 DEF Serves
<1>2. CASE ~g.damaged /\ ~g.busy /\ g.queue # <<>>
  <2> DEFINE h == [g EXCEPT !.busy = TRUE, !.queue = Tail(g.queue), !.answer[Head(g.queue)] = "granted"]
  <2>1. Serve(g) = h
    BY <1>2 DEF Serve
  <2>2. /\ Head(g.queue) \in Runners /\ Tail(g.queue) \in Seq(Runners)
        /\ Head(g.queue) = g.queue[1] /\ 1 \in DOMAIN g.queue
    BY <1>2
  <2>3. h \in Gates /\ h.queue = Tail(g.queue) /\ h.busy
    BY <2>2
  <2>4. \A r \in Runners : h.answer[r] = IF r = Head(g.queue) THEN "granted" ELSE g.answer[r]
    BY <2>2
  <2>5. \A i \in DOMAIN h.queue : i + 1 \in DOMAIN g.queue /\ h.queue[i] = g.queue[i + 1]
    BY <1>2, <2>3
  <2>6. \A i \in DOMAIN h.queue : i \in Nat \ {0}
    BY <2>3
  <2> HIDE DEF h
  <2>7. OneEach(h)
    BY <2>5, <2>6 DEF OneEach
  <2>8. \A r \in Runners : Queued(h, r) => Queued(g, r) /\ r # Head(g.queue)
    BY <2>2, <2>5, <2>6 DEF Queued, OneEach
  <2>9. Queued(g, Head(g.queue))
    BY <2>2 DEF Queued
  <2>. QED
    BY <1>2, <2>1, <2>2, <2>3, <2>4, <2>7, <2>8, <2>9 DEF Serves
<1>3. CASE ~g.damaged /\ ~(~g.busy /\ g.queue # <<>>)
  <2>1. Serve(g) = g
    BY <1>3 DEF Serve
  <2>. QED
    BY <2>1 DEF Serves
<1>. QED
  BY <1>1, <1>2, <1>3

\* A close, failed or not, and a poisoning leave the holder the holder.
LEMMA PoisonServes ==
  ASSUME NEW g \in Gates, OneEach(g)
  PROVE  /\ Serves(g, Poison(g))
         /\ \A b \in BOOLEAN : Serves(g, Closed(g, b))
         /\ Serves(g, g)
<1> DEFINE d == [g EXCEPT !.damaged = TRUE]
<1>1. d \in Gates /\ d.queue = g.queue /\ d.busy = g.busy /\ d.answer = g.answer
  BY DEF Gates
<1>2. Poison(g) = Serve(d)
  BY DEF Poison
<1> HIDE DEF d
<1>3. Serves(d, Serve(d))
  BY <1>1, ServeServes DEF OneEach
<1>4. Serves(g, Serve(d))
  BY <1>1, <1>3 DEF Serves, Queued
<1>5. Serves(g, g)
  BY DEF Serves
<1>. QED
  BY <1>2, <1>4, <1>5 DEF Closed

\* Giving the gate back serves the first in the queue, or leaves the gate free.
LEMMA ReleaseServes ==
  ASSUME NEW g \in Gates, OneEach(g), NEW safe \in BOOLEAN
  PROVE  Serves([g EXCEPT !.busy = FALSE], Release(g, safe))
<1> DEFINE f == [g EXCEPT !.busy = FALSE]
           d == [g EXCEPT !.damaged = @ \/ ~g.busy \/ ~safe, !.busy = FALSE]
<1>1. d \in Gates /\ d.queue = f.queue /\ d.busy = f.busy /\ d.answer = f.answer /\ f.queue = g.queue
  BY DEF Gates
<1>2. Release(g, safe) = Serve(d)
  BY DEF Release
<1> HIDE DEF d, f
<1>3. Serves(d, Serve(d))
  BY <1>1, ServeServes DEF OneEach
<1>4. Serves(f, Serve(d))
  BY <1>1, <1>3 DEF Serves, Queued
<1>. QED
  BY <1>2, <1>4 DEF f

\* Asking for the gate queues the caller, who is served if the gate is free.
LEMMA AcquireServes ==
  ASSUME NEW g \in Gates, OneEach(g), NEW r \in Runners, ~Queued(g, r)
  PROVE  \E d \in Gates :
           /\ d.busy = g.busy /\ d.answer = g.answer /\ OneEach(d)
           /\ \A q \in Runners : Queued(d, q) <=> Queued(g, q) \/ q = r
           /\ Serves(d, Acquire(g, r))
<1> DEFINE d == [g EXCEPT !.queue = Append(@, r)]
<1>0. g.queue \in Seq(Runners) /\ Append(g.queue, r) \in Seq(Runners)
  BY DEF Gates
<1>1. d \in Gates /\ d.busy = g.busy /\ d.answer = g.answer /\ d.queue = Append(g.queue, r)
  BY <1>0 DEF Gates
<1>2. Acquire(g, r) = Serve(d)
  BY DEF Acquire
<1>3. g.queue \in Seq(Runners)
  BY DEF Gates
<1> HIDE DEF d
<1>4. /\ DOMAIN d.queue = 1..(Len(g.queue) + 1) /\ DOMAIN g.queue = 1..Len(g.queue)
      /\ Len(g.queue) \in Nat
      /\ d.queue[Len(g.queue) + 1] = r
      /\ \A i \in 1..Len(g.queue) : d.queue[i] = g.queue[i]
  BY <1>1, <1>3
<1>5. OneEach(d)
  BY <1>4 DEF OneEach, Queued
<1>6. \A q \in Runners : Queued(d, q) <=> Queued(g, q) \/ q = r
  BY <1>4 DEF Queued
<1>7. Serves(d, Serve(d))
  BY <1>1, <1>5, ServeServes
<1>. QED
  BY <1>1, <1>2, <1>5, <1>6, <1>7

(* The shape of the locals, the queue and its answers. *)

\* The points at which the guard owns a child.
Owning == {"watching", "reading", "deciding", "checking", "killing", "confirming",
           "awaiting", "reaping"}

HasChild == \A r \in Runners : run[r].pc \in Owning => run[r].child \in Pids

\* Only waiting callers are queued, once each and unanswered; an answer waits
\* for its caller.
QueueOK ==
  /\ OneEach(gate)
  /\ \A r \in Runners :
       /\ Queued(gate, r) => At(r, "waiting") /\ gate.answer[r] = "none"
       /\ gate.answer[r] # "none" => At(r, "waiting")

QInv == TypeOK /\ HasChild /\ QueueOK

\* What a calm step of r is.
CalmStep(r) ==
  /\ Serves(gate, gate')
  /\ run[r].pc # "waiting" /\ run'[r].pc # "waiting"
  /\ \A q \in Runners \ {r} : run'[q] = run[q]

\* The steps that are calm.
Calm(r) ==
  \/ Decline(r) \/ Call(r) \/ OpenRaw(r) \/ Convert(r) \/ Prepare(r) \/ Spawn(r)
  \/ MarkSafe(r) \/ ClearHeld(r) \/ Discard(r) \/ Classify(r) \/ DeadlinePasses(r) \/ TimeOut(r)
  \/ Watch(r) \/ ReadStreams(r) \/ Decide(r) \/ CheckChild(r) \/ ClosePipes(r)
  \/ KillGroup(r) \/ Confirm(r) \/ Await(r) \/ Reap(r)
  \/ Swap(r) \/ Commit(r) \/ Restore(r) \/ Abort(r)

\* Fields that hold a Boolean, set for each value of it.
LEMMA FieldsTyped ==
  ASSUME NEW x \in Locals
  PROVE  /\ \A b \in BOOLEAN, p \in Points : [x EXCEPT !.pc = p, !.raw = b] \in Locals
         /\ \A b \in BOOLEAN, p \in Points, n \in Nat :
              [x EXCEPT !.pc = p, !.raw = b, !.pipes = n] \in Locals
         /\ \A b \in BOOLEAN : [x EXCEPT !.late = b] \in Locals
         /\ \A p \in Points : [x EXCEPT !.pc = p] \in Locals
         /\ \A p \in Points, s \in Statuses : [x EXCEPT !.pc = p, !.status = s] \in Locals
         /\ \A p \in Points, s \in Statuses : [x EXCEPT !.status = s, !.pc = p] \in Locals
         /\ \A p \in Points, c \in Pids : [x EXCEPT !.pc = p, !.child = c] \in Locals
         /\ \A p \in Points, h \in {"no", "unsafe", "safe"} : [x EXCEPT !.pc = p, !.hold = h] \in Locals
         /\ \A b \in BOOLEAN, p \in Points, k \in Kinds :
              [x EXCEPT !.pc = p, !.into = k, !.shared = b] \in Locals
         /\ \A b \in BOOLEAN, p \in Points, s \in Statuses :
              /\ [x EXCEPT !.pc = p, !.shared = b, !.status = s] \in Locals
              /\ [x EXCEPT !.pc = p, !.into = "old", !.shared = b, !.status = s] \in Locals
  BY DEF Locals

\* A call that begins is in a local state of the model.
LEMMA CalledTyped ==
  ASSUME NEW p \in Points, NEW s \in Statuses
  PROVE  [Called EXCEPT !.pc = p, !.status = s] \in Locals /\ Called \in Locals
<1>1. \A b, c, d, e \in BOOLEAN :
        [pc |-> "acquiring", status |-> "Ready_To_Run", hold |-> "no", raw |-> b,
         pipes |-> 0, child |-> NoChild, observed |-> NoKind, candidate |-> "Exited",
         ended |-> {}, late |-> c, closeFailed |-> d, into |-> "old", shared |-> e,
         ending |-> NoKind] \in Locals
  BY DEF Locals, Points, Statuses, Kinds, NoKind
<1>2. Called \in Locals
  BY <1>1, Zenon DEF Called
<1>. QED
  BY <1>2 DEF Locals

\* Replacing the local state of one runner keeps the type.
LEMMA RunTyped ==
  ASSUME run \in [Runners -> Locals], NEW r \in Runners, NEW x \in Locals,
         run' = [run EXCEPT ![r] = x]
  PROVE  run' \in [Runners -> Locals]
  OBVIOUS

\* A step that does not touch the gate keeps the types and the children.
LEMMA CalmIsCalm ==
  ASSUME QInv, NEW r \in Runners, Calm(r)
  PROVE  CalmStep(r) /\ TypeOK' /\ HasChild'
<1> USE NobodyAssumption, NoChildAssumption, AbortAssumption DEF QInv, At, Goto, Fail, Terminal
<1>1. /\ gate \in Gates /\ run \in [Runners -> Locals] /\ procs \in [Pids -> Processes]
      /\ Serves(gate, gate) /\ Serves(gate, Poison(gate))
      /\ \A b \in BOOLEAN : Serves(gate, Closed(gate, b))
  BY PoisonServes DEF QueueOK, TypeOK
<1>2. \A h : Serves(gate, h) => h \in Gates
  BY DEF Serves
<1>3. CASE Decline(r)
  <2>1. run' \in [Runners -> Locals]
    <3>1. PICK s \in Statuses : run' = [run EXCEPT ![r] = [Called EXCEPT !.pc = "idle", !.status = s]]
      BY <1>3 DEF Decline, Statuses
    <3>. QED
      BY <1>1, <3>1, CalledTyped, RunTyped DEF Points
  <2>2. procs' \in [Pids -> Processes]
    BY <1>1, <1>3 DEF Decline, Called, Processes, Kinds
  <2>3. Serves(gate, gate')
    BY <1>1, <1>3 DEF Decline, Called, Locals
  <2>4. run[r].pc # "waiting" /\ run'[r].pc # "waiting"
    BY <1>1, <1>3 DEF Decline, Called, Locals
  <2>5. \A q \in Runners \ {r} : run'[q] = run[q]
    BY <1>1, <1>3 DEF Decline, Called
  <2>6. HasChild'
    BY <1>1, <1>3, <2>5 DEF Decline, Called, Locals, HasChild, Owning
  <2>. QED
    BY <1>2, <2>1, <2>2, <2>3, <2>4, <2>5, <2>6 DEF CalmStep, TypeOK
<1>4. CASE Call(r)
  <2>1. run' \in [Runners -> Locals]
    BY <1>1, <1>4, CalledTyped, RunTyped DEF Call, Points, Statuses
  <2>2. procs' \in [Pids -> Processes]
    BY <1>1, <1>4 DEF Call, Called, Processes, Kinds
  <2>3. Serves(gate, gate')
    BY <1>1, <1>4 DEF Call, Called, Locals
  <2>4. run[r].pc # "waiting" /\ run'[r].pc # "waiting"
    BY <1>1, <1>4 DEF Call, Called, Locals
  <2>5. \A q \in Runners \ {r} : run'[q] = run[q]
    BY <1>1, <1>4 DEF Call, Called
  <2>6. HasChild'
    BY <1>1, <1>4, <2>5 DEF Call, Called, Locals, HasChild, Owning
  <2>. QED
    BY <1>2, <2>1, <2>2, <2>3, <2>4, <2>5, <2>6 DEF CalmStep, TypeOK
<1>5. CASE OpenRaw(r)
  <2>1. run' \in [Runners -> Locals]
    <3>1. CASE run' = [run EXCEPT ![r].pc = "converting", ![r].raw = TRUE]
      <4>1. "converting" \in Points /\ run[r] \in Locals
        BY <1>1 DEF Points
      <4>2. [run[r] EXCEPT !.pc = "converting", !.raw = TRUE] \in Locals
        BY <4>1, FieldsTyped, Zenon
      <4>. QED
        BY <1>1, <3>1, <4>2, RunTyped
    <3>2. CASE run' = [run EXCEPT ![r].pc = "releasing", ![r].status = "Run_Failed"]
      <4>1. [run[r] EXCEPT !.pc = "releasing", !.status = "Run_Failed"] \in Locals
        BY <1>1, FieldsTyped DEF Points, Statuses
      <4>. QED
        BY <1>1, <3>2, <4>1, RunTyped
    <3>. QED
      BY <1>5, <3>1, <3>2 DEF OpenRaw
  <2>2. procs' \in [Pids -> Processes]
    BY <1>1, <1>5 DEF OpenRaw, Processes, Kinds
  <2>3. Serves(gate, gate')
    BY <1>1, <1>5 DEF OpenRaw, Locals
  <2>4. run[r].pc # "waiting" /\ run'[r].pc # "waiting"
    BY <1>1, <1>5 DEF OpenRaw, Locals
  <2>5. \A q \in Runners \ {r} : run'[q] = run[q]
    BY <1>1, <1>5 DEF OpenRaw
  <2>6. HasChild'
    BY <1>1, <1>5, <2>5 DEF OpenRaw, Locals, HasChild, Owning
  <2>. QED
    BY <1>2, <2>1, <2>2, <2>3, <2>4, <2>5, <2>6 DEF CalmStep, TypeOK
<1>6. CASE Convert(r)
  <2>1. run' \in [Runners -> Locals]
    BY <1>1, <1>6 DEF Convert, Locals, Points, Statuses, Kinds, NoKind, Streams
  <2>2. procs' \in [Pids -> Processes]
    BY <1>1, <1>6 DEF Convert, Processes, Kinds
  <2>3. Serves(gate, gate')
    BY <1>1, <1>6 DEF Convert, Locals
  <2>4. run[r].pc # "waiting" /\ run'[r].pc # "waiting"
    BY <1>1, <1>6 DEF Convert, Locals
  <2>5. \A q \in Runners \ {r} : run'[q] = run[q]
    BY <1>1, <1>6 DEF Convert
  <2>6. HasChild'
    BY <1>1, <1>6, <2>5 DEF Convert, Locals, HasChild, Owning
  <2>. QED
    BY <1>2, <2>1, <2>2, <2>3, <2>4, <2>5, <2>6 DEF CalmStep, TypeOK
<1>7. CASE Prepare(r)
  <2>1. run' \in [Runners -> Locals]
    BY <1>1, <1>7 DEF Prepare, Locals, Points, Statuses
  <2>2. procs' \in [Pids -> Processes]
    BY <1>1, <1>7 DEF Prepare, Processes, Kinds
  <2>3. Serves(gate, gate')
    BY <1>1, <1>7 DEF Prepare, Locals
  <2>4. run[r].pc # "waiting" /\ run'[r].pc # "waiting"
    BY <1>1, <1>7 DEF Prepare, Locals
  <2>5. \A q \in Runners \ {r} : run'[q] = run[q]
    BY <1>1, <1>7 DEF Prepare
  <2>6. HasChild'
    BY <1>1, <1>7, <2>5 DEF Prepare, Locals, HasChild, Owning
  <2>. QED
    BY <1>2, <2>1, <2>2, <2>3, <2>4, <2>5, <2>6 DEF CalmStep, TypeOK
<1>8. CASE Spawn(r)
  <2>1. run' \in [Runners -> Locals]
    <3>1. run[r] \in Locals /\ "releasing" \in Points /\ "cleaning" \in Points /\ "Run_Failed" \in Statuses
      BY <1>1 DEF Points, Statuses
    <3>2. \E x \in Locals : run' = [run EXCEPT ![r] = x]
      <4>1. CASE \E p \in Pids : run' = [run EXCEPT ![r].pc = "releasing", ![r].child = p]
        <5>1. PICK p \in Pids : run' = [run EXCEPT ![r] = [run[r] EXCEPT !.pc = "releasing", !.child = p]]
          BY <4>1
        <5>. QED
          BY <3>1, <5>1, FieldsTyped
      <4>2. CASE run' = [run EXCEPT ![r].pc = "releasing"]
        <5>1. run' = [run EXCEPT ![r] = [run[r] EXCEPT !.pc = "releasing"]]
          BY <4>2
        <5>. QED
          BY <3>1, <5>1, FieldsTyped
      <4>3. CASE run' = [run EXCEPT ![r].pc = "cleaning", ![r].status = "Run_Failed"]
        <5>1. run' = [run EXCEPT ![r] = [run[r] EXCEPT !.pc = "cleaning", !.status = "Run_Failed"]]
          BY <4>3
        <5>. QED
          BY <3>1, <5>1, FieldsTyped
      <4>. QED
        BY <1>8, <4>1, <4>2, <4>3 DEF Spawn
    <3>. QED
      BY <1>1, <3>2
  <2>2. procs' \in [Pids -> Processes]
    BY <1>1, <1>8 DEF Spawn, Free, Processes, Kinds
  <2>3. Serves(gate, gate')
    BY <1>1, <1>8 DEF Spawn, Free, Locals
  <2>4. run[r].pc # "waiting" /\ run'[r].pc # "waiting"
    BY <1>1, <1>8 DEF Spawn, Free, Locals
  <2>5. \A q \in Runners \ {r} : run'[q] = run[q]
    BY <1>1, <1>8 DEF Spawn, Free
  <2>6. HasChild'
    BY <1>1, <1>8, <2>5 DEF Spawn, Free, Locals, HasChild, Owning
  <2>. QED
    BY <1>2, <2>1, <2>2, <2>3, <2>4, <2>5, <2>6 DEF CalmStep, TypeOK
<1>9. CASE ClearHeld(r)
  <2>1. run' \in [Runners -> Locals]
    BY <1>1, <1>9 DEF ClearHeld, Locals, Points, Statuses, Kinds, NoKind, Streams
  <2>2. procs' \in [Pids -> Processes]
    BY <1>1, <1>9 DEF ClearHeld, Processes, Kinds
  <2>3. Serves(gate, gate')
    BY <1>1, <1>9 DEF ClearHeld, Locals
  <2>4. run[r].pc # "waiting" /\ run'[r].pc # "waiting"
    BY <1>1, <1>9 DEF ClearHeld, Locals
  <2>5. \A q \in Runners \ {r} : run'[q] = run[q]
    BY <1>1, <1>9 DEF ClearHeld
  <2>6. HasChild'
    BY <1>1, <1>9, <2>5 DEF ClearHeld, Locals, HasChild, Owning
  <2>. QED
    BY <1>2, <2>1, <2>2, <2>3, <2>4, <2>5, <2>6 DEF CalmStep, TypeOK
<1>10. CASE Discard(r)
  <2>1. run' \in [Runners -> Locals]
    <3>1. "leaving" \in Points /\ 0 \in Nat /\ run[r] \in Locals
      BY <1>1 DEF Points
    <3>2. [run[r] EXCEPT !.pc = "leaving", !.raw = FALSE, !.pipes = 0] \in Locals
      BY <3>1, FieldsTyped, Zenon
    <3>. QED
      BY <1>1, <1>10, <3>2, RunTyped DEF Discard
  <2>2. procs' \in [Pids -> Processes]
    BY <1>1, <1>10 DEF Discard, Processes, Kinds
  <2>3. Serves(gate, gate')
    BY <1>1, <1>10 DEF Discard, Locals
  <2>4. run[r].pc # "waiting" /\ run'[r].pc # "waiting"
    BY <1>1, <1>10 DEF Discard, Locals
  <2>5. \A q \in Runners \ {r} : run'[q] = run[q]
    BY <1>1, <1>10 DEF Discard
  <2>6. HasChild'
    BY <1>1, <1>10, <2>5 DEF Discard, Locals, HasChild, Owning
  <2>. QED
    BY <1>2, <2>1, <2>2, <2>3, <2>4, <2>5, <2>6 DEF CalmStep, TypeOK
<1>11. CASE Classify(r)
  <2>1. run' \in [Runners -> Locals]
    BY <1>1, <1>11 DEF Classify, Locals, Points, Statuses, Kinds, NoKind, Streams
  <2>2. procs' \in [Pids -> Processes]
    BY <1>1, <1>11 DEF Classify, Processes, Kinds
  <2>3. Serves(gate, gate')
    BY <1>1, <1>11 DEF Classify, Locals
  <2>4. run[r].pc # "waiting" /\ run'[r].pc # "waiting"
    BY <1>1, <1>11 DEF Classify, Locals
  <2>5. \A q \in Runners \ {r} : run'[q] = run[q]
    BY <1>1, <1>11 DEF Classify
  <2>6. HasChild'
    BY <1>1, <1>11, <2>5 DEF Classify, Locals, HasChild, Owning
  <2>. QED
    BY <1>2, <2>1, <2>2, <2>3, <2>4, <2>5, <2>6 DEF CalmStep, TypeOK
<1>12. CASE DeadlinePasses(r)
  <2>1. run' \in [Runners -> Locals]
    <3>1. run[r] \in Locals
      BY <1>1
    <3>2. [run[r] EXCEPT !.late = TRUE] \in Locals
      BY <3>1, FieldsTyped, Zenon
    <3>. QED
      BY <1>1, <1>12, <3>2, RunTyped DEF DeadlinePasses
  <2>2. procs' \in [Pids -> Processes]
    BY <1>1, <1>12 DEF DeadlinePasses, Watching, Processes, Kinds
  <2>3. Serves(gate, gate')
    BY <1>1, <1>12 DEF DeadlinePasses, Watching, Locals
  <2>4. run[r].pc # "waiting" /\ run'[r].pc # "waiting"
    BY <1>1, <1>12 DEF DeadlinePasses, Watching, Locals
  <2>5. \A q \in Runners \ {r} : run'[q] = run[q]
    BY <1>1, <1>12 DEF DeadlinePasses, Watching
  <2>6. HasChild'
    BY <1>1, <1>12, <2>5 DEF DeadlinePasses, Watching, Locals, HasChild, Owning
  <2>. QED
    BY <1>2, <2>1, <2>2, <2>3, <2>4, <2>5, <2>6 DEF CalmStep, TypeOK
<1>13. CASE TimeOut(r)
  <2>1. run' \in [Runners -> Locals]
    <3>1. [run[r] EXCEPT !.pc = "cleaning", !.status = "Run_Timed_Out"] \in Locals
      BY <1>1, FieldsTyped DEF Points, Statuses
    <3>. QED
      BY <1>1, <1>13, <3>1, RunTyped DEF TimeOut
  <2>2. procs' \in [Pids -> Processes]
    BY <1>1, <1>13 DEF TimeOut, Watching, Processes, Kinds
  <2>3. Serves(gate, gate')
    BY <1>1, <1>13 DEF TimeOut, Watching, Locals
  <2>4. run[r].pc # "waiting" /\ run'[r].pc # "waiting"
    BY <1>1, <1>13 DEF TimeOut, Watching, Locals
  <2>5. \A q \in Runners \ {r} : run'[q] = run[q]
    BY <1>1, <1>13 DEF TimeOut, Watching
  <2>6. HasChild'
    BY <1>1, <1>13, <2>5 DEF TimeOut, Watching, Locals, HasChild, Owning
  <2>. QED
    BY <1>2, <2>1, <2>2, <2>3, <2>4, <2>5, <2>6 DEF CalmStep, TypeOK
<1>14. CASE Watch(r)
  <2>1. run' \in [Runners -> Locals]
    BY <1>1, <1>14 DEF Watch, Locals, Points, Statuses, Kinds, NoKind, Streams
  <2>2. procs' \in [Pids -> Processes]
    BY <1>1, <1>14 DEF Watch, Processes, Kinds
  <2>3. Serves(gate, gate')
    BY <1>1, <1>14 DEF Watch, Locals
  <2>4. run[r].pc # "waiting" /\ run'[r].pc # "waiting"
    BY <1>1, <1>14 DEF Watch, Locals
  <2>5. \A q \in Runners \ {r} : run'[q] = run[q]
    BY <1>1, <1>14 DEF Watch
  <2>6. HasChild'
    BY <1>1, <1>14, <2>5 DEF Watch, Locals, HasChild, Owning
  <2>. QED
    BY <1>2, <2>1, <2>2, <2>3, <2>4, <2>5, <2>6 DEF CalmStep, TypeOK
<1>15. CASE ReadStreams(r)
  <2>1. run' \in [Runners -> Locals]
    BY <1>1, <1>15 DEF ReadStreams, Locals, Points, Statuses, Kinds, NoKind, Streams
  <2>2. procs' \in [Pids -> Processes]
    BY <1>1, <1>15 DEF ReadStreams, Processes, Kinds
  <2>3. Serves(gate, gate')
    BY <1>1, <1>15 DEF ReadStreams, Locals
  <2>4. run[r].pc # "waiting" /\ run'[r].pc # "waiting"
    BY <1>1, <1>15 DEF ReadStreams, Locals
  <2>5. \A q \in Runners \ {r} : run'[q] = run[q]
    BY <1>1, <1>15 DEF ReadStreams
  <2>6. HasChild'
    BY <1>1, <1>15, <2>5 DEF ReadStreams, Locals, HasChild, Owning
  <2>. QED
    BY <1>2, <2>1, <2>2, <2>3, <2>4, <2>5, <2>6 DEF CalmStep, TypeOK
<1>16. CASE Decide(r)
  <2>1. run' \in [Runners -> Locals]
    BY <1>1, <1>16 DEF Decide, Locals, Points, Statuses, Kinds, NoKind, Streams
  <2>2. procs' \in [Pids -> Processes]
    BY <1>1, <1>16 DEF Decide, Processes, Kinds
  <2>3. Serves(gate, gate')
    BY <1>1, <1>16 DEF Decide, Locals
  <2>4. run[r].pc # "waiting" /\ run'[r].pc # "waiting"
    BY <1>1, <1>16 DEF Decide, Locals
  <2>5. \A q \in Runners \ {r} : run'[q] = run[q]
    BY <1>1, <1>16 DEF Decide
  <2>6. HasChild'
    BY <1>1, <1>16, <2>5 DEF Decide, Locals, HasChild, Owning
  <2>. QED
    BY <1>2, <2>1, <2>2, <2>3, <2>4, <2>5, <2>6 DEF CalmStep, TypeOK
<1>17. CASE CheckChild(r)
  <2>1. run' \in [Runners -> Locals]
    BY <1>1, <1>17 DEF CheckChild, Locals, Points, Statuses, Kinds, NoKind, Streams,
      HasChild, Owning, Processes
  <2>2. procs' \in [Pids -> Processes]
    BY <1>1, <1>17 DEF CheckChild, Processes, Kinds
  <2>3. Serves(gate, gate')
    BY <1>1, <1>17 DEF CheckChild, Locals
  <2>4. run[r].pc # "waiting" /\ run'[r].pc # "waiting"
    BY <1>1, <1>17 DEF CheckChild, Locals
  <2>5. \A q \in Runners \ {r} : run'[q] = run[q]
    BY <1>1, <1>17 DEF CheckChild
  <2>6. HasChild'
    BY <1>1, <1>17, <2>5 DEF CheckChild, Locals, HasChild, Owning
  <2>. QED
    BY <1>2, <2>1, <2>2, <2>3, <2>4, <2>5, <2>6 DEF CalmStep, TypeOK
<1>18. CASE ClosePipes(r)
  <2>1. run' \in [Runners -> Locals]
    BY <1>1, <1>18 DEF ClosePipes, Locals, Points, Statuses, Kinds, NoKind, Streams
  <2>2. procs' \in [Pids -> Processes]
    BY <1>1, <1>18 DEF ClosePipes, Processes, Kinds
  <2>3. Serves(gate, gate')
    BY <1>1, <1>18 DEF ClosePipes, Locals
  <2>4. run[r].pc # "waiting" /\ run'[r].pc # "waiting"
    BY <1>1, <1>18 DEF ClosePipes, Locals
  <2>5. \A q \in Runners \ {r} : run'[q] = run[q]
    BY <1>1, <1>18 DEF ClosePipes
  <2>6. HasChild'
    BY <1>1, <1>18, <2>5 DEF ClosePipes, Locals, HasChild, Owning
  <2>. QED
    BY <1>2, <2>1, <2>2, <2>3, <2>4, <2>5, <2>6 DEF CalmStep, TypeOK
<1>19. CASE KillGroup(r)
  <2>1. run' \in [Runners -> Locals]
    BY <1>1, <1>19 DEF KillGroup, FailStop, Locals, Points, Statuses, Kinds, NoKind, Streams,
      HasChild, Owning, Processes
  <2>2. procs' \in [Pids -> Processes]
    BY <1>1, <1>19 DEF KillGroup, FailStop, Processes, Kinds
  <2>3. Serves(gate, gate')
    BY <1>1, <1>19 DEF KillGroup, FailStop, Locals
  <2>4. run[r].pc # "waiting" /\ run'[r].pc # "waiting"
    BY <1>1, <1>19 DEF KillGroup, FailStop, Locals
  <2>5. \A q \in Runners \ {r} : run'[q] = run[q]
    BY <1>1, <1>19 DEF KillGroup, FailStop
  <2>6. HasChild'
    BY <1>1, <1>19, <2>5 DEF KillGroup, FailStop, Locals, HasChild, Owning
  <2>. QED
    BY <1>2, <2>1, <2>2, <2>3, <2>4, <2>5, <2>6 DEF CalmStep, TypeOK
<1>20. CASE Confirm(r)
  <2>1. run' \in [Runners -> Locals]
    BY <1>1, <1>20 DEF Confirm, FailStop, Locals, Points, Statuses, Kinds, NoKind, Streams,
      HasChild, Owning, Processes
  <2>2. procs' \in [Pids -> Processes]
    BY <1>1, <1>20 DEF Confirm, FailStop, Processes, Kinds
  <2>3. Serves(gate, gate')
    BY <1>1, <1>20 DEF Confirm, FailStop, Locals
  <2>4. run[r].pc # "waiting" /\ run'[r].pc # "waiting"
    BY <1>1, <1>20 DEF Confirm, FailStop, Locals
  <2>5. \A q \in Runners \ {r} : run'[q] = run[q]
    BY <1>1, <1>20 DEF Confirm, FailStop
  <2>6. HasChild'
    BY <1>1, <1>20, <2>5 DEF Confirm, FailStop, Locals, HasChild, Owning
  <2>. QED
    BY <1>2, <2>1, <2>2, <2>3, <2>4, <2>5, <2>6 DEF CalmStep, TypeOK
<1>21. CASE Await(r)
  <2>1. run' \in [Runners -> Locals]
    BY <1>1, <1>21 DEF Await, FailStop, Locals, Points, Statuses, Kinds, NoKind, Streams,
      HasChild, Owning, Processes
  <2>2. procs' \in [Pids -> Processes]
    BY <1>1, <1>21 DEF Await, FailStop, Processes, Kinds
  <2>3. Serves(gate, gate')
    BY <1>1, <1>21 DEF Await, FailStop, Locals
  <2>4. run[r].pc # "waiting" /\ run'[r].pc # "waiting"
    BY <1>1, <1>21 DEF Await, FailStop, Locals
  <2>5. \A q \in Runners \ {r} : run'[q] = run[q]
    BY <1>1, <1>21 DEF Await, FailStop
  <2>6. HasChild'
    BY <1>1, <1>21, <2>5 DEF Await, FailStop, Locals, HasChild, Owning
  <2>. QED
    BY <1>2, <2>1, <2>2, <2>3, <2>4, <2>5, <2>6 DEF CalmStep, TypeOK
<1>22. CASE Reap(r)
  <2>1. run' \in [Runners -> Locals]
    <3>1. run[r].child \in Pids
      BY <1>1, <1>22 DEF Reap, HasChild, Owning
    <3>2. Terminal(run[r].child) => procs[run[r].child].state \in Kinds \cup {"killed"}
      BY <1>1, <3>1 DEF Processes
    <3>3. CASE ~Goto(r, "stopped")
      BY <1>1, <1>22, <3>2, <3>3 DEF Reap, FailStop, Locals, Points, NoKind
    <3>4. CASE Goto(r, "stopped")
      BY <1>1, <3>4 DEF Locals, Points
    <3>. QED
      BY <3>3, <3>4
  <2>2. procs' \in [Pids -> Processes]
    BY <1>1, <1>22 DEF Reap, FailStop, Free, Processes, Kinds
  <2>3. Serves(gate, gate')
    BY <1>1, <1>22 DEF Reap, FailStop, Free, Locals
  <2>4. run[r].pc # "waiting" /\ run'[r].pc # "waiting"
    BY <1>1, <1>22 DEF Reap, FailStop, Free, Locals
  <2>5. \A q \in Runners \ {r} : run'[q] = run[q]
    BY <1>1, <1>22 DEF Reap, FailStop, Free
  <2>6. HasChild'
    BY <1>1, <1>22, <2>5 DEF Reap, FailStop, Free, Locals, HasChild, Owning
  <2>. QED
    BY <1>2, <2>1, <2>2, <2>3, <2>4, <2>5, <2>6 DEF CalmStep, TypeOK
<1>23. CASE Swap(r)
  <2>1. run' \in [Runners -> Locals]
    <3>1. run[r] \in Locals /\ run[r].candidate \in Kinds /\ "swapped" \in Points
      BY <1>1 DEF Locals, Points
    <3>2. [run[r] EXCEPT !.pc = "swapped", !.into = run[r].candidate, !.shared = TRUE] \in Locals
      BY <3>1, FieldsTyped, Zenon
    <3>. QED
      BY <1>1, <1>23, <3>2, RunTyped DEF Swap
  <2>2. procs' \in [Pids -> Processes]
    BY <1>1, <1>23 DEF Swap, Processes, Kinds
  <2>3. Serves(gate, gate')
    BY <1>1, <1>23 DEF Swap, Locals
  <2>4. run[r].pc # "waiting" /\ run'[r].pc # "waiting"
    BY <1>1, <1>23 DEF Swap, Locals
  <2>5. \A q \in Runners \ {r} : run'[q] = run[q]
    BY <1>1, <1>23 DEF Swap
  <2>6. HasChild'
    BY <1>1, <1>23, <2>5 DEF Swap, Locals, HasChild, Owning
  <2>. QED
    BY <1>2, <2>1, <2>2, <2>3, <2>4, <2>5, <2>6 DEF CalmStep, TypeOK
<1>24. CASE Abort(r)
  <2>1. run' \in [Runners -> Locals]
    <3> DEFINE p == IF InSetup(r) THEN "discarding" ELSE "cleaning"
               x == [run[r] EXCEPT !.status = "Aborted", !.pc = p]
    <3>1. run[r] \in Locals /\ p \in Points /\ "Aborted" \in Statuses
      BY <1>1 DEF Points, Statuses
    <3>2. run' = [run EXCEPT ![r] = x]
      BY <1>24 DEF Abort
    <3> HIDE DEF p
    <3>3. x \in Locals
      BY <3>1, FieldsTyped
    <3>. QED
      BY <1>1, <3>2, <3>3, RunTyped
  <2>2. procs' \in [Pids -> Processes]
    BY <1>1, <1>24 DEF Abort, Abortable, Deferred, Points, InSetup, Processes, Kinds
  <2>3. Serves(gate, gate')
    BY <1>1, <1>24 DEF Abort, Abortable, Deferred, Points, InSetup, Locals
  <2>4. run[r].pc # "waiting" /\ run'[r].pc # "waiting"
    BY <1>1, <1>24 DEF Abort, Abortable, Deferred, Points, InSetup, Locals
  <2>5. \A q \in Runners \ {r} : run'[q] = run[q]
    BY <1>1, <1>24 DEF Abort, Abortable, Deferred, Points, InSetup
  <2>6. HasChild'
    BY <1>1, <1>24, <2>5 DEF Abort, Abortable, Deferred, Points, InSetup, Locals, HasChild, Owning
  <2>. QED
    BY <1>2, <2>1, <2>2, <2>3, <2>4, <2>5, <2>6 DEF CalmStep, TypeOK
<1>25. CASE Commit(r)
  <2>1. run' \in [Runners -> Locals]
    <3>1. run[r] \in Locals /\ "leaving" \in Points /\ "Run_Completed" \in Statuses
      BY <1>1 DEF Points, Statuses
    <3>2. [run[r] EXCEPT !.pc = "leaving", !.shared = FALSE, !.status = "Run_Completed"] \in Locals
      BY <3>1, FieldsTyped, Zenon
    <3>. QED
      BY <1>1, <1>25, <3>2, RunTyped DEF Commit
  <2>2. procs' \in [Pids -> Processes]
    BY <1>1, <1>25 DEF Commit, Processes, Kinds
  <2>3. Serves(gate, gate')
    BY <1>1, <1>25 DEF Commit, Locals
  <2>4. run[r].pc # "waiting" /\ run'[r].pc # "waiting"
    BY <1>1, <1>25 DEF Commit, Locals
  <2>5. \A q \in Runners \ {r} : run'[q] = run[q]
    BY <1>1, <1>25 DEF Commit
  <2>6. HasChild'
    BY <1>1, <1>25, <2>5 DEF Commit, Locals, HasChild, Owning
  <2>. QED
    BY <1>2, <2>1, <2>2, <2>3, <2>4, <2>5, <2>6 DEF CalmStep, TypeOK
<1>26. CASE Restore(r)
  <2>1. run' \in [Runners -> Locals]
    <3>1. run[r] \in Locals /\ "cleaning" \in Points /\ "Run_Failed" \in Statuses
      BY <1>1 DEF Points, Statuses
    <3>2. [run[r] EXCEPT !.pc = "cleaning", !.into = "old", !.shared = FALSE, !.status = "Run_Failed"]
            \in Locals
      BY <3>1, FieldsTyped, Zenon
    <3>. QED
      BY <1>1, <1>26, <3>2, RunTyped DEF Restore
  <2>2. procs' \in [Pids -> Processes]
    BY <1>1, <1>26 DEF Restore, Processes, Kinds
  <2>3. Serves(gate, gate')
    BY <1>1, <1>26 DEF Restore, Locals
  <2>4. run[r].pc # "waiting" /\ run'[r].pc # "waiting"
    BY <1>1, <1>26 DEF Restore, Locals
  <2>5. \A q \in Runners \ {r} : run'[q] = run[q]
    BY <1>1, <1>26 DEF Restore
  <2>6. HasChild'
    BY <1>1, <1>26, <2>5 DEF Restore, Locals, HasChild, Owning
  <2>. QED
    BY <1>2, <2>1, <2>2, <2>3, <2>4, <2>5, <2>6 DEF CalmStep, TypeOK
<1>27. CASE MarkSafe(r)
  <2>1. run' \in [Runners -> Locals]
    <3> DEFINE h == IF run[r].hold = "no" THEN "no" ELSE "safe"
               x == [run[r] EXCEPT !.pc = "marked", !.hold = h]
    <3>1. run[r] \in Locals /\ "marked" \in Points /\ h \in {"no", "unsafe", "safe"}
      BY <1>1 DEF Points
    <3>2. run' = [run EXCEPT ![r] = x]
      BY <1>27 DEF MarkSafe
    <3> HIDE DEF h
    <3>3. x \in Locals
      BY <3>1, FieldsTyped
    <3>. QED
      BY <1>1, <3>2, <3>3, RunTyped
  <2>2. procs' \in [Pids -> Processes]
    BY <1>1, <1>27 DEF MarkSafe, Processes, Kinds
  <2>3. Serves(gate, gate')
    BY <1>1, <1>27 DEF MarkSafe, Locals
  <2>4. run[r].pc # "waiting" /\ run'[r].pc # "waiting"
    BY <1>1, <1>27 DEF MarkSafe, Locals
  <2>5. \A q \in Runners \ {r} : run'[q] = run[q]
    BY <1>1, <1>27 DEF MarkSafe
  <2>6. HasChild'
    BY <1>1, <1>27, <2>5 DEF MarkSafe, Locals, HasChild, Owning
  <2>. QED
    BY <1>2, <2>1, <2>2, <2>3, <2>4, <2>5, <2>6 DEF CalmStep, TypeOK
<1>. QED
  BY <1>3, <1>4, <1>5, <1>6, <1>7, <1>8, <1>9, <1>10, <1>11, <1>12, <1>13, <1>14, <1>15, <1>16,
    <1>17, <1>18, <1>19, <1>20, <1>21, <1>22, <1>23, <1>24, <1>25, <1>26, <1>27 DEF Calm

-----------------------------------------------------------------------------
\* A calm step disturbs neither the queue nor its answers.
LEMMA CalmKeepsQueue ==
  ASSUME QInv, NEW r \in Runners, CalmStep(r)
  PROVE  QueueOK'
<1>1. OneEach(gate)' /\ ~Queued(gate, r) /\ gate.answer[r] = "none"
  BY DEF CalmStep, Serves, QInv, QueueOK, At, OneEach
<1>2. \A q \in Runners :
        /\ Queued(gate', q) => Queued(gate, q) /\ gate'.answer[q] = gate.answer[q]
        /\ gate'.answer[q] # gate.answer[q] => Queued(gate, q)
  BY DEF CalmStep, Serves
<1>3. ASSUME NEW q \in Runners
      PROVE  /\ Queued(gate', q) => run'[q].pc = "waiting" /\ gate'.answer[q] = "none"
             /\ gate'.answer[q] # "none" => run'[q].pc = "waiting"
  <2>1. CASE q = r
    BY <1>1, <1>2, <2>1
  <2>2. CASE q # r
    BY <1>2, <2>2 DEF CalmStep, QInv, QueueOK, At
  <2>. QED
    BY <2>1, <2>2
<1>. QED
  BY <1>1, <1>3 DEF QueueOK, At, Queued

\* No runner is queued at the start.
LEMMA InitQueue == Init => QInv
<1> SUFFICES ASSUME Init PROVE QInv
  OBVIOUS
<1>1. gate \in Gates /\ gate.queue = <<>> /\ \A r \in Runners : gate.answer[r] = "none"
  BY DEF Init, Gates
<1>2. [Called EXCEPT !.pc = "idle"] \in Locals
  <2>1. Called \in Locals /\ "idle" \in Points /\ Called.status \in Statuses
    BY CalledTyped DEF Points, Statuses, Locals
  <2>. QED
    BY <2>1 DEF Locals
<1>3. run \in [Runners -> Locals] /\ \A r \in Runners : run[r].pc = "idle"
  BY <1>2 DEF Init, Called
<1>4. procs \in [Pids -> Processes]
  BY DEF Init, Free, Processes
<1>5. OneEach(gate) /\ \A r \in Runners : ~Queued(gate, r)
  BY <1>1 DEF OneEach, Queued
<1>. QED
  BY <1>1, <1>3, <1>4, <1>5 DEF QInv, TypeOK, HasChild, Owning, QueueOK

\* Asking for the gate keeps the queue in order.
LEMMA AcquireKeeps ==
  ASSUME QInv, NEW r \in Runners, AcquireGate(r)
  PROVE  QInv'
<1>1. gate \in Gates /\ OneEach(gate) /\ ~Queued(gate, r) /\ gate.answer[r] = "none"
  BY DEF QInv, TypeOK, QueueOK, AcquireGate, At
<1>2. PICK d \in Gates :
        /\ d.answer = gate.answer
        /\ \A q \in Runners : Queued(d, q) <=> Queued(gate, q) \/ q = r
        /\ Serves(d, gate')
  BY <1>1, AcquireServes DEF AcquireGate
<1>3. run' \in [Runners -> Locals] /\ run'[r].pc = "waiting" /\ run'[r].child = run[r].child
      /\ \A q \in Runners \ {r} : run'[q] = run[q]
  BY DEF QInv, TypeOK, AcquireGate, Goto, Locals, Points
<1>4. TypeOK'
  BY <1>2, <1>3 DEF TypeOK, QInv, AcquireGate, Serves
<1>5. HasChild'
  BY <1>3 DEF QInv, HasChild, Owning
<1>6. QueueOK'
  <2>1. OneEach(gate)'
    BY <1>2 DEF Serves, OneEach
  <2>2. \A q \in Runners :
          /\ Queued(gate', q) => run'[q].pc = "waiting" /\ gate'.answer[q] = "none"
          /\ gate'.answer[q] # "none" => run'[q].pc = "waiting"
    BY <1>1, <1>2, <1>3 DEF Serves, QInv, QueueOK, At
  <2>. QED
    BY <2>1, <2>2 DEF QueueOK, At, Queued
<1>. QED
  BY <1>4, <1>5, <1>6 DEF QInv

\* Taking the answer of the gate keeps the queue in order.
LEMMA AnsweredKeeps ==
  ASSUME QInv, NEW r \in Runners, Answered(r)
  PROVE  QInv'
<1>1. run' \in [Runners -> Locals] /\ run'[r].pc \in {"opening", "leaving"}
      /\ \A q \in Runners \ {r} : run'[q] = run[q]
  BY DEF QInv, TypeOK, Answered, Fail, Locals, Points, Statuses
<1>2. /\ gate' \in Gates /\ gate'.queue = gate.queue /\ gate'.answer[r] = "none"
      /\ \A q \in Runners \ {r} : gate'.answer[q] = gate.answer[q]
  BY DEF QInv, TypeOK, Answered, Gates
<1>3. ~Queued(gate, r)
  BY DEF QInv, QueueOK, Answered
<1>4. TypeOK' /\ HasChild'
  BY <1>1, <1>2 DEF QInv, TypeOK, HasChild, Owning, Answered
<1>5. QueueOK'
  <2>1. OneEach(gate') /\ \A q \in Runners : Queued(gate', q) <=> Queued(gate, q)
    BY <1>2 DEF QInv, QueueOK, OneEach, Queued
  <2>2. \A q \in Runners :
          /\ Queued(gate', q) => run'[q].pc = "waiting" /\ gate'.answer[q] = "none"
          /\ gate'.answer[q] # "none" => run'[q].pc = "waiting"
    BY <1>1, <1>2, <1>3, <2>1 DEF QInv, QueueOK, At
  <2>. QED
    BY <2>1, <2>2 DEF QueueOK, At, Queued, OneEach
<1>. QED
  BY <1>4, <1>5 DEF QInv

\* The two releases serve the queue, whose callers are not the releasing one.
LEMMA ReleaseKeepsQueue ==
  ASSUME QInv, NEW r \in Runners, NEW safe \in BOOLEAN, gate' = Release(gate, safe),
         run[r].pc # "waiting", run'[r].pc # "waiting",
         \A q \in Runners \ {r} : run'[q] = run[q]
  PROVE  QueueOK' /\ gate' \in Gates
<1>1. gate \in Gates /\ OneEach(gate) /\ ~Queued(gate, r) /\ gate.answer[r] = "none"
  BY DEF QInv, TypeOK, QueueOK, At
<1> DEFINE f == [gate EXCEPT !.busy = FALSE]
<1>2. Serves(f, gate') /\ f.answer = gate.answer /\ f.queue = gate.queue
  BY <1>1, ReleaseServes DEF Gates
<1> HIDE DEF f
<1>3. OneEach(gate') /\ gate' \in Gates
  BY <1>2 DEF Serves
<1>4. \A q \in Runners :
        /\ Queued(gate', q) => Queued(gate, q) /\ gate'.answer[q] = gate.answer[q]
        /\ gate'.answer[q] # gate.answer[q] => Queued(gate, q)
  BY <1>2 DEF Serves, Queued
<1>5. ASSUME NEW q \in Runners
      PROVE  /\ Queued(gate', q) => run'[q].pc = "waiting" /\ gate'.answer[q] = "none"
             /\ gate'.answer[q] # "none" => run'[q].pc = "waiting"
  <2>1. CASE q = r
    BY <1>1, <1>4, <2>1
  <2>2. CASE q # r
    BY <1>4, <2>2 DEF QInv, QueueOK, At
  <2>. QED
    BY <2>1, <2>2
<1>. QED
  BY <1>3, <1>5 DEF QueueOK, At, Queued, OneEach

\* Releasing the gate keeps the queue in order.
LEMMA ReleaseSafelyKeeps ==
  ASSUME QInv, NEW r \in Runners, ReleaseSafely(r)
  PROVE  QInv'
<1>1. run' \in [Runners -> Locals] /\ run'[r].pc = "released"
      /\ \A q \in Runners \ {r} : run'[q] = run[q]
  <2>1. run \in [Runners -> Locals] /\ run[r] \in Locals /\ "released" \in Points
    BY DEF QInv, TypeOK, Points
  <2>2. \A x \in Locals : /\ [x EXCEPT !.pc = "released"] \in Locals
                          /\ [x EXCEPT !.pc = "released"].pc = "released"
    BY <2>1 DEF Locals
  <2>3. run' = [run EXCEPT ![r] = [run[r] EXCEPT !.pc = "released"]]
    BY DEF ReleaseSafely, Goto
  <2>. QED
    BY <2>1, <2>2, <2>3
<1>2. run[r].pc # "waiting" /\ HasChild' /\ procs' = procs
  BY <1>1 DEF QInv, HasChild, Owning, ReleaseSafely, At
<1>3. CASE gate' = Release(gate, TRUE)
  BY <1>1, <1>2, <1>3, ReleaseKeepsQueue DEF QInv, TypeOK
<1>4. CASE gate' = gate
  <2>2. QueueOK'
    BY <1>1, <1>2, <1>4 DEF QInv, QueueOK, At, Queued, OneEach
  <2>. QED
    BY <1>1, <1>2, <1>4, <2>2 DEF QInv, TypeOK
<1>. QED
  BY <1>3, <1>4 DEF ReleaseSafely

\* The locals of a call that has returned.
Returned(x) ==
  [Called EXCEPT !.pc = "idle", !.status = x.status,
                 !.into = IF x.shared THEN "dangling" ELSE x.into,
                 !.ending = x.ending, !.raw = x.raw, !.pipes = x.pipes]

\* What a call leaves when it returns.
LEMMA ReturnedTyped ==
  ASSUME NEW x \in Locals
  PROVE  /\ Returned(x) \in Locals
         /\ Returned(x).pc = "idle" /\ Returned(x).hold = "no" /\ Returned(x).child = NoChild
         /\ Returned(x).raw = x.raw /\ Returned(x).pipes = x.pipes
         /\ Returned(x).status = x.status
         /\ Returned(x).into = IF x.shared THEN "dangling" ELSE x.into
         /\ Returned(x).ending = x.ending /\ Returned(x).observed = NoKind /\ ~Returned(x).shared
<1>1. Called \in Locals /\ "idle" \in Points
  BY CalledTyped DEF Points, Statuses
<1>2. Called.hold = "no" /\ Called.child = NoChild /\ Called.observed = NoKind
  BY DEF Called
<1>3. ~Called.shared
  BY Zenon DEF Called
<1> DEFINE i == IF x.shared THEN "dangling" ELSE x.into
<1>4. i \in Kinds \cup {"old", "dangling"}
  BY DEF Locals
<1>5. Returned(x) = [Called EXCEPT !.pc = "idle", !.status = x.status, !.into = i,
                                   !.ending = x.ending, !.raw = x.raw, !.pipes = x.pipes]
  BY DEF Returned
<1> HIDE DEF i
<1>6. \A y \in Locals : [y EXCEPT !.pc = "idle", !.status = x.status, !.into = i,
                          !.ending = x.ending, !.raw = x.raw, !.pipes = x.pipes] \in Locals
  BY <1>1, <1>4 DEF Locals
<1>7. \A y \in Locals : LET z == [y EXCEPT !.pc = "idle", !.status = x.status, !.into = i,
                          !.ending = x.ending, !.raw = x.raw, !.pipes = x.pipes]
                        IN z.pc = "idle" /\ z.hold = y.hold /\ z.child = y.child /\ z.raw = x.raw
                           /\ z.pipes = x.pipes /\ z.status = x.status /\ z.into = i
                           /\ z.ending = x.ending /\ z.observed = y.observed /\ z.shared = y.shared
  BY DEF Locals
<1>. QED
  <2> DEFINE z == Returned(x)
  <2>1. z \in Locals
    BY <1>1, <1>5, <1>6
  <2>2. /\ z.pc = "idle" /\ z.hold = Called.hold /\ z.child = Called.child /\ z.raw = x.raw
        /\ z.pipes = x.pipes /\ z.status = x.status /\ z.into = i
        /\ z.ending = x.ending /\ z.observed = Called.observed /\ z.shared = Called.shared
    BY <1>1, <1>5, <1>7
  <2> HIDE DEF z
  <2>3. z.hold = "no" /\ z.child = NoChild /\ z.observed = NoKind /\ ~z.shared
    BY <1>2, <1>3, <2>2
  <2>4. z.into = IF x.shared THEN "dangling" ELSE x.into
    BY <2>2 DEF i
  <2>. QED
    BY <2>1, <2>2, <2>3, <2>4, Zenon DEF z

\* A call that ends keeps the queue in order.
LEMMA LeaveKeeps ==
  ASSUME QInv, NEW r \in Runners, Leave(r)
  PROVE  QInv'
<1>1. run[r] \in Locals /\ run[r].pc = "leaving"
  BY DEF QInv, TypeOK, Leave, At
<1>2. /\ run' \in [Runners -> Locals] /\ run'[r].pc \in {"cleaning", "idle"}
      /\ \A q \in Runners \ {r} : run'[q] = run[q]
  <2>1. CASE run[r].child # NoChild
    <3>1. run' = [run EXCEPT ![r] = [run[r] EXCEPT !.pc = "cleaning"]]
      BY <2>1 DEF Leave, Goto
    <3>2. [run[r] EXCEPT !.pc = "cleaning"] \in Locals /\ [run[r] EXCEPT !.pc = "cleaning"].pc = "cleaning"
      BY <1>1 DEF Locals, Points
    <3>. QED
      BY <3>1, <3>2 DEF QInv, TypeOK
  <2>2. CASE run[r].child = NoChild
    <3>1. run' = [run EXCEPT ![r] = Returned(run[r])]
      BY <2>2 DEF Leave, Returned
    <3>. QED
      BY <1>1, <3>1, ReturnedTyped DEF QInv, TypeOK
  <2>. QED
    BY <2>1, <2>2
<1>3. HasChild' /\ procs' = procs
  BY <1>2 DEF QInv, HasChild, Owning, Leave
<1>4. gate' = gate \/ \E safe \in BOOLEAN : gate' = Release(gate, safe)
  BY DEF Leave
<1>5. QueueOK' /\ gate' \in Gates
  <2>1. CASE gate' = gate
    BY <1>1, <1>2, <2>1 DEF QInv, TypeOK, QueueOK, At, Queued, OneEach
  <2>2. CASE \E safe \in BOOLEAN : gate' = Release(gate, safe)
    BY <1>1, <1>2, <2>2, ReleaseKeepsQueue
  <2>. QED
    BY <1>4, <2>1, <2>2
<1>. QED
  BY <1>2, <1>3, <1>5 DEF QInv, TypeOK

\* A process that ends changes no runner.
LEMMA EndKeeps ==
  ASSUME QInv, NEW p \in Pids, End(p)
  PROVE  QInv'
  BY DEF QInv, TypeOK, HasChild, QueueOK, Queued, OneEach, At, End, Processes, Kinds

\* A step is calm, one of four that touch the gate, or one of the host.
LEMMA StepKinds ==
  ASSUME Next
  PROVE  \/ \E r \in Runners :
              Calm(r) \/ AcquireGate(r) \/ Answered(r) \/ ReleaseSafely(r) \/ Leave(r)
         \/ \E p \in Pids : End(p)
  BY DEF Next, Step, Calm

\* Every step keeps the queue in order.
LEMMA NextKeeps ==
  ASSUME QInv, [Next]_vars
  PROVE  QInv'
<1>1. CASE Next
  <2>1. ASSUME NEW r \in Runners, Calm(r) PROVE QInv'
    BY <2>1, CalmIsCalm, CalmKeepsQueue DEF QInv
  <2>. QED
    BY <1>1, <2>1, StepKinds, AcquireKeeps, AnsweredKeeps, ReleaseSafelyKeeps, LeaveKeeps, EndKeeps
<1>2. CASE UNCHANGED vars
  BY <1>2 DEF QInv, TypeOK, HasChild, QueueOK, Queued, OneEach, At, vars
<1>. QED
  BY <1>1, <1>2

\* The queue and the locals keep their shape, whatever is aborted where.
THEOREM QueueHolds == Spec => []QInv
<1>. QED
  BY InitQueue, NextKeeps, PTL DEF Spec

\* The type invariant of the runner (Runner_Gate, Run).
THEOREM TypeCorrect == Spec => []TypeOK
<1>1. QInv => TypeOK
  BY DEF QInv
<1>. QED
  BY <1>1, QueueHolds, PTL

-----------------------------------------------------------------------------
(* The gate.  A caller holds it from the grant of the entry, or with Held   *)
(* and not yet released; the raw pipe and the spawn lie within.             *)

\* The locals x of a call claim the gate.
Claims(x) == x.hold # "no" /\ x.pc # "released"

Holds(r) == gate.answer[r] = "granted" \/ Claims(run[r])

OneHolder ==
  \A r \in Runners : Holds(r) => gate.busy /\ \A q \in Runners : Holds(q) => q = r

Setup == {"opening", "converting", "preparing", "spawning", "releasing", "marked"}

HoldFollows ==
  \A r \in Runners :
    /\ run[r].pc \in Setup => run[r].hold # "no"
    /\ run[r].raw => run[r].pc \in {"converting", "discarding"} /\ run[r].hold # "no"

EInv == QInv /\ OneHolder /\ HoldFollows /\ NoForeignDescriptors

\* The gate has no holder at the start.
LEMMA InitExclusive == Init => EInv
<1> SUFFICES ASSUME Init PROVE EInv
  OBVIOUS
<1>1. \A r \in Runners : run[r] = [Called EXCEPT !.pc = "idle"]
  BY DEF Init
<1>2. \A r \in Runners : run[r].hold = "no" /\ run[r].pc = "idle" /\ run[r].raw = FALSE
  BY <1>1, Zenon DEF Called
<1>3. OneHolder
  BY <1>2 DEF Init, OneHolder, Holds, Claims
<1>4. HoldFollows
  BY <1>2 DEF HoldFollows, Setup
<1>5. NoForeignDescriptors
  BY DEF Init, Free, NoForeignDescriptors
<1>. QED
  BY <1>3, <1>4, <1>5, InitQueue DEF EInv

\* A calm step makes nobody a holder but the head of a queue nobody holds up.
LEMMA CalmKeepsHolder ==
  ASSUME EInv, NEW r \in Runners, CalmStep(r), Claims(run'[r]) => Claims(run[r])
  PROVE  OneHolder'
<1>1. gate.answer[r] = "none" /\ gate'.answer[r] = "none"
  BY DEF EInv, QInv, QueueOK, CalmStep, Serves, At
<1>2. Holds(r)' => Holds(r)
  BY <1>1 DEF CalmStep, Holds
<1>3. \A q \in Runners : Holds(q)' =>
        Holds(q) \/ (gate'.answer[q] = "granted" /\ gate.answer[q] # "granted")
  <2> TAKE q \in Runners
  <2>1. CASE q = r
    BY <1>1, <2>1 DEF CalmStep, Holds
  <2>2. CASE q # r
    BY <2>2 DEF CalmStep, Holds
  <2>. QED
    BY <2>1, <2>2
<1>4. \A q \in Runners : Holds(q) => gate.busy /\ \A p \in Runners : Holds(p) => p = q
  BY DEF EInv, OneHolder
<1>5. \A q \in Runners :
        gate'.answer[q] = "granted" /\ gate.answer[q] # "granted" =>
          /\ ~gate.busy /\ gate'.busy
          /\ \A p \in Runners : gate'.answer[p] = "granted" /\ gate.answer[p] # "granted" => p = q
  BY DEF CalmStep, Serves
<1>6. gate.busy => gate'.busy
  BY DEF CalmStep, Serves
<1>. QED
  BY <1>3, <1>4, <1>5, <1>6 DEF OneHolder

\* What a calm step does to the locals that HoldFollows and the children are about.
LEMMA CalmKeepsHold ==
  ASSUME EInv, "released" \notin AbortPoints, NEW r \in Runners, Calm(r), CalmStep(r), TypeOK'
  PROVE  HoldFollows' /\ (Claims(run'[r]) => Claims(run[r]))
<1>1. /\ run[r].pc \in Setup => run[r].hold # "no"
      /\ run[r].raw => run[r].pc \in {"converting", "discarding"} /\ run[r].hold # "no"
  BY DEF EInv, HoldFollows
<1>2. run \in [Runners -> Locals]
  BY DEF EInv, QInv, TypeOK
<1>3. /\ Claims(run'[r]) => Claims(run[r])
      /\ run'[r].pc \in Setup => run'[r].hold # "no"
      /\ run'[r].raw => run'[r].pc \in {"converting", "discarding"} /\ run'[r].hold # "no"
  <2> USE <1>1, <1>2 DEF Claims, Setup, Locals, At, Goto, Fail
  <2>1. CASE Decline(r)
    BY <2>1 DEF Decline, Called
  <2>2. CASE Call(r)
    BY <2>2 DEF Call, Called
  <2>3. CASE OpenRaw(r)
    BY <2>3 DEF OpenRaw
  <2>4. CASE Convert(r)
    BY <2>4 DEF Convert
  <2>5. CASE Prepare(r)
    BY <2>5 DEF Prepare
  <2>6. CASE Spawn(r)
    BY <2>6 DEF Spawn
  <2>7. CASE ClearHeld(r)
    BY <2>7 DEF ClearHeld
  <2>8. CASE Discard(r)
    BY <2>8 DEF Discard
  <2>9. CASE Classify(r)
    BY <2>9 DEF Classify
  <2>10. CASE DeadlinePasses(r)
    BY <2>10 DEF DeadlinePasses, Watching
  <2>11. CASE TimeOut(r)
    BY <2>11 DEF TimeOut, Watching
  <2>12. CASE Watch(r)
    BY <2>12 DEF Watch
  <2>13. CASE ReadStreams(r)
    BY <2>13 DEF ReadStreams
  <2>14. CASE Decide(r)
    BY <2>14 DEF Decide
  <2>15. CASE CheckChild(r)
    BY <2>15 DEF CheckChild
  <2>16. CASE ClosePipes(r)
    BY <2>16 DEF ClosePipes
  <2>17. CASE KillGroup(r)
    BY <2>17 DEF KillGroup, FailStop
  <2>18. CASE Confirm(r)
    BY <2>18 DEF Confirm, FailStop
  <2>19. CASE Await(r)
    BY <2>19 DEF Await, FailStop
  <2>20. CASE Reap(r)
    BY <2>20 DEF Reap, FailStop
  <2>21. CASE Swap(r)
    BY <2>21 DEF Swap
  <2>22. CASE Abort(r)
    BY <2>22, AbortAssumption DEF Abort, Abortable, Deferred, Points, InSetup
  <2>23. CASE Commit(r)
    BY <2>23 DEF Commit
  <2>24. CASE Restore(r)
    BY <2>24 DEF Restore
  <2>25. CASE MarkSafe(r)
    BY <2>25 DEF MarkSafe
  <2>. QED
    BY <2>1, <2>2, <2>3, <2>4, <2>5, <2>6, <2>7, <2>8, <2>9, <2>10, <2>11, <2>12, <2>13, <2>14,
      <2>15, <2>16, <2>17, <2>18, <2>19, <2>20, <2>21, <2>22, <2>23, <2>24, <2>25 DEF Calm
<1>. QED
  BY <1>3 DEF CalmStep, EInv, HoldFollows

\* Whoever spawns holds the gate, and no one else has a raw pipe.
LEMMA CalmKeepsForeign ==
  ASSUME EInv, NEW r \in Runners, Calm(r)
  PROVE  NoForeignDescriptors'
<1>1. procs \in [Pids -> Processes] /\ \A p \in Pids : procs[p].inherits = {}
  BY DEF EInv, QInv, TypeOK, NoForeignDescriptors
<1>2. CASE Spawn(r)
  <2>1. run[r].pc = "spawning" /\ Holds(r)
    BY <1>2 DEF Spawn, At, EInv, HoldFollows, Setup, Holds, Claims
  <2>2. \A q \in Runners : ~run[q].raw
    BY <2>1 DEF EInv, HoldFollows, OneHolder, Holds, Claims
  <2>3. {q \in Runners : run[q].raw} = {}
    BY <2>2
  <2>. QED
    BY <1>1, <1>2, <2>3 DEF Spawn, NoForeignDescriptors
<1>3. CASE KillGroup(r)
  BY <1>1, <1>3 DEF KillGroup, NoForeignDescriptors, Processes
<1>4. CASE Reap(r)
  BY <1>1, <1>4 DEF Reap, Free, NoForeignDescriptors, Processes
<1>5. CASE procs' = procs
  BY <1>1, <1>5 DEF NoForeignDescriptors
<1>. QED
  BY <1>2, <1>3, <1>4, <1>5
  DEF Calm, Decline, Call, OpenRaw, Convert, Prepare, ClearHeld, Discard, Classify,
      DeadlinePasses, TimeOut, Watch, ReadStreams, Decide, CheckChild, ClosePipes,
      Confirm, Await, MarkSafe, Swap, Commit, Restore, Abort

\* Asking for the gate gives it to nobody while it is held.
LEMMA AcquireExcludes ==
  ASSUME EInv, NEW r \in Runners, AcquireGate(r)
  PROVE  OneHolder' /\ HoldFollows' /\ NoForeignDescriptors'
<1>1. gate \in Gates /\ OneEach(gate) /\ ~Queued(gate, r)
  BY DEF EInv, QInv, TypeOK, QueueOK, AcquireGate, At
<1>2. PICK d \in Gates : d.busy = gate.busy /\ d.answer = gate.answer /\ Serves(d, gate')
  BY <1>1, AcquireServes DEF AcquireGate
<1>3. /\ run[r].pc = "acquiring" /\ run'[r].pc = "waiting"
      /\ \A q \in Runners : run'[q].hold = run[q].hold /\ run'[q].raw = run[q].raw
      /\ \A q \in Runners \ {r} : run'[q] = run[q]
  BY DEF EInv, QInv, TypeOK, AcquireGate, Goto, At, Locals
<1>4. OneHolder'
  <2>1. \A q \in Runners : Holds(q)' =>
          Holds(q) \/ (gate'.answer[q] = "granted" /\ gate.answer[q] # "granted")
    BY <1>3 DEF Holds, Claims
  <2>2. \A q \in Runners : Holds(q) => gate.busy /\ \A p \in Runners : Holds(p) => p = q
    BY DEF EInv, OneHolder
  <2>3. \A q \in Runners :
          gate'.answer[q] = "granted" /\ gate.answer[q] # "granted" =>
            /\ ~gate.busy /\ gate'.busy
            /\ \A p \in Runners : gate'.answer[p] = "granted" /\ gate.answer[p] # "granted" => p = q
    BY <1>2 DEF Serves
  <2>4. gate.busy => gate'.busy
    BY <1>2 DEF Serves
  <2>. QED
    BY <2>1, <2>2, <2>3, <2>4 DEF OneHolder
<1>5. HoldFollows'
  BY <1>3 DEF EInv, HoldFollows, Setup
<1>6. NoForeignDescriptors'
  BY DEF EInv, NoForeignDescriptors, AcquireGate
<1>. QED
  BY <1>4, <1>5, <1>6

\* The holder stays the holder when it has read its answer.
LEMMA AnsweredExcludes ==
  ASSUME EInv, NEW r \in Runners, Answered(r)
  PROVE  OneHolder' /\ HoldFollows' /\ NoForeignDescriptors'
<1>1. /\ \A q \in Runners \ {r} : run'[q] = run[q] /\ gate'.answer[q] = gate.answer[q]
      /\ gate'.busy = gate.busy /\ gate'.answer[r] = "none"
      /\ run'[r].raw = run[r].raw
      /\ \/ gate.answer[r] = "granted" /\ run'[r].hold = "unsafe" /\ run'[r].pc = "opening"
         \/ run'[r].hold = run[r].hold /\ run'[r].pc = "leaving"
  BY DEF EInv, QInv, TypeOK, Answered, Fail, Locals, Gates
<1>2. run[r].pc = "waiting"
  BY DEF Answered, At
<1>3. \A q \in Runners : Holds(q)' => Holds(q)
  <2> TAKE q \in Runners
  <2>1. CASE q = r
    BY <1>1, <1>2, <2>1 DEF Holds, Claims
  <2>2. CASE q # r
    BY <1>1, <2>2 DEF Holds
  <2>. QED
    BY <2>1, <2>2
<1>4. OneHolder'
  BY <1>1, <1>3 DEF EInv, OneHolder
<1>5. HoldFollows'
  BY <1>1, <1>2 DEF EInv, HoldFollows, Setup
<1>6. NoForeignDescriptors'
  BY DEF EInv, NoForeignDescriptors, Answered
<1>. QED
  BY <1>4, <1>5, <1>6

\* The holder releases: it holds no more, and the next in the queue may.
LEMMA ReleaseExcludes ==
  ASSUME EInv, NEW r \in Runners, NEW safe \in BOOLEAN, gate' = Release(gate, safe),
         Claims(run[r]), run[r].pc # "waiting", ~Claims(run'[r]),
         \A q \in Runners \ {r} : run'[q] = run[q]
  PROVE  OneHolder'
<1>1. gate \in Gates /\ OneEach(gate) /\ ~Queued(gate, r) /\ gate.answer[r] = "none"
  BY DEF EInv, QInv, TypeOK, QueueOK, At
<1> DEFINE f == [gate EXCEPT !.busy = FALSE]
<1>2. Serves(f, gate') /\ f.answer = gate.answer /\ f.queue = gate.queue
  BY <1>1, ReleaseServes DEF Gates
<1> HIDE DEF f
<1>3. \A q \in Runners : Holds(q) => q = r
  BY DEF EInv, OneHolder, Holds
<1>4. gate'.answer[r] = "none"
  BY <1>1, <1>2 DEF Serves, Queued
<1>5. \A q \in Runners : Holds(q)' => gate'.answer[q] = "granted" /\ gate.answer[q] # "granted"
  <2> TAKE q \in Runners
  <2>1. CASE q = r
    BY <1>4, <2>1 DEF Holds
  <2>2. CASE q # r
    BY <1>3, <2>2 DEF Holds
  <2>. QED
    BY <2>1, <2>2
<1>6. \A q \in Runners :
        gate'.answer[q] = "granted" /\ gate.answer[q] # "granted" =>
          /\ gate'.busy
          /\ \A p \in Runners : gate'.answer[p] = "granted" /\ gate.answer[p] # "granted" => p = q
  BY <1>2 DEF Serves
<1>. QED
  BY <1>5, <1>6 DEF OneHolder

\* Releasing the gate leaves at most one holder.
LEMMA ReleaseSafelyExcludes ==
  ASSUME EInv, NEW r \in Runners, ReleaseSafely(r)
  PROVE  OneHolder' /\ HoldFollows' /\ NoForeignDescriptors'
<1>1. run[r].pc = "marked" /\ run[r].hold # "no" /\ ~run[r].raw
  BY DEF ReleaseSafely, At, EInv, HoldFollows, Setup
<1>2. /\ run'[r].pc = "released" /\ run'[r].raw = run[r].raw
      /\ \A q \in Runners \ {r} : run'[q] = run[q]
      /\ gate' = Release(gate, TRUE)
  BY <1>1 DEF ReleaseSafely, Goto, EInv, QInv, TypeOK, Locals
<1>3. OneHolder'
  BY <1>1, <1>2, ReleaseExcludes DEF Claims
<1>4. HoldFollows'
  BY <1>1, <1>2 DEF EInv, HoldFollows, Setup
<1>5. NoForeignDescriptors'
  BY DEF EInv, NoForeignDescriptors, ReleaseSafely
<1>. QED
  BY <1>3, <1>4, <1>5

\* A call that ends leaves at most one holder.
LEMMA LeaveExcludes ==
  ASSUME EInv, NEW r \in Runners, Leave(r)
  PROVE  OneHolder' /\ HoldFollows' /\ NoForeignDescriptors'
<1>1. run[r].pc = "leaving" /\ ~run[r].raw /\ run[r] \in Locals
      /\ run[r].hold \in {"no", "unsafe", "safe"}
  BY DEF Leave, At, EInv, HoldFollows, QInv, TypeOK, Locals
<1>2. NoForeignDescriptors'
  BY DEF EInv, NoForeignDescriptors, Leave
<1>3. CASE run[r].child # NoChild
  <2>1. /\ gate' = gate /\ run'[r].pc = "cleaning" /\ run'[r].hold = run[r].hold
        /\ run'[r].raw = run[r].raw /\ \A q \in Runners \ {r} : run'[q] = run[q]
    BY <1>3 DEF Leave, Goto, EInv, QInv, TypeOK, Locals
  <2>2. \A q \in Runners : Holds(q)' <=> Holds(q)
    <3> TAKE q \in Runners
    <3>1. CASE q = r
      BY <1>1, <2>1, <3>1 DEF Holds, Claims
    <3>2. CASE q # r
      BY <2>1, <3>2 DEF Holds
    <3>. QED
      BY <3>1, <3>2
  <2>3. OneHolder'
    BY <2>1, <2>2 DEF EInv, OneHolder
  <2>4. HoldFollows'
    BY <1>1, <2>1 DEF EInv, HoldFollows, Setup
  <2>. QED
    BY <1>2, <2>3, <2>4
<1>4. CASE run[r].child = NoChild
  <2>1. run' = [run EXCEPT ![r] = Returned(run[r])]
    BY <1>4 DEF Leave, Returned
  <2>2. /\ run'[r].pc = "idle" /\ run'[r].hold = "no" /\ run'[r].raw = run[r].raw
        /\ \A q \in Runners \ {r} : run'[q] = run[q]
    BY <1>1, <2>1, ReturnedTyped DEF EInv, QInv, TypeOK
  <2>3. HoldFollows'
    BY <1>1, <2>2 DEF EInv, HoldFollows, Setup
  <2>4. CASE run[r].hold = "no"
    <3>1. gate' = gate
      BY <1>4, <2>4 DEF Leave
    <3>2. \A q \in Runners : Holds(q)' => Holds(q)
      <4> TAKE q \in Runners
      <4>1. CASE q = r
        BY <2>2, <3>1, <4>1 DEF Holds, Claims
      <4>2. CASE q # r
        BY <2>2, <3>1, <4>2 DEF Holds
      <4>. QED
        BY <4>1, <4>2
    <3>3. OneHolder'
      BY <3>1, <3>2 DEF EInv, OneHolder
    <3>. QED
      BY <1>2, <2>3, <3>3
  <2>5. CASE run[r].hold # "no"
    <3>1. PICK safe \in BOOLEAN : gate' = Release(gate, safe)
      BY <1>4, <2>5 DEF Leave
    <3>2. OneHolder'
      BY <1>1, <2>2, <2>5, <3>1, ReleaseExcludes DEF Claims
    <3>. QED
      BY <1>2, <2>3, <3>2
  <2>. QED
    BY <1>1, <2>4, <2>5
<1>. QED
  BY <1>3, <1>4

\* Every step keeps the gate exclusive, unless a call can be aborted as it releases it.
LEMMA NextExcludes ==
  ASSUME EInv, [Next]_vars, "released" \notin AbortPoints
  PROVE  EInv'
<1>1. QInv'
  BY NextKeeps DEF EInv
<1>2. ASSUME NEW r \in Runners, Calm(r)
      PROVE  OneHolder' /\ HoldFollows' /\ NoForeignDescriptors'
  <2>1. CalmStep(r) /\ TypeOK'
    BY <1>2, CalmIsCalm DEF EInv
  <2>. QED
    BY <1>2, <2>1, CalmKeepsHolder, CalmKeepsHold, CalmKeepsForeign
<1>3. ASSUME NEW p \in Pids, End(p)
      PROVE  OneHolder' /\ HoldFollows' /\ NoForeignDescriptors'
  BY <1>3 DEF EInv, QInv, TypeOK, OneHolder, HoldFollows, NoForeignDescriptors, Holds, End,
    Processes
<1>4. CASE UNCHANGED vars
  <2>1. gate' = gate /\ run' = run /\ procs' = procs
    BY <1>4 DEF vars
  <2>2. OneHolder'
    BY <2>1 DEF EInv, OneHolder, Holds
  <2>3. HoldFollows'
    BY <2>1 DEF EInv, HoldFollows
  <2>4. NoForeignDescriptors'
    BY <2>1 DEF EInv, NoForeignDescriptors
  <2>. QED
    BY <1>1, <2>2, <2>3, <2>4 DEF EInv
<1>. QED
  BY <1>1, <1>2, <1>3, <1>4, StepKinds, AcquireExcludes, AnsweredExcludes,
     ReleaseSafelyExcludes, LeaveExcludes DEF EInv

\* Nothing is spawned while another call has a raw descriptor, for any number
\* of callers, as long as no abort falls between the protected call of
\* Release_Safely and the clearing of Held.
THEOREM SpawnsAlone ==
  ASSUME "released" \notin AbortPoints
  PROVE  Spec => []NoForeignDescriptors
<1>1. EInv => NoForeignDescriptors
  BY DEF EInv
<1>2. EInv /\ [Next]_vars => EInv'
  BY NextExcludes
<1>. QED
  BY <1>1, <1>2, InitExclusive, PTL DEF Spec

-----------------------------------------------------------------------------
(* The children.  A call that has not stopped owns the identifier it keeps. *)

ChildIsOwn ==
  \A r \in Runners : run[r].pc # "stopped" /\ run[r].child # NoChild =>
    run[r].child \in Pids /\ procs[run[r].child].owner = r

KInv == QInv /\ ChildIsOwn /\ KillsOwnGroup

\* No runner has a child at the start.
LEMMA InitOwns == Init => KInv
<1> SUFFICES ASSUME Init PROVE KInv
  OBVIOUS
<1>1. \A r \in Runners : run[r] = [Called EXCEPT !.pc = "idle"]
  BY DEF Init
<1>2. \A r \in Runners : run[r].child = NoChild
  BY <1>1 DEF Called
<1>. QED
  BY <1>2, InitQueue DEF KInv, ChildIsOwn, KillsOwnGroup, Init, Free

\* A step of a call signals no group but that of its own child.
LEMMA CallOwns ==
  ASSUME KInv, NEW r \in Runners, Calm(r) \/ AcquireGate(r) \/ Answered(r) \/ ReleaseSafely(r) \/ Leave(r)
  PROVE  ChildIsOwn' /\ KillsOwnGroup'
<1>1. /\ run \in [Runners -> Locals] /\ procs \in [Pids -> Processes]
      /\ \A q \in Runners : run[q].pc # "stopped" /\ run[q].child # NoChild =>
           run[q].child \in Pids /\ procs[run[q].child].owner = q
      /\ \A p \in Pids : procs[p].killer \in {Nobody, procs[p].owner}
      /\ run[r].pc \in Owning => run[r].child \in Pids
  BY DEF KInv, QInv, TypeOK, ChildIsOwn, KillsOwnGroup, HasChild
<1>2. CASE Spawn(r)
  BY <1>1, <1>2, NobodyAssumption, NoChildAssumption
  DEF Spawn, Fail, Goto, At, Free, Locals, Processes, ChildIsOwn, KillsOwnGroup
<1>3. CASE KillGroup(r)
  BY <1>1, <1>3, NoChildAssumption
  DEF KillGroup, FailStop, Goto, At, Owning, Locals, Processes, ChildIsOwn, KillsOwnGroup
<1>4. CASE Reap(r)
  <2>1. run[r].pc = "reaping" /\ run[r].child \in Pids
    BY <1>1, <1>4 DEF Reap, At, Owning
  <2>2. run'[r].child = NoChild \/ run'[r].pc = "stopped"
    BY <1>1, <1>4 DEF Reap, FailStop, Goto, Locals
  <2>3. \A q \in Runners \ {r} : run'[q] = run[q]
    BY <1>1, <1>4 DEF Reap, FailStop, Goto
  <2>4. procs' = procs \/ procs' = [procs EXCEPT ![run[r].child] = Free]
    BY <1>4 DEF Reap
  <2>5. \A q \in Runners \ {r} :
          run[q].pc # "stopped" /\ run[q].child # NoChild => run[q].child # run[r].child
    BY <1>1, <2>1, NoChildAssumption
  <2>6. ChildIsOwn'
    BY <1>1, <2>2, <2>3, <2>4, <2>5 DEF ChildIsOwn
  <2>7. KillsOwnGroup'
    BY <1>1, <2>4 DEF KillsOwnGroup, Free
  <2>. QED
    BY <2>6, <2>7
<1>5. CASE procs' = procs /\ run[r].pc # "stopped" /\ run'[r].child \in {run[r].child, NoChild}
           /\ \A q \in Runners \ {r} : run'[q] = run[q]
  BY <1>1, <1>5 DEF ChildIsOwn, KillsOwnGroup
<1>6. CASE Leave(r)
  <2>1. CASE run[r].child # NoChild
    BY <1>1, <1>5, <1>6, <2>1 DEF Leave, Goto, At, Locals
  <2>2. CASE run[r].child = NoChild
    <3>1. run' = [run EXCEPT ![r] = Returned(run[r])] /\ procs' = procs /\ run[r].pc # "stopped"
      BY <1>6, <2>2 DEF Leave, Returned, At
    <3>. QED
      BY <1>1, <1>5, <3>1, ReturnedTyped
  <2>. QED
    BY <2>1, <2>2
<1>7. CASE Decline(r)
  BY <1>1, <1>5, <1>7 DEF Decline, Called, At, Goto, Fail, Locals
<1>8. CASE Call(r)
  BY <1>1, <1>5, <1>8 DEF Call, Called, At, Goto, Fail, Locals
<1>9. CASE OpenRaw(r)
  BY <1>1, <1>5, <1>9 DEF OpenRaw, At, Goto, Fail, Locals
<1>10. CASE Convert(r)
  BY <1>1, <1>5, <1>10 DEF Convert, At, Goto, Fail, Locals
<1>11. CASE Prepare(r)
  BY <1>1, <1>5, <1>11 DEF Prepare, At, Goto, Fail, Locals
<1>12. CASE ClearHeld(r)
  BY <1>1, <1>5, <1>12 DEF ClearHeld, At, Goto, Fail, Locals
<1>13. CASE Discard(r)
  BY <1>1, <1>5, <1>13 DEF Discard, At, Goto, Fail, Locals
<1>14. CASE Classify(r)
  BY <1>1, <1>5, <1>14 DEF Classify, At, Goto, Fail, Locals
<1>15. CASE DeadlinePasses(r)
  BY <1>1, <1>5, <1>15 DEF DeadlinePasses, Watching, At, Goto, Fail, Locals
<1>16. CASE TimeOut(r)
  BY <1>1, <1>5, <1>16 DEF TimeOut, Watching, At, Goto, Fail, Locals
<1>17. CASE Watch(r)
  BY <1>1, <1>5, <1>17 DEF Watch, At, Goto, Fail, Locals
<1>18. CASE ReadStreams(r)
  BY <1>1, <1>5, <1>18 DEF ReadStreams, At, Goto, Fail, Locals
<1>19. CASE Decide(r)
  BY <1>1, <1>5, <1>19 DEF Decide, At, Goto, Fail, Locals
<1>20. CASE CheckChild(r)
  BY <1>1, <1>5, <1>20 DEF CheckChild, At, Goto, Fail, Locals
<1>21. CASE ClosePipes(r)
  BY <1>1, <1>5, <1>21 DEF ClosePipes, At, Goto, Fail, Locals
<1>22. CASE Confirm(r)
  BY <1>1, <1>5, <1>22 DEF Confirm, FailStop, At, Goto, Fail, Locals
<1>23. CASE Await(r)
  BY <1>1, <1>5, <1>23 DEF Await, FailStop, At, Goto, Fail, Locals
<1>24. CASE Swap(r)
  BY <1>1, <1>5, <1>24 DEF Swap, At, Goto, Fail, Locals
<1>25. CASE Abort(r)
  BY <1>1, <1>5, <1>25, AbortAssumption
  DEF Abort, Abortable, Deferred, Points, InSetup, At, Goto, Fail, Locals
<1>26. CASE AcquireGate(r)
  BY <1>1, <1>5, <1>26 DEF AcquireGate, At, Goto, Fail, Locals
<1>27. CASE Answered(r)
  BY <1>1, <1>5, <1>27 DEF Answered, At, Goto, Fail, Locals
<1>28. CASE ReleaseSafely(r)
  <2>1. run'[r].child = run[r].child
    BY <1>1, <1>28 DEF ReleaseSafely, Goto, Locals
  <2>. QED
    BY <1>1, <1>5, <1>28, <2>1 DEF ReleaseSafely, At, Goto
<1>29. CASE Commit(r)
  BY <1>1, <1>5, <1>29 DEF Commit, At, Goto, Fail, Locals
<1>30. CASE Restore(r)
  BY <1>1, <1>5, <1>30 DEF Restore, At, Goto, Fail, Locals
<1>31. CASE MarkSafe(r)
  BY <1>1, <1>5, <1>31 DEF MarkSafe, At, Goto, Fail, Locals
<1>. QED
  BY <1>2, <1>3, <1>4, <1>6, <1>7, <1>8, <1>9, <1>10, <1>11, <1>12, <1>13, <1>14, <1>15, <1>16,
    <1>17, <1>18, <1>19, <1>20, <1>21, <1>22, <1>23, <1>24, <1>25, <1>26, <1>27, <1>28, <1>29, <1>30,
    <1>31 DEF Calm

\* Every step leaves each child to its own runner.
LEMMA NextOwns ==
  ASSUME KInv, [Next]_vars
  PROVE  KInv'
<1>1. QInv'
  BY NextKeeps DEF KInv
<1>2. ASSUME NEW p \in Pids, End(p) PROVE ChildIsOwn' /\ KillsOwnGroup'
  BY <1>2 DEF KInv, QInv, TypeOK, ChildIsOwn, KillsOwnGroup, End, Processes
<1>3. CASE UNCHANGED vars
  <2>1. run' = run /\ procs' = procs
    BY <1>3 DEF vars
  <2>2. ChildIsOwn'
    BY <2>1 DEF KInv, ChildIsOwn
  <2>3. KillsOwnGroup'
    BY <2>1 DEF KInv, KillsOwnGroup
  <2>. QED
    BY <1>1, <2>2, <2>3 DEF KInv
<1>. QED
  BY <1>1, <1>2, <1>3, StepKinds, CallOwns DEF KInv

\* No call kills a group whose leader another call spawned, however the host
\* reuses identifiers and wherever calls are aborted (Resolve_Child).
THEOREM KillsAreOwn == Spec => []KillsOwnGroup
<1>1. KInv => KillsOwnGroup
  BY DEF KInv
<1>. QED
  BY <1>1, InitOwns, NextOwns, PTL DEF Spec

-----------------------------------------------------------------------------
(* What a call leaves behind and what it publishes. *)

Childless == {"idle", "acquiring", "waiting", "opening", "converting", "preparing",
              "spawning", "discarding", "publishing", "swapped", "leaving"}
Pipeless == {"idle", "acquiring", "waiting", "leaving", "killing", "confirming",
             "awaiting", "reaping", "publishing", "swapped"}
Resolving == {"cleaning", "killing", "confirming", "awaiting", "reaping"}

\* The locals x of a call agree with the point it has reached.
Sound(x) ==
  /\ x.pc \in Childless => x.child = NoChild
  /\ x.pc \in {"releasing", "marked", "released"} /\ x.status # "Ready_To_Run" => x.child = NoChild
  /\ x.pc \in Pipeless => x.pipes = 0
  /\ x.raw => x.pc \in {"converting", "discarding"}
  /\ x.pc = "idle" => x.hold = "no"
  /\ x.pc \in Resolving /\ x.status = "Ready_To_Run" => x.observed # NoKind
  /\ x.observed # NoKind => x.candidate = x.observed
  /\ x.pc = "publishing" => x.candidate = x.ending
  /\ x.shared => x.pc = "swapped"
  /\ x.pc = "swapped" \/ x.status = "Run_Completed" => x.into # "old"
  /\ x.into # "old" => /\ x.pc \in {"swapped", "cleaning", "leaving", "idle"}
                       /\ x.into = x.ending /\ x.child = NoChild /\ x.pipes = 0
                       /\ x.pc = "swapped" \/ x.status \in {"Run_Completed", "Aborted"}

\* A process in the table is the child its owner has in hand, or had when it stopped.
Owned ==
  \A r \in Runners, p \in Pids :
    procs[p].owner = r => run[r].child = p \/ run[r].pc = "stopped"

LInv == QInv /\ Owned /\ \A r \in Runners : Sound(run[r])

\* The invariant of a call holds at the start.
LEMMA InitSound == Init => LInv
<1> SUFFICES ASSUME Init PROVE LInv
  OBVIOUS
<1>1. Sound([Called EXCEPT !.pc = "idle"])
  <2> DEFINE x == [Called EXCEPT !.pc = "idle"]
  <2>1. /\ x.pc = "idle" /\ x.child = NoChild /\ x.pipes = 0 /\ x.hold = "no"
        /\ x.observed = NoKind /\ x.into = "old" /\ x.status = "Ready_To_Run"
    BY DEF Called
  <2>2. ~x.raw /\ ~x.shared
    BY Zenon DEF Called
  <2> HIDE DEF x
  <2>3. Sound(x)
    BY <2>1, <2>2 DEF Sound, Resolving, Childless, Pipeless, NoKind
  <2>. QED
    BY <2>3 DEF x
<1>2. \A r \in Runners : Sound(run[r])
  BY <1>1 DEF Init
<1>3. Owned
  BY NobodyAssumption DEF Owned, Init, Free
<1>. QED
  BY <1>2, <1>3, InitQueue DEF LInv

\* A step of a call keeps the invariant of that call.
LEMMA CallSound ==
  ASSUME LInv, NEW r \in Runners, Calm(r) \/ AcquireGate(r) \/ Answered(r) \/ ReleaseSafely(r) \/ Leave(r)
  PROVE  Sound(run'[r])
<1>1. run \in [Runners -> Locals] /\ run[r] \in Locals /\ Sound(run[r])
  BY DEF LInv, QInv, TypeOK
<1> USE <1>1 DEF Sound, Childless, Pipeless, Resolving, Locals, At, Goto, Fail, NoKind, Kinds
<1>2. CASE Decline(r)
  BY <1>2 DEF Decline, Called
<1>3. CASE Call(r)
  BY <1>3 DEF Call, Called
<1>4. CASE OpenRaw(r)
  BY <1>4 DEF OpenRaw
<1>5. CASE Convert(r)
  BY <1>5 DEF Convert
<1>6. CASE Prepare(r)
  BY <1>6 DEF Prepare
<1>7. CASE Spawn(r)
  BY <1>7 DEF Spawn
<1>8. CASE ClearHeld(r)
  BY <1>8 DEF ClearHeld
<1>9. CASE Discard(r)
  BY <1>9 DEF Discard
<1>10. CASE Classify(r)
  BY <1>10 DEF Classify
<1>11. CASE DeadlinePasses(r)
  BY <1>11 DEF DeadlinePasses, Watching
<1>12. CASE TimeOut(r)
  BY <1>12 DEF TimeOut, Watching
<1>13. CASE Watch(r)
  BY <1>13 DEF Watch
<1>14. CASE ReadStreams(r)
  BY <1>14 DEF ReadStreams
<1>15. CASE Decide(r)
  BY <1>15 DEF Decide
<1>16. CASE CheckChild(r)
  BY <1>16 DEF CheckChild
<1>17. CASE ClosePipes(r)
  BY <1>17 DEF ClosePipes
<1>18. CASE KillGroup(r)
  BY <1>18 DEF KillGroup, FailStop
<1>19. CASE Confirm(r)
  BY <1>19 DEF Confirm, FailStop
<1>20. CASE Await(r)
  BY <1>20 DEF Await, FailStop
<1>21. CASE Reap(r)
  BY <1>21 DEF Reap, FailStop, Matches, Terminal
<1>22. CASE Swap(r)
  BY <1>22 DEF Swap
<1>23. CASE Abort(r)
  BY <1>23, AbortAssumption DEF Abort, Abortable, Deferred, Points, InSetup
<1>24. CASE AcquireGate(r)
  BY <1>24 DEF AcquireGate
<1>25. CASE Answered(r)
  BY <1>25 DEF Answered
<1>26. CASE ReleaseSafely(r)
  <2>1. run[r].pc = "marked"
    BY <1>26 DEF ReleaseSafely
  <2>2. /\ run'[r].pc = "released" /\ run'[r].status = run[r].status /\ run'[r].child = run[r].child
        /\ run'[r].raw = run[r].raw /\ run'[r].observed = run[r].observed
        /\ run'[r].candidate = run[r].candidate /\ run'[r].into = run[r].into
        /\ run'[r].shared = run[r].shared
    BY <1>26 DEF ReleaseSafely
  <2>. QED
    BY <2>1, <2>2
<1>27. CASE Leave(r)
  <2>1. run[r].pc = "leaving" /\ run[r].child = NoChild
    BY <1>27 DEF Leave
  <2>2. run' = [run EXCEPT ![r] = Returned(run[r])]
    BY <1>27, <2>1 DEF Leave, Returned
  <2>3. run'[r] = Returned(run[r])
    BY <2>2
  <2>. QED
    BY <2>1, <2>3, ReturnedTyped
<1>28. CASE Commit(r)
  BY <1>28 DEF Commit
<1>29. CASE Restore(r)
  BY <1>29 DEF Restore
<1>30. CASE MarkSafe(r)
  BY <1>30 DEF MarkSafe
<1>. QED
  BY <1>2, <1>3, <1>4, <1>5, <1>6, <1>7, <1>8, <1>9, <1>10, <1>11, <1>12, <1>13, <1>14, <1>15,
    <1>16, <1>17, <1>18, <1>19, <1>20, <1>21, <1>22, <1>23, <1>24, <1>25, <1>26, <1>27, <1>28,
    <1>29, <1>30 DEF Calm

\* A step of a call touches no other call, and its processes stay owned.
LEMMA CallOwned ==
  ASSUME LInv, NEW r \in Runners, Calm(r) \/ AcquireGate(r) \/ Answered(r) \/ ReleaseSafely(r) \/ Leave(r)
  PROVE  Owned' /\ \A q \in Runners \ {r} : run'[q] = run[q]
<1>1. /\ run \in [Runners -> Locals] /\ procs \in [Pids -> Processes] /\ Owned /\ Sound(run[r])
      /\ run[r] \in Locals
  BY DEF LInv, QInv, TypeOK
<1>2. CASE Spawn(r)
  <2>1. run[r].pc = "spawning" /\ run[r].child = NoChild
    BY <1>1, <1>2 DEF Spawn, At, Sound, Childless
  <2>2. \A q \in Runners \ {r} : run'[q] = run[q]
    BY <1>1, <1>2 DEF Spawn, Goto, Fail
  <2>. QED
    BY <1>1, <1>2, <2>1, <2>2, NobodyAssumption, NoChildAssumption
    DEF Spawn, Goto, Fail, Free, Owned, Locals, Processes
<1>3. CASE KillGroup(r)
  BY <1>1, <1>3 DEF KillGroup, FailStop, Goto, At, Owned, Locals, Processes
<1>4. CASE Reap(r)
  <2>1. \A q \in Runners \ {r} : run'[q] = run[q]
    BY <1>1, <1>4 DEF Reap, FailStop, Goto
  <2>2. \/ procs' = procs /\ run'[r].pc = "stopped"
        \/ procs' = [procs EXCEPT ![run[r].child] = Free]
    BY <1>1, <1>4 DEF Reap, FailStop, Goto, Locals
  <2>3. run[r].pc = "reaping"
    BY <1>4 DEF Reap, At
  <2>4. CASE procs' = procs /\ run'[r].pc = "stopped"
    BY <1>1, <2>1, <2>4 DEF Owned
  <2>5. CASE procs' = [procs EXCEPT ![run[r].child] = Free]
    <3>1. \A p \in Pids : procs'[p].owner \in Runners =>
            p # run[r].child /\ procs'[p] = procs[p]
      BY <1>1, <2>5, NobodyAssumption DEF Free
    <3>. QED
      BY <1>1, <2>1, <2>3, <3>1 DEF Owned
  <2>. QED
    BY <2>1, <2>2, <2>4, <2>5
<1>5. CASE /\ procs' = procs /\ run[r].pc # "stopped"
           /\ run'[r].child = run[r].child \/ run[r].child = NoChild
           /\ \A q \in Runners \ {r} : run'[q] = run[q]
  BY <1>1, <1>5, NoChildAssumption DEF Owned
<1>6. CASE Leave(r)
  <2>1. run[r].child = NoChild
    BY <1>1, <1>6 DEF Leave, At, Sound, Childless
  <2>2. run' = [run EXCEPT ![r] = Returned(run[r])] /\ procs' = procs /\ run[r].pc # "stopped"
    BY <1>6, <2>1 DEF Leave, Returned, At
  <2>. QED
    BY <1>1, <1>5, <2>1, <2>2
<1>7. CASE OpenRaw(r)
  BY <1>1, <1>5, <1>7 DEF OpenRaw, At, Goto, Fail, Locals
<1>8. CASE Convert(r)
  BY <1>1, <1>5, <1>8 DEF Convert, At, Goto, Fail, Locals
<1>9. CASE Prepare(r)
  BY <1>1, <1>5, <1>9 DEF Prepare, At, Goto, Fail, Locals
<1>10. CASE ClearHeld(r)
  BY <1>1, <1>5, <1>10 DEF ClearHeld, At, Goto, Fail, Locals
<1>11. CASE Discard(r)
  BY <1>1, <1>5, <1>11 DEF Discard, At, Goto, Fail, Locals
<1>12. CASE Classify(r)
  BY <1>1, <1>5, <1>12 DEF Classify, At, Goto, Fail, Locals
<1>13. CASE DeadlinePasses(r)
  BY <1>1, <1>5, <1>13 DEF DeadlinePasses, Watching, At, Goto, Fail, Locals
<1>14. CASE TimeOut(r)
  BY <1>1, <1>5, <1>14 DEF TimeOut, Watching, At, Goto, Fail, Locals
<1>15. CASE Watch(r)
  BY <1>1, <1>5, <1>15 DEF Watch, At, Goto, Fail, Locals
<1>16. CASE ReadStreams(r)
  BY <1>1, <1>5, <1>16 DEF ReadStreams, At, Goto, Fail, Locals
<1>17. CASE Decide(r)
  BY <1>1, <1>5, <1>17 DEF Decide, At, Goto, Fail, Locals
<1>18. CASE CheckChild(r)
  BY <1>1, <1>5, <1>18 DEF CheckChild, At, Goto, Fail, Locals
<1>19. CASE ClosePipes(r)
  BY <1>1, <1>5, <1>19 DEF ClosePipes, At, Goto, Fail, Locals
<1>20. CASE Confirm(r)
  BY <1>1, <1>5, <1>20 DEF Confirm, FailStop, At, Goto, Fail, Locals
<1>21. CASE Await(r)
  BY <1>1, <1>5, <1>21 DEF Await, FailStop, At, Goto, Fail, Locals
<1>22. CASE Swap(r)
  BY <1>1, <1>5, <1>22 DEF Swap, At, Goto, Fail, Locals
<1>23. CASE Abort(r)
  BY <1>1, <1>5, <1>23, AbortAssumption
  DEF Abort, Abortable, Deferred, Points, InSetup, At, Goto, Fail, Locals
<1>24. CASE AcquireGate(r)
  BY <1>1, <1>5, <1>24 DEF AcquireGate, At, Goto, Fail, Locals
<1>25. CASE Answered(r)
  BY <1>1, <1>5, <1>25 DEF Answered, At, Goto, Fail, Locals
<1>26. CASE ReleaseSafely(r)
  BY <1>1, <1>5, <1>26 DEF ReleaseSafely, At, Goto, Fail, Locals
<1>27. CASE Decline(r)
  BY <1>1, <1>5, <1>27 DEF Decline, Sound, Childless, At, Goto, Fail, Locals
<1>28. CASE Call(r)
  BY <1>1, <1>5, <1>28 DEF Call, Sound, Childless, At, Goto, Fail, Locals
<1>29. CASE Commit(r)
  BY <1>1, <1>5, <1>29 DEF Commit, At, Goto, Fail, Locals
<1>30. CASE Restore(r)
  BY <1>1, <1>5, <1>30 DEF Restore, At, Goto, Fail, Locals
<1>31. CASE MarkSafe(r)
  BY <1>1, <1>5, <1>31 DEF MarkSafe, At, Goto, Fail, Locals
<1>. QED
  BY <1>2, <1>3, <1>4, <1>6, <1>7, <1>8, <1>9, <1>10, <1>11, <1>12, <1>13, <1>14, <1>15, <1>16,
    <1>17, <1>18, <1>19, <1>20, <1>21, <1>22, <1>23, <1>24, <1>25, <1>26, <1>27, <1>28, <1>29, <1>30,
    <1>31 DEF Calm

\* Every step keeps the invariant of all calls.
LEMMA NextSound ==
  ASSUME LInv, [Next]_vars
  PROVE  LInv'
<1>1. QInv'
  BY NextKeeps DEF LInv
<1>2. ASSUME NEW r \in Runners,
             Calm(r) \/ AcquireGate(r) \/ Answered(r) \/ ReleaseSafely(r) \/ Leave(r)
      PROVE  LInv'
  <2>1. Owned' /\ (\A q \in Runners \ {r} : run'[q] = run[q]) /\ Sound(run'[r])
    BY <1>2, CallOwned, CallSound
  <2>2. \A q \in Runners : Sound(run'[q])
    BY <2>1 DEF LInv
  <2>. QED
    BY <1>1, <2>1, <2>2 DEF LInv, Sound
<1>3. ASSUME NEW p \in Pids, End(p) PROVE LInv'
  <2>1. Owned'
    BY <1>3 DEF LInv, QInv, TypeOK, Owned, End, Processes
  <2>. QED
    BY <1>1, <1>3, <2>1 DEF LInv, Sound, End
<1>4. CASE UNCHANGED vars
  <2>1. run' = run /\ procs' = procs
    BY <1>4 DEF vars
  <2>2. Owned'
    BY <2>1 DEF LInv, Owned
  <2>. QED
    BY <1>1, <2>1, <2>2 DEF LInv, Sound
<1>. QED
  BY <1>2, <1>3, <1>4, StepKinds

\* The invariant of all calls holds in every reachable state.
LEMMA SoundHolds == Spec => []LInv
<1>. QED
  BY InitSound, NextSound, PTL DEF Spec

\* A call that has returned, or whose task was aborted, leaves no process, no
\* pipe and no claim on the gate (Resolve_Child, Fail_Setup, the guards).
THEOREM LeavesNothing == Spec => []NothingLeftBehind
<1>1. LInv => NothingLeftBehind
  <2> SUFFICES ASSUME LInv, NEW r \in Runners, At(r, "idle")
      PROVE  /\ \A p \in Pids : procs[p].owner # r
             /\ ~run[r].raw /\ run[r].pipes = 0 /\ run[r].hold = "no"
    BY DEF NothingLeftBehind
  <2>1. Sound(run[r]) /\ Owned /\ run[r].pc = "idle"
    BY DEF LInv, At
  <2>2. run[r].child = NoChild /\ ~run[r].raw /\ run[r].pipes = 0 /\ run[r].hold = "no"
    BY <2>1 DEF Sound, Childless, Pipeless
  <2>. QED
    BY <2>1, <2>2, NoChildAssumption DEF Owned
<1>. QED
  BY <1>1, SoundHolds, PTL

\* A published result says how the child, reaped by then, ended by itself, and
\* is published by a call that completes, or is aborted once the swap is done
\* (Check_Child, Resolve_Child, the swap in Run).
THEOREM PublishesTheTruth == Spec => []PublishedIsTrue
<1>1. LInv => PublishedIsTrue
  <2> SUFFICES ASSUME LInv, NEW r \in Runners
      PROVE  /\ run[r].into # "old" =>
                  /\ run[r].into = run[r].ending
                  /\ \A p \in Pids : procs[p].owner # r
             /\ At(r, "idle") =>
                  /\ run[r].status = "Run_Completed" => run[r].into # "old"
                  /\ run[r].into # "old" => run[r].status \in {"Run_Completed", "Aborted"}
    BY DEF PublishedIsTrue
  <2>1. Sound(run[r]) /\ Owned
    BY DEF LInv
  <2>2. run[r].into # "old" =>
          run[r].pc # "stopped" /\ run[r].into = run[r].ending /\ run[r].child = NoChild
    BY <2>1 DEF Sound
  <2>3. run[r].into # "old" => \A p \in Pids : procs[p].owner # r
    BY <2>1, <2>2, NoChildAssumption DEF Owned
  <2>. QED
    BY <2>1, <2>2, <2>3 DEF Sound, At
<1>. QED
  BY <1>1, SoundHolds, PTL

=============================================================================
