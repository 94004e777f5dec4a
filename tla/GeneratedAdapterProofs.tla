------------------------ MODULE GeneratedAdapterProofs ------------------------
(***************************************************************************)
(* What the emitted Builder guarantees its program, whatever the record    *)
(* and however deep operations on it are nested: a value is replaced only  *)
(* by one that the operation itself has decoded.  And what the emitted     *)
(* package is, whatever document and overlay the generator accepts: it     *)
(* names what is declared, and reads back what it writes.                  *)
(***************************************************************************)
EXTENDS GeneratedAdapter, SequenceTheorems, FiniteSetTheorems, WellFoundedInduction, TLAPS

\* A component holds a value of its range, or none yet.
Contents == (UNION {ranges[p] : p \in Positions}) \cup {Unset}

Operations == [at : Places, own : [Positions -> Contents], pos : Positions \cup {0}]

\* The Builder and its operations have their shape; an operation that goes to its commit has
\* decoded every component, and one that reads knows which.
Shape ==
  /\ published \in [Positions -> Contents] /\ candidate \in [Positions -> Contents]
  /\ frames \in Seq(Operations)
  /\ \A i \in 1..Len(frames) :
       /\ frames[i].at = "read" => frames[i].pos \in Positions
       /\ frames[i].at = "finish" => \A p \in Positions : frames[i].own[p] # Unset

\* Operation k is the one that began last of those that could begin: the later ones were
\* refused, and have only their rollback before them.  As long as it has not failed, what it
\* decoded is in the candidate.
Owner(k) ==
  /\ \A j \in (k + 1)..Len(frames) : frames[j].at = "abort"
  /\ frames[k].at # "abort" =>
       \A p \in Positions : frames[k].own[p] # Unset => candidate[p] = frames[k].own[p]

\* The Builder is active only for an operation in progress.
ActiveIsOwned == active => rootStarted /\ \E k \in 1..Len(frames) : Owner(k)

IInv == Shape /\ ActiveIsOwned

\* A Builder just declared.
LEMMA InitHolds == Init => IInv
<1>. SUFFICES ASSUME Init PROVE IInv
  OBVIOUS
<1>1. Nothing \in [Positions -> Contents]
  BY DEF Nothing, Contents
<1>2. frames \in Seq(Operations) /\ 1..Len(frames) = {}
  BY EmptySeq DEF Init
<1>. QED
  BY <1>1, <1>2 DEF Init, IInv, Shape, ActiveIsOwned

\* An operation is begun, or refused.
LEMMA AppendShapes ==
  ASSUME Shape, NEW op \in Operations, op.at \in {"record", "abort"},
         frames' = Append(frames, op), UNCHANGED package,
         published' \in [Positions -> Contents], candidate' \in [Positions -> Contents]
  PROVE  /\ Shape'
         /\ Len(frames') = Len(frames) + 1 /\ frames'[Len(frames) + 1] = op
         /\ \A i \in 1..Len(frames) : frames'[i] = frames[i]
<1>1. /\ frames' \in Seq(Operations) /\ Len(frames') = Len(frames) + 1
      /\ frames'[Len(frames) + 1] = op /\ \A i \in 1..Len(frames) : frames'[i] = frames[i]
  BY AppendProperties DEF Shape
<1>2. Positions' = Positions /\ Contents' = Contents /\ Operations' = Operations
  BY DEF package, Positions, Contents, Operations
<1>3. Len(frames) \in Nat
  BY LenProperties DEF Shape
<1>4. ASSUME NEW i \in 1..Len(frames')
      PROVE  /\ frames'[i].at = "read" => frames'[i].pos \in Positions
             /\ frames'[i].at = "finish" => \A p \in Positions : frames'[i].own[p] # Unset
  <2>1. CASE i = Len(frames) + 1
    BY <1>1, <2>1
  <2>2. CASE i \in 1..Len(frames)
    BY <1>1, <2>2 DEF Shape
  <2>. QED
    BY <1>1, <1>3, <2>1, <2>2
<1>. QED
  BY <1>1, <1>2, <1>4 DEF Shape

\* The operation that runs goes on.
LEMMA ContinueShapes ==
  ASSUME Shape, frames # <<>>, NEW op \in Operations, Continue(op), UNCHANGED package,
         op.at = "read" => op.pos \in Positions,
         op.at = "finish" => \A p \in Positions : op.own[p] # Unset,
         published' \in [Positions -> Contents], candidate' \in [Positions -> Contents]
  PROVE  /\ Shape'
         /\ Len(frames') = Len(frames) /\ Len(frames) \in Nat \ {0} /\ frames'[Len(frames)] = op
         /\ \A i \in 1..Len(frames) : i # Len(frames) => frames'[i] = frames[i]
<1>1. Len(frames) \in Nat \ {0}
  BY EmptySeq, LenProperties DEF Shape
<1>2. /\ frames' \in Seq(Operations) /\ Len(frames') = Len(frames)
      /\ frames'[Len(frames)] = op
      /\ \A i \in 1..Len(frames) : i # Len(frames) => frames'[i] = frames[i]
  BY <1>1, ExceptSeq DEF Shape, Continue
<1>3. Positions' = Positions /\ Contents' = Contents /\ Operations' = Operations
  BY DEF package, Positions, Contents, Operations
<1>4. ASSUME NEW i \in 1..Len(frames')
      PROVE  /\ frames'[i].at = "read" => frames'[i].pos \in Positions
             /\ frames'[i].at = "finish" => \A p \in Positions : frames'[i].own[p] # Unset
  <2>1. CASE i = Len(frames)
    BY <1>2, <2>1
  <2>2. CASE i # Len(frames)
    BY <1>2, <2>2 DEF Shape
  <2>. QED
    BY <2>1, <2>2
<1>. QED
  BY <1>1, <1>2, <1>3, <1>4 DEF Shape

\* The operation that runs, if it has not failed, is the owner of an active Builder.
LEMMA RunningOwns ==
  ASSUME IInv, frames # <<>>, Top.at # "abort"
  PROVE  /\ Top \in Operations /\ Len(frames) \in Nat \ {0}
         /\ active => rootStarted /\ Owner(Len(frames))
<1>1. Len(frames) \in Nat \ {0} /\ Top \in Operations
  BY EmptySeq, LenProperties, ElementOfSeq DEF IInv, Shape, Top
<1>2. ASSUME NEW k \in 1..Len(frames), Owner(k)
      PROVE  k = Len(frames)
  BY <1>1, <1>2 DEF Owner, Top
<1>. QED
  BY <1>1, <1>2 DEF IInv, ActiveIsOwned

\* The operation that runs goes on without a failure, and without a word of the Builder.
LEMMA GoesOn ==
  ASSUME IInv, frames # <<>>, Top.at # "abort", NEW op \in Operations, Continue(op),
         UNCHANGED <<package, builder>>, op.own = Top.own,
         op.at = "read" => op.pos \in Positions,
         op.at = "finish" => \A p \in Positions : op.own[p] # Unset
  PROVE  IInv'
<1>1. Shape' /\ Len(frames') = Len(frames) /\ frames'[Len(frames)] = op
  BY ContinueShapes DEF IInv, Shape, builder
<1>2. ASSUME active
      PROVE  rootStarted' /\ \E k \in 1..Len(frames') : Owner(k)'
  <2>1. rootStarted /\ Owner(Len(frames)) /\ Len(frames) \in Nat \ {0}
    BY <1>2, RunningOwns
  <2>2. Positions' = Positions
    BY DEF package, Positions
  <2>3. Owner(Len(frames))'
    BY <1>1, <2>1, <2>2 DEF Owner, Top, builder
  <2>. QED
    BY <1>1, <2>1, <2>3 DEF builder
<1>. QED
  BY <1>1, <1>2 DEF IInv, ActiveIsOwned, builder

\* Every step.
LEMMA StepHolds == IInv /\ [Next]_vars => IInv'
<1>. SUFFICES ASSUME IInv, [Next]_vars PROVE IInv'
  OBVIOUS
<1>1. /\ published \in [Positions -> Contents] /\ candidate \in [Positions -> Contents]
      /\ frames \in Seq(Operations) /\ Shape
  BY DEF IInv, Shape
<1>2. (Top \in Operations /\ Len(frames) \in Nat \ {0}) \/ frames = <<>>
  BY <1>1, EmptySeq, LenProperties, ElementOfSeq DEF Top
<1>3. UNCHANGED package => Positions' = Positions /\ Contents' = Contents /\ Operations' = Operations
  BY DEF package, Positions, Contents, Operations
<1>4. Nothing \in [Positions -> Contents]
  BY DEF Nothing, Contents
<1>5. CASE Compile
  <2>1. Positions' = Positions /\ Contents' = Contents /\ Operations' = Operations
    BY <1>5 DEF Compile, Positions, Contents, Operations
  <2>. QED
    BY <1>5, <2>1 DEF Compile, IInv, Shape, ActiveIsOwned, Owner, builder
<1>6. CASE Initialize
  <2>1. PICK v \in Values : published' = v /\ candidate' = v
    BY <1>6 DEF Initialize
  <2>2. v \in [Positions -> Contents]
    BY DEF Values, Contents
  <2>. QED
    BY <1>3, <1>6, <2>1, <2>2 DEF Initialize, IInv, Shape, ActiveIsOwned
<1>7. CASE Begin
  <2>. DEFINE op == [at |-> "record", own |-> Nothing, pos |-> 0]
  <2>1. op \in Operations /\ frames' = Append(frames, op)
    BY <1>4, <1>7 DEF Begin, Operations, Places
  <2>2. /\ Shape' /\ Len(frames') = Len(frames) + 1 /\ frames'[Len(frames) + 1] = op
    BY <1>1, <1>3, <1>7, <2>1, AppendShapes DEF Begin
  <2>3. Owner(Len(frames))' /\ Len(frames) \in Nat
    BY <1>1, <1>3, <1>7, <2>2, LenProperties DEF Begin, Owner, Nothing
  <2>. QED
    BY <1>7, <2>2, <2>3 DEF Begin, IInv, ActiveIsOwned
<1>8. CASE Refuse
  <2>. DEFINE op == [at |-> "abort", own |-> Nothing, pos |-> 0]
  <2>1. op \in Operations /\ frames' = Append(frames, op)
    BY <1>4, <1>8 DEF Refuse, Operations, Places
  <2>2. /\ Shape' /\ Len(frames') = Len(frames) + 1 /\ frames'[Len(frames) + 1] = op
        /\ \A i \in 1..Len(frames) : frames'[i] = frames[i]
    BY <1>1, <1>3, <1>8, <2>1, AppendShapes DEF Refuse, builder
  <2>3. ASSUME NEW k \in 1..Len(frames), Owner(k)
        PROVE  k \in 1..Len(frames') /\ Owner(k)'
    BY <1>3, <1>8, <2>2, <2>3 DEF Refuse, Owner, builder
  <2>. QED
    BY <1>8, <2>2, <2>3 DEF Refuse, IInv, ActiveIsOwned, builder
<1>9. CASE BeginRecord \/ NoMoreFields
  <2>1. PICK place \in {"next", "end"} :
          /\ frames # <<>> /\ Top.at \in {"record", "next"}
          /\ Continue([Top EXCEPT !.at = place]) /\ UNCHANGED <<package, builder>>
    BY <1>9 DEF BeginRecord, NoMoreFields, GoTo
  <2>. DEFINE op == [Top EXCEPT !.at = place]
  <2>2. op \in Operations /\ op.at = place /\ op.own = Top.own
    BY <1>2, <2>1 DEF Operations, Places
  <2>. QED
    BY <2>1, <2>2, GoesOn
<1>10. ASSUME NEW p \in Positions, NextField(p)
       PROVE  IInv'
  <2>. DEFINE op == [Top EXCEPT !.at = "read", !.pos = p]
  <2>1. op \in Operations /\ op.at = "read" /\ op.pos = p /\ op.own = Top.own
    BY <1>2, <1>10 DEF NextField, Operations, Places
  <2>. QED
    BY <1>10, <2>1, GoesOn DEF NextField
<1>11. CASE ReadField
  <2>1. PICK v \in ranges[Top.pos] :
          /\ candidate' = [candidate EXCEPT ![Top.pos] = v]
          /\ Continue([Top EXCEPT !.at = "next", !.own[Top.pos] = v])
    BY <1>11 DEF ReadField
  <2>2. Top.at = "read" /\ frames # <<>> /\ Top.pos \in Positions
    BY <1>2, <1>11 DEF ReadField, IInv, Shape, Top
  <2>3. v \in Contents
    BY <2>2 DEF Contents
  <2>. DEFINE op == [Top EXCEPT !.at = "next", !.own[Top.pos] = v]
  <2>4. op \in Operations /\ op.at = "next" /\ op.own = [Top.own EXCEPT ![Top.pos] = v]
    BY <1>2, <2>2, <2>3 DEF Operations, Places
  <2>5. candidate' \in [Positions -> Contents]
    BY <1>1, <2>1, <2>3
  <2>6. Shape' /\ Len(frames') = Len(frames) /\ frames'[Len(frames)] = op
    BY <1>1, <1>11, <2>1, <2>2, <2>4, <2>5, ContinueShapes DEF ReadField
  <2>7. ASSUME active
        PROVE  rootStarted /\ Owner(Len(frames))'
    <3>1. rootStarted /\ Owner(Len(frames)) /\ Len(frames) \in Nat \ {0}
      BY <2>2, <2>7, RunningOwns
    <3>2. Positions' = Positions /\ Top.own \in [Positions -> Contents]
      BY <1>2, <1>3, <1>11, <2>2 DEF ReadField, Operations
    <3>3. \A p \in Positions : op.own[p] # Unset => candidate'[p] = op.own[p]
      BY <1>1, <2>1, <2>2, <2>4, <3>1, <3>2 DEF Owner, Top
    <3>. QED
      BY <2>6, <3>1, <3>2, <3>3 DEF Owner
  <2>. QED
    BY <1>2, <1>11, <2>2, <2>6, <2>7 DEF ReadField, IInv, ActiveIsOwned
<1>12. CASE EndRecord
  <2>. DEFINE place == IF \A p \in Positions : Top.own[p] # Unset THEN "finish" ELSE "abort"
              op == [Top EXCEPT !.at = place]
  <2>1. frames # <<>> /\ Top.at = "end" /\ Continue(op) /\ UNCHANGED <<package, builder>>
    BY <1>12 DEF EndRecord, GoTo
  <2>2. op \in Operations /\ op.at = place /\ op.own = Top.own
    BY <1>2, <2>1 DEF Operations, Places
  <2>3. op.at = "finish" => \A p \in Positions : op.own[p] # Unset
    BY <2>2
  <2>4. op.at # "read"
    BY <2>2
  <2>. HIDE DEF op
  <2>. QED
    BY <2>1, <2>2, <2>3, <2>4, GoesOn
<1>13. CASE Commit
  <2>. DEFINE fewer == SubSeq(frames, 1, Len(frames) - 1)
  <2>1. frames' = fewer /\ ~active' /\ published' = candidate /\ candidate' = candidate
        /\ UNCHANGED package
    BY <1>13 DEF Commit, Front
  <2>2. fewer \in Seq(Operations) /\ \A i \in 1..Len(fewer) : i \in 1..Len(frames) /\ fewer[i] = frames[i]
    BY <1>1, <1>2, <1>13, SubSeqProperties DEF Commit
  <2>. HIDE DEF fewer
  <2>. QED
    BY <1>1, <1>3, <2>1, <2>2 DEF IInv, Shape, ActiveIsOwned
<1>14. CASE CommitRefused
  <2>. DEFINE op == [Top EXCEPT !.at = "abort"]
  <2>1. op \in Operations /\ op.at = "abort" /\ op.own = Top.own
    BY <1>2, <1>14 DEF CommitRefused, Operations, Places
  <2>. QED
    BY <1>14, <2>1, GoesOn DEF CommitRefused, GoTo
<1>15. CASE FailCall
  <2>. DEFINE op == [Top EXCEPT !.at = "abort"]
  <2>1. frames # <<>> /\ Top.at # "abort" /\ Continue(op)
    BY <1>15 DEF FailCall, GoTo
  <2>2. op \in Operations /\ op.at = "abort"
    BY <1>2, <2>1 DEF Operations, Places
  <2>3. candidate' \in [Positions -> Contents]
    <3>1. CASE Top.at = "read"
      <4>1. PICK v \in ranges[Top.pos] \cup {candidate[Top.pos]} :
              candidate' = [candidate EXCEPT ![Top.pos] = v]
        BY <1>15, <3>1 DEF FailCall
      <4>2. Top.pos \in Positions
        BY <1>2, <2>1, <3>1 DEF IInv, Shape, Top
      <4>3. v \in Contents
        BY <1>1, <4>2 DEF Contents
      <4>. QED
        BY <1>1, <4>1, <4>3
    <3>2. CASE Top.at # "read"
      BY <1>1, <1>15, <3>2 DEF FailCall
    <3>. QED
      BY <3>1, <3>2
  <2>4. Shape' /\ Len(frames') = Len(frames) /\ frames'[Len(frames)] = op
    BY <1>1, <1>15, <2>1, <2>2, <2>3, ContinueShapes DEF FailCall
  <2>5. active => rootStarted /\ Owner(Len(frames))'
    BY <2>1, <2>2, <2>4, RunningOwns DEF Owner
  <2>. QED
    BY <1>2, <1>15, <2>1, <2>4, <2>5 DEF FailCall, IInv, ActiveIsOwned
<1>16. CASE Rollback
  <2>. DEFINE fewer == SubSeq(frames, 1, Len(frames) - 1)
  <2>1. frames' = fewer /\ published' = published /\ candidate' = candidate /\ UNCHANGED package
    BY <1>16 DEF Rollback, Front
  <2>2. fewer \in Seq(Operations) /\ \A i \in 1..Len(fewer) : i \in 1..Len(frames) /\ fewer[i] = frames[i]
    BY <1>1, <1>2, <1>16, SubSeqProperties DEF Rollback
  <2>3. ~active'
    BY <1>16 DEF Rollback, IInv, ActiveIsOwned
  <2>. HIDE DEF fewer
  <2>. QED
    BY <1>1, <1>3, <2>1, <2>2, <2>3 DEF IInv, Shape, ActiveIsOwned
<1>17. CASE UNCHANGED vars
  BY <1>3, <1>17 DEF vars, builder, IInv, Shape, ActiveIsOwned, Owner
<1>. QED
  BY <1>5, <1>6, <1>7, <1>8, <1>9, <1>10, <1>11, <1>12, <1>13, <1>14, <1>15, <1>16, <1>17 DEF Next

\* Every state of a program that uses the package.
LEMMA AlwaysHolds == Spec => []IInv
  BY InitHolds, StepHolds, PTL DEF Spec

\* An operation publishes what it decoded itself, whatever operations on the same Builder are
\* begun, refused, failed and rolled back inside it, to any depth.
THEOREM CommitIsOwnHolds == Spec => CommitIsOwn
<1>. DEFINE A == published' # published =>
              \/ frames' = frames
              \/ Top.at = "finish" /\ published' = Top.own
<1>1. IInv /\ [Next]_vars => [A]_vars
  <2>. SUFFICES ASSUME IInv, Next PROVE A
    BY DEF vars, builder
  <2>1. CASE Commit
    <3>1. /\ Top.at = "finish" /\ active /\ frames # <<>> /\ published' = candidate
      BY <2>1 DEF Commit
    <3>2. Owner(Len(frames)) /\ Top \in Operations /\ Len(frames) \in Nat \ {0}
      BY <3>1, RunningOwns
    <3>3. \A p \in Positions : Top.own[p] # Unset /\ candidate[p] = Top.own[p]
      BY <3>1, <3>2 DEF Owner, Top, IInv, Shape
    <3>4. candidate \in [Positions -> Contents] /\ Top.own \in [Positions -> Contents]
      BY <3>2 DEF IInv, Shape, Operations
    <3>. QED
      BY <3>1, <3>3, <3>4
  <2>2. CASE Initialize
    BY <2>2 DEF Initialize
  <2>3. CASE ~Commit /\ ~Initialize
    BY <2>3 DEF Next, Compile, Begin, Refuse, BeginRecord, NextField, ReadField, NoMoreFields,
      EndRecord, CommitRefused, FailCall, Rollback, builder
  <2>. QED
    BY <2>1, <2>2, <2>3
<1>. QED
  BY <1>1, AlwaysHolds, PTL DEF Spec, CommitIsOwn

-----------------------------------------------------------------------------
(* What the generator makes of a document. *)

\* What can be ordered by numbers can be listed in that order.
LEMMA SortedExists ==
  ASSUME NEW C, IsFiniteSet(C), \A c \in C : c.order \in Int
  PROVE  \E s \in [1..Cardinality(C) -> C] :
           IsInjective(s) /\ \A i, j \in DOMAIN s : i < j => s[i].order <= s[j].order
<1>1. PICK n : n = Cardinality(C)
  OBVIOUS
<1>2. n \in Nat /\ ExistsBijection(1..n, C)
  BY <1>1, FS_CardinalityType
<1>3. PICK b \in [1..n -> C] : IsInjective(b)
  BY <1>2 DEF ExistsBijection, Bijection, Injection
<1>. DEFINE Before(j, i) == b[j].order < b[i].order \/ (b[j].order = b[i].order /\ j < i)
<1>4. ASSUME NEW i \in 1..n
      PROVE  b[i] \in C /\ b[i].order \in Int
  BY <1>3
<1>5. PICK N : N = 1..n
  OBVIOUS
<1>6. IsFiniteSet(N) /\ Cardinality(N) = n
  BY <1>2, <1>5, FS_Interval
<1>7. PICK below \in [N -> SUBSET N] : \A i, j \in N : j \in below[i] <=> Before(j, i)
  <2>1. [i \in N |-> {j \in N : Before(j, i)}] \in [N -> SUBSET N]
    OBVIOUS
  <2>. QED
    BY <2>1
<1>. DEFINE rank == [i \in N |-> Cardinality(below[i]) + 1]
<1>8. ASSUME NEW i \in N
      PROVE  IsFiniteSet(below[i]) /\ Cardinality(below[i]) \in 0..n - 1
  <2>1. below[i] \in SUBSET N /\ i \notin below[i]
    BY <1>4, <1>5, <1>7
  <2>2. /\ IsFiniteSet(below[i]) /\ Cardinality(below[i]) <= n
        /\ n = Cardinality(below[i]) => N = below[i]
    BY <1>6, <2>1, FS_Subset
  <2>3. Cardinality(below[i]) # n /\ Cardinality(below[i]) \in Nat
    BY <2>1, <2>2, FS_CardinalityType
  <2>. QED
    BY <1>2, <2>2, <2>3
<1>9. ASSUME NEW i \in N, NEW j \in N, Before(i, j)
      PROVE  Cardinality(below[i]) < Cardinality(below[j])
  <2>1. below[i] \in SUBSET below[j]
    BY <1>4, <1>5, <1>7, <1>9
  <2>2. i \in below[j] /\ i \notin below[i]
    BY <1>4, <1>5, <1>7, <1>9
  <2>3. /\ IsFiniteSet(below[j])
        /\ Cardinality(below[i]) \in 0..n - 1 /\ Cardinality(below[j]) \in 0..n - 1
    BY <1>8
  <2>4. /\ Cardinality(below[i]) <= Cardinality(below[j])
        /\ Cardinality(below[j]) = Cardinality(below[i]) => below[j] = below[i]
    BY <2>1, <2>3, FS_Subset
  <2>. QED
    BY <1>2, <2>2, <2>3, <2>4
<1>10. rank \in [1..n -> 1..n]
  <2>1. ASSUME NEW i \in N
        PROVE  Cardinality(below[i]) + 1 \in 1..n
    BY <1>2, <1>8
  <2>. QED
    BY <1>5, <2>1
<1>11. ASSUME NEW i \in 1..n, NEW j \in 1..n, Before(i, j)
      PROVE  rank[i] < rank[j]
  <2>1. /\ Cardinality(below[i]) < Cardinality(below[j])
        /\ Cardinality(below[i]) \in 0..n - 1 /\ Cardinality(below[j]) \in 0..n - 1
    BY <1>5, <1>8, <1>9, <1>11
  <2>2. rank[i] = Cardinality(below[i]) + 1 /\ rank[j] = Cardinality(below[j]) + 1
    BY <1>5
  <2>. QED
    BY <1>2, <2>1, <2>2
<1>. HIDE DEF rank
<1>12. ASSUME NEW i \in 1..n, NEW j \in 1..n, rank[i] = rank[j]
       PROVE  i = j
  <2>1. ~Before(i, j) /\ ~Before(j, i)
    BY <1>10, <1>11, <1>12
  <2>. QED
    BY <1>4, <2>1
<1>13. rank \in Injection(1..n, 1..n)
  BY <1>10, <1>12 DEF Injection, IsInjective
<1>14. rank \in Surjection(1..n, 1..n)
  BY <1>5, <1>6, <1>13, FS_Injection
<1>15. \A k \in 1..n : \E i \in 1..n : rank[i] = k
  BY <1>14 DEF Surjection
<1>. DEFINE at == [k \in 1..n |-> CHOOSE i \in 1..n : rank[i] = k]
            s == [k \in 1..n |-> b[at[k]]]
<1>16. \A k \in 1..n : at[k] \in 1..n /\ rank[at[k]] = k
  BY <1>15
<1>. HIDE DEF at
<1>17. s \in [1..n -> C]
  BY <1>3, <1>16
<1>18. ASSUME NEW k \in 1..n, NEW l \in 1..n, s[k] = s[l]
       PROVE  k = l
  <2>1. at[k] = at[l]
    BY <1>3, <1>16, <1>18 DEF IsInjective
  <2>. QED
    BY <1>16, <2>1
<1>19. ASSUME NEW k \in 1..n, NEW l \in 1..n, k < l
       PROVE  s[k].order <= s[l].order
  <2>1. ~Before(at[l], at[k])
    BY <1>11, <1>16, <1>19
  <2>. QED
    BY <1>4, <1>16, <2>1
<1>. HIDE DEF s
<1>20. IsInjective(s) /\ \A i, j \in DOMAIN s : i < j => s[i].order <= s[j].order
  BY <1>17, <1>18, <1>19 DEF IsInjective
<1>. QED
  BY <1>1, <1>17, <1>20

\* The components of a record, each once.
LEMMA OwnedLists ==
  ASSUME NEW doc \in Documents, NEW root
  PROVE  \E n \in Nat :
           /\ Owned(doc, root) \in [1..n -> doc.components]
           /\ IsInjective(Owned(doc, root))
<1>1. PICK C : C = {c \in doc.components : c.owner = root}
  OBVIOUS
<1>2. IsFiniteSet(doc.components) /\ C \in SUBSET doc.components /\ \A c \in C : c.order \in Int
  BY <1>1, DocumentsAssumption
<1>3. IsFiniteSet(C)
  BY <1>2, FS_Subset
<1>. DEFINE Sorted(s) ==
       IsInjective(s) /\ \A i, j \in DOMAIN s : i < j => s[i].order <= s[j].order
<1>4. \E s \in [1..Cardinality(C) -> C] : Sorted(s)
  BY <1>2, <1>3, SortedExists
<1>5. Owned(doc, root) = CHOOSE s \in [1..Cardinality(C) -> C] : Sorted(s)
  BY <1>1 DEF Owned
<1>. HIDE DEF Sorted
<1>6. Owned(doc, root) \in [1..Cardinality(C) -> C] /\ Sorted(Owned(doc, root))
  BY <1>4, <1>5
<1>7. Cardinality(C) \in Nat
  BY <1>3, FS_CardinalityType
<1>. QED
  BY <1>2, <1>6, <1>7 DEF Sorted

\* A binding that is found for a component is the last one for it, and the only one found.
LEMMA BoundIs ==
  ASSUME NEW record, NEW S, record.fields \in Seq(S), NEW c, NEW b \in Bound(record, c)
  PROVE  /\ (CHOOSE x \in Bound(record, c) : TRUE) = b
         /\ \E i \in 1..Len(record.fields) : record.fields[i] = b /\ b.component = c.id
<1>1. DOMAIN record.fields = 1..Len(record.fields)
  BY LenProperties
<1>. DEFINE I == {i \in DOMAIN record.fields : record.fields[i].component = c.id}
<1>2. ASSUME NEW x \in Bound(record, c)
      PROVE  \E i \in I : record.fields[i] = x /\ \A k \in I : k <= i
  BY DEF Bound
<1>3. ASSUME NEW x \in Bound(record, c), NEW y \in Bound(record, c)
      PROVE  x = y
  <2>1. PICK i \in I : record.fields[i] = x /\ \A k \in I : k <= i
    BY <1>2
  <2>2. PICK j \in I : record.fields[j] = y /\ \A k \in I : k <= j
    BY <1>2
  <2>3. i \in Int /\ j \in Int /\ i <= j /\ j <= i
    BY <1>1, <2>1, <2>2
  <2>. QED
    BY <2>1, <2>2, <2>3
<1>. QED
  BY <1>1, <1>2, <1>3

\* A nonempty set of names no longer than another has a longest one.
LEMMA LongestExists ==
  ASSUME NEW U, U # {}, NEW m \in Nat, \A u \in U : Len(u) \in Nat /\ Len(u) <= m
  PROVE  \E u \in U : \A v \in U : Len(v) <= Len(u)
<1>. DEFINE Missing == {m - Len(u) : u \in U}
<1>1. Missing \subseteq Nat /\ Missing # {}
  OBVIOUS
<1>2. PICK x \in Missing : \A y \in Missing : ~(<<y, x>> \in OpToRel(<, Nat))
  BY <1>1, NatLessThanWellFounded, WFMin
<1>3. PICK u \in U : x = m - Len(u)
  OBVIOUS
<1>4. ASSUME NEW v \in U
      PROVE  Len(v) <= Len(u)
  <2>1. m - Len(v) \in Missing /\ m - Len(v) \in Nat /\ x \in Nat
    BY <1>1
  <2>2. ~(m - Len(v) < x)
    BY <1>2, <2>1 DEF OpToRel
  <2>. QED
    BY <1>3, <2>2
<1>. QED
  BY <1>4

\* The unit that a name needs is one of its parents.
LEMMA NeededIsPrefix ==
  ASSUME NEW doc \in Documents, NEW n \in Seq(STRING), UnitsFor(doc, n) # {}
  PROVE  \E u \in NeededFor(doc, n) : IsPrefix(Folded(u), Folded(n))
<1>1. doc.closure \in Seq(Seq(STRING))
  BY DocumentsAssumption
<1>2. ASSUME NEW s \in Seq(STRING)
      PROVE  Len(Folded(s)) = Len(s) /\ Len(s) \in Nat
  BY LenProperties DEF Folded
<1>3. ASSUME NEW u \in UnitsFor(doc, n)
      PROVE  /\ IsPrefix(Folded(u), Folded(n))
             /\ Len(u) \in Nat /\ Len(u) <= Len(n)
  <2>1. u \in Range(doc.closure) /\ IsPrefix(Folded(u), Folded(n))
    BY DEF UnitsFor
  <2>2. u \in Seq(STRING)
    BY <1>1, <2>1, LenProperties, ElementOfSeq DEF Range
  <2>3. Len(Folded(u)) <= Len(Folded(n))
    BY <2>1 DEF IsPrefix
  <2>. QED
    BY <1>2, <2>1, <2>2, <2>3
<1>4. \E u \in UnitsFor(doc, n) : \A v \in UnitsFor(doc, n) : Len(v) <= Len(u)
  BY <1>2, <1>3, LongestExists
<1>. QED
  BY <1>3, <1>4 DEF NeededFor

\* The record of an accepted overlay, as lists of bindings and components.
LEMMA RecordIs ==
  ASSUME NEW overlay \in TheOverlays, Len(overlay.records) = 1
  PROVE  /\ 1 \in DOMAIN overlay.records
         /\ overlay.records[1].fields \in
              Seq([component : STRING, adaComponent : STRING, adaType : Seq(STRING), name : STRING])
<1>. DEFINE B == [component : STRING, adaComponent : STRING, adaType : Seq(STRING), name : STRING]
            R == [root : STRING, type : Seq(STRING), logical : STRING, fields : Seq(B)]
<1>1. overlay.records \in Seq(R)
  BY OverlaysAssumption
<1>. HIDE DEF R
<1>2. 1 \in DOMAIN overlay.records /\ overlay.records[1] \in R
  <2>1. DOMAIN overlay.records = 1..1 /\ 1 \in 1..1
    BY <1>1, LenProperties
  <2>2. 1 \in 1..Len(overlay.records)
    BY <2>1
  <2>. QED
    BY <1>1, <2>1, <2>2, ElementOfSeq
<1>. HIDE DEF B
<1>3. overlay.records[1].fields \in Seq(B)
  BY <1>2 DEF R
<1>. QED
  BY <1>2, <1>3 DEF B

\* Field p of the model is binding i of its component, which was checked with it.
BindsField(doc, record, i, p) ==
  LET b == record.fields[i]
      c == Owned(doc, record.root)[p]
      d == doc.declarations[c.type] IN
    /\ b.component = c.id
    /\ Lowered(doc, record).fields[p] =
         [component |-> b.adaComponent, type |-> b.adaType, kind |-> d.shape, name |-> b.name]
    /\ c.type \in DOMAIN doc.declarations /\ ScalarKind(d)
    /\ Fold[b.adaComponent] = Fold[c.name]
    /\ SelectedNameMatchesCanonical(b.adaType, d.name)
    /\ Nameable(doc, b.adaType)

\* Every field is bound so.
LEMMA FieldIs ==
  ASSUME NEW doc \in Documents, NEW overlay \in TheOverlays, Accepts(doc, overlay),
         Len(overlay.records) = 1, NEW record, record = overlay.records[1],
         NEW owned, owned = Owned(doc, record.root), NEW p \in DOMAIN owned
  PROVE  \E i \in 1..Len(record.fields) : BindsField(doc, record, i, p)
<1>1. 1 \in DOMAIN overlay.records
  BY RecordIs
<1>2. FieldsAccepted(doc, record)
  BY <1>1 DEF Accepts
<1>3. ComponentAccepted(doc, record, owned[p])
  BY <1>2 DEF FieldsAccepted
<1>4. PICK b \in Bound(record, owned[p]) :
        /\ Fold[b.adaComponent] = Fold[owned[p].name]
        /\ SelectedNameMatchesCanonical(b.adaType, doc.declarations[owned[p].type].name)
        /\ Nameable(doc, b.adaType)
  BY <1>3 DEF ComponentAccepted
<1>5. /\ (CHOOSE x \in Bound(record, owned[p]) : TRUE) = b
      /\ \E i \in 1..Len(record.fields) : record.fields[i] = b /\ b.component = owned[p].id
  <2>1. PICK B : record.fields \in Seq(B)
    BY RecordIs
  <2>. QED
    BY <2>1, BoundIs
<1>6. Lowered(doc, record).fields[p] =
        [component |-> b.adaComponent, type |-> b.adaType,
         kind |-> doc.declarations[owned[p].type].shape, name |-> b.name]
  BY <1>5 DEF Lowered
<1>7. owned[p].type \in DOMAIN doc.declarations /\ ScalarKind(doc.declarations[owned[p].type])
  BY <1>3 DEF ComponentAccepted
<1>8. PICK i \in 1..Len(record.fields) : record.fields[i] = b /\ b.component = owned[p].id
  BY <1>5
<1>9. BindsField(doc, record, i, p)
  BY <1>4, <1>6, <1>7, <1>8 DEF BindsField
<1>. QED
  BY <1>9

\* No two components have one presentation name.
LEMMA NamesDiffer ==
  ASSUME NEW doc \in Documents, NEW overlay \in TheOverlays, Accepts(doc, overlay),
         Len(overlay.records) = 1, NEW record, record = overlay.records[1],
         NEW i \in 1..Len(record.fields), NEW j \in 1..Len(record.fields),
         record.fields[i].name = record.fields[j].name
  PROVE  i = j
<1>1. PICK n \in Nat : n = Len(record.fields) /\ DOMAIN record.fields = 1..n
  BY RecordIs, LenProperties
<1>. DEFINE names == {record.fields[k].name : k \in 1..n}
            name == [k \in 1..n |-> record.fields[k].name]
<1>2. 1 \in DOMAIN overlay.records
  BY RecordIs
<1>3. FieldsAccepted(doc, record)
  BY <1>2 DEF Accepts
<1>4. Cardinality(names) = n
  BY <1>1, <1>3 DEF FieldsAccepted
<1>5. name \in Surjection(1..n, names)
  BY DEF Surjection
<1>6. IsFiniteSet(1..n) /\ Cardinality(1..n) = n
  <2>1. 1 \in Int /\ n \in Int
    OBVIOUS
  <2>2. IsFiniteSet(1..n) /\ Cardinality(1..n) = IF 1 > n THEN 0 ELSE n - 1 + 1
    BY <2>1, FS_Interval
  <2>. QED
    BY <2>2
<1>. HIDE DEF names
<1>7. name \in Injection(1..n, names)
  BY <1>4, <1>5, <1>6, FS_Surjection
<1>8. name[i] = name[j]
  BY <1>1
<1>. QED
  BY <1>1, <1>7, <1>8 DEF Injection, IsInjective

\* What the package names, when it was emitted from doc and overlay.
LEMMA NamesAreDeclared ==
  ASSUME NEW doc \in Documents, NEW overlay \in TheOverlays, Accepts(doc, overlay),
         Len(overlay.records) = 1, NEW record, record = overlay.records[1],
         NEW owned, owned = Owned(doc, record.root), NEW p \in DOMAIN owned,
         NEW field, field = Lowered(doc, record).fields[p],
         NEW declared, declared = doc.declarations[owned[p].type]
  PROVE  /\ Fold[field.component] = Fold[owned[p].name]
         /\ \/ Folded(field.type) = Folded(declared.name)
            \/ Folded(field.type) = BooleanName /\ declared.id = StandardBoolean
         /\ \/ \E u \in overlay.withs : IsPrefix(Folded(u), Folded(field.type))
            \/ Folded(field.type) = BooleanName
<1>1. PICK i \in 1..Len(record.fields) :
        /\ field.component = record.fields[i].adaComponent /\ field.type = record.fields[i].adaType
        /\ owned[p].type \in DOMAIN doc.declarations /\ ScalarKind(declared)
        /\ Fold[record.fields[i].adaComponent] = Fold[owned[p].name]
        /\ SelectedNameMatchesCanonical(record.fields[i].adaType, declared.name)
        /\ Nameable(doc, record.fields[i].adaType)
  <2>1. PICK i \in 1..Len(record.fields) : BindsField(doc, record, i, p)
    BY FieldIs
  <2>2. field = [component |-> record.fields[i].adaComponent, type |-> record.fields[i].adaType,
                 kind |-> declared.shape, name |-> record.fields[i].name]
    BY <2>1 DEF BindsField
  <2>3. /\ owned[p].type \in DOMAIN doc.declarations /\ ScalarKind(declared)
        /\ Fold[record.fields[i].adaComponent] = Fold[owned[p].name]
        /\ SelectedNameMatchesCanonical(record.fields[i].adaType, declared.name)
        /\ Nameable(doc, record.fields[i].adaType)
    BY <2>1 DEF BindsField
  <2>4. field.component = record.fields[i].adaComponent /\ field.type = record.fields[i].adaType
    BY <2>2
  <2>. QED
    BY <2>3, <2>4, Zenon
<1>2. ~doc.generic /\ declared.directPublic
  BY <1>1 DEF Accepts, ScalarKind, SafeDeclaration
<1>3. Folded(declared.name) = <<"standard", "boolean">> => declared.id = StandardBoolean
  BY <1>1, <1>2, DocumentsAssumption
<1>4. \/ Folded(field.type) = Folded(declared.name)
      \/ Folded(field.type) = BooleanName /\ declared.id = StandardBoolean
  BY <1>1, <1>3 DEF SelectedNameMatchesCanonical
<1>5. ASSUME Folded(field.type) # BooleanName
      PROVE  \E u \in overlay.withs : IsPrefix(Folded(u), Folded(field.type))
  <2>1. UnitsFor(doc, field.type) # {}
    BY <1>1, <1>5 DEF Nameable
  <2>2. i \in DOMAIN record.fields /\ field.type \in Seq(STRING)
    <3>. DEFINE B == [component : STRING, adaComponent : STRING, adaType : Seq(STRING),
                      name : STRING]
    <3>1. record.fields \in Seq(B)
      BY RecordIs
    <3>. HIDE DEF B
    <3>2. i \in DOMAIN record.fields /\ record.fields[i] \in B
      BY <3>1, LenProperties, ElementOfSeq
    <3>. QED
      BY <1>1, <3>2 DEF B
  <2>3. PICK u \in NeededFor(doc, field.type) : IsPrefix(Folded(u), Folded(field.type))
    BY <2>1, <2>2, NeededIsPrefix
  <2>4. field.type \in TypeNames(overlay.records[1]) /\ 1 \in DOMAIN overlay.records
    BY <1>1, <2>2, RecordIs DEF TypeNames
  <2>5. u \in UNION {NeededFor(doc, n) :
               n \in UNION {TypeNames(overlay.records[k]) : k \in DOMAIN overlay.records}}
    BY <2>3, <2>4
  <2>6. WithUnitsAccepted(doc, overlay)
    BY DEF Accepts
  <2>7. Folded(u) \in {Folded(v) : v \in overlay.withs}
    BY <2>5, <2>6 DEF WithUnitsAccepted
  <2>8. PICK v \in overlay.withs : Folded(v) = Folded(u)
    BY <2>7
  <2>. QED
    BY <2>3, <2>8
<1>. QED
  BY <1>1, <1>4, <1>5

\* The package is what the generator makes of a document and an overlay that it accepts.
EmittedFrom(doc, overlay) ==
  /\ Accepts(doc, overlay) /\ Len(overlay.records) = 1
  /\ source = [document |-> doc, overlay |-> overlay]
  /\ fields = Lowered(doc, overlay.records[1]).fields
  /\ ranges = ComponentRanges(doc, overlay.records[1].root)

Made == source # Unset => \E doc \in Documents, overlay \in TheOverlays : EmittedFrom(doc, overlay)

\* Nothing replaces a package; once it is compiled its source is gone.
LEMMA AlwaysMade == Spec => []Made
<1>1. Init => Made
  BY DEF Init, Made, EmittedFrom
<1>2. Made /\ [Next]_vars => Made'
  <2>. SUFFICES ASSUME Made, [Next]_vars PROVE Made'
    OBVIOUS
  <2>1. source' = Unset \/ UNCHANGED package
    BY DEF Next, Compile, Initialize, Begin, Refuse, BeginRecord, NextField, ReadField,
      NoMoreFields, EndRecord, Commit, CommitRefused, FailCall, Rollback, vars
  <2>. QED
    BY <2>1 DEF Made, EmittedFrom, package
<1>. QED
  BY <1>1, <1>2, PTL DEF Spec

\* As many fields as there are components.
LEMMA PositionsAre ==
  ASSUME NEW doc \in Documents, NEW overlay \in TheOverlays, EmittedFrom(doc, overlay),
         NEW owned, owned = Owned(doc, overlay.records[1].root)
  PROVE  /\ Positions = DOMAIN owned /\ Len(fields) = Len(owned)
         /\ \A p, q \in Positions : owned[p] = owned[q] => p = q
         /\ \A p \in Positions : owned[p] \in doc.components
<1>1. PICK n \in Nat : owned \in [1..n -> doc.components] /\ IsInjective(owned)
  BY OwnedLists
<1>2. fields = [i \in 1..n |-> Lowered(doc, overlay.records[1]).fields[i]]
  BY <1>1 DEF EmittedFrom, Lowered
<1>3. Len(fields) = n /\ Len(owned) = n
  BY <1>1, <1>2
<1>. QED
  BY <1>1, <1>2, <1>3 DEF Positions, IsInjective

\* A field of the package has the name of a binding and the kind of its component's type.
LEMMA FieldOf ==
  ASSUME NEW doc \in Documents, NEW overlay \in TheOverlays, EmittedFrom(doc, overlay),
         NEW record, record = overlay.records[1],
         NEW owned, owned = Owned(doc, record.root), NEW p \in Positions
  PROVE  /\ \E i \in 1..Len(record.fields) :
              record.fields[i].component = owned[p].id /\ fields[p].name = record.fields[i].name
         /\ owned[p].type \in DOMAIN doc.declarations
         /\ ScalarKind(doc.declarations[owned[p].type])
         /\ fields[p].kind = doc.declarations[owned[p].type].shape
<1>1. p \in DOMAIN owned
  BY PositionsAre
<1>2. Accepts(doc, overlay) /\ Len(overlay.records) = 1
  BY DEF EmittedFrom
<1>3. PICK i \in 1..Len(record.fields) : BindsField(doc, record, i, p)
  BY <1>1, <1>2, FieldIs
<1>4. fields[p] = [component |-> record.fields[i].adaComponent, type |-> record.fields[i].adaType,
                   kind |-> doc.declarations[owned[p].type].shape, name |-> record.fields[i].name]
  BY <1>3 DEF BindsField, EmittedFrom
<1>5. /\ fields[p].name = record.fields[i].name
      /\ fields[p].kind = doc.declarations[owned[p].type].shape
  BY <1>4
<1>6. /\ record.fields[i].component = owned[p].id
      /\ owned[p].type \in DOMAIN doc.declarations
      /\ ScalarKind(doc.declarations[owned[p].type])
  BY <1>3 DEF BindsField
<1>. QED
  BY <1>5, <1>6, Zenon

\* No two fields have one name.
LEMMA FieldNamesDiffer ==
  ASSUME NEW doc \in Documents, NEW overlay \in TheOverlays, EmittedFrom(doc, overlay),
         NEW p \in Positions, NEW q \in Positions, fields[p].name = fields[q].name
  PROVE  p = q
<1>. DEFINE record == overlay.records[1]
            owned == Owned(doc, record.root)
<1>1. /\ p \in DOMAIN owned /\ q \in DOMAIN owned
      /\ owned[p] \in doc.components /\ owned[q] \in doc.components
      /\ owned[p] = owned[q] => p = q
  BY PositionsAre
<1>2. ASSUME NEW k \in {p, q}
      PROVE  \E i \in 1..Len(record.fields) :
               record.fields[i].component = owned[k].id /\ fields[k].name = record.fields[i].name
  BY FieldOf
<1>3. PICK i \in 1..Len(record.fields) :
        record.fields[i].component = owned[p].id /\ fields[p].name = record.fields[i].name
  BY <1>2
<1>4. PICK j \in 1..Len(record.fields) :
        record.fields[j].component = owned[q].id /\ fields[q].name = record.fields[j].name
  BY <1>2
<1>5. i = j
  BY <1>3, <1>4, NamesDiffer DEF EmittedFrom
<1>6. owned[p].id = owned[q].id
  BY <1>3, <1>4, <1>5
<1>. QED
  BY <1>1, <1>6, DocumentsAssumption

\* The event of a field holds the values of its component.
LEMMA RangesFit ==
  ASSUME NEW doc \in Documents, NEW overlay \in TheOverlays, EmittedFrom(doc, overlay),
         NEW p \in Positions
  PROVE  ranges[p] \subseteq Carried(fields[p].kind)
<1>. DEFINE record == overlay.records[1]
            owned == Owned(doc, record.root)
            d == doc.declarations[owned[p].type]
<1>1. p \in DOMAIN owned
  BY PositionsAre
<1>2. owned[p].type \in DOMAIN doc.declarations /\ ScalarKind(d) /\ fields[p].kind = d.shape
  BY FieldOf
<1>3. ranges[p] = d.low..d.high
  BY <1>1 DEF EmittedFrom, ComponentRanges
<1>4. /\ d.shape = "signed" => d.low \in Int /\ d.high \in Int
      /\ d.shape = "modular" => d.modulus \in Int
  BY <1>2, DocumentsAssumption
<1>. HIDE DEF d
<1>5. Fits(d) /\ d.shape \in {"boolean", "signed", "modular"}
  BY <1>2 DEF ScalarKind
<1>6. CASE d.shape = "boolean"
  BY <1>2, <1>3, <1>5, <1>6 DEF Fits, Carried
<1>7. CASE d.shape = "signed"
  BY <1>2, <1>3, <1>4, <1>5, <1>7, WidthAssumption DEF Fits, Carried
<1>8. CASE d.shape = "modular"
  BY <1>2, <1>3, <1>4, <1>5, <1>8, WidthAssumption DEF Fits, Carried
<1>. QED
  BY <1>5, <1>6, <1>7, <1>8

\* A package that is made of an accepted document writes any value of the record type, and
\* reads back the one it wrote: the event of each field can hold its values, and a name
\* leads to one field.
THEOREM RoundTripsHolds == Spec => []RoundTrips
<1>1. Made => RoundTrips
  <2>. SUFFICES ASSUME Made, source # Unset, NEW item \in Values
                PROVE  /\ Encodes(item)
                       /\ Decodes(Encode(item)) /\ Decoded(Encode(item)) = item
    BY DEF RoundTrips
  <2>1. PICK doc \in Documents, overlay \in TheOverlays : EmittedFrom(doc, overlay)
    BY DEF Made
  <2>2. /\ item = [p \in Positions |-> item[p]]
        /\ \A p \in Positions : item[p] \in ranges[p]
    BY DEF Values
  <2>3. Encodes(item)
    BY <2>1, <2>2, RangesFit DEF Encodes
  <2>4. ASSUME NEW p \in Positions
        PROVE  Branches(fields[p].name) = {p}
    <3>1. p \in Int
      BY <2>1, OwnedLists, PositionsAre
    <3>2. \A q \in Positions : fields[q].name = fields[p].name => q = p
      BY <2>1, FieldNamesDiffer
    <3>3. {q \in Positions : fields[q].name = fields[p].name} = {p}
      BY <3>2, Zenon
    <3>4. p <= p
      BY <3>1
    <3>. QED
      BY <3>3, <3>4 DEF Branches
  <2>. DEFINE entries == Encode(item)
  <2>5. /\ DOMAIN entries = Positions
        /\ \A p \in Positions : entries[p].name = fields[p].name /\ entries[p].value = item[p]
    BY DEF Encode
  <2>. HIDE DEF entries
  <2>6. \A i, p \in Positions : p \in Branches(entries[i].name) <=> i = p
    BY <2>4, <2>5
  <2>7. Decodes(entries)
    BY <2>2, <2>5, <2>6 DEF Decodes
  <2>8. ASSUME NEW p \in Positions
        PROVE  (CHOOSE i \in DOMAIN entries : p \in Branches(entries[i].name)) = p
    BY <2>5, <2>6
  <2>9. Decoded(entries) = item
    BY <2>2, <2>5, <2>8 DEF Decoded
  <2>. QED
    BY <2>3, <2>7, <2>9 DEF entries
<1>. QED
  BY <1>1, AlwaysMade, PTL

\* A package that is made of an accepted document names what the document declares, in the
\* order of the declarations, from the units it is with'ed.
THEOREM FaithfulModelHolds == Spec => []FaithfulModel
<1>1. Made => FaithfulModel
  <2>. SUFFICES ASSUME Made, source # Unset PROVE FaithfulModel
    BY DEF FaithfulModel
  <2>1. PICK doc \in Documents, overlay \in TheOverlays : EmittedFrom(doc, overlay)
    BY DEF Made
  <2>2. source.document = doc /\ source.overlay = overlay
    BY <2>1 DEF EmittedFrom
  <2>. DEFINE record == overlay.records[1]
              owned == Owned(doc, record.root)
  <2>3. Len(fields) = Len(owned) /\ Positions = DOMAIN owned
    BY <2>1, PositionsAre
  <2>4. ASSUME NEW p \in Positions
        PROVE  LET declared == doc.declarations[owned[p].type] IN
                 /\ Fold[fields[p].component] = Fold[owned[p].name]
                 /\ \/ Folded(fields[p].type) = Folded(declared.name)
                    \/ Folded(fields[p].type) = BooleanName /\ declared.id = StandardBoolean
                 /\ \/ \E u \in overlay.withs : IsPrefix(Folded(u), Folded(fields[p].type))
                    \/ Folded(fields[p].type) = BooleanName
    BY <2>1, <2>3, NamesAreDeclared DEF EmittedFrom
  <2>. QED
    BY <2>2, <2>3, <2>4 DEF FaithfulModel
<1>. QED
  BY <1>1, AlwaysMade, PTL
=============================================================================
