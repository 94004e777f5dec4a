---------------------------- MODULE ErrorsProofs ----------------------------
(***************************************************************************)
(* What an Error_Info says of a traversal, for every path bound.           *)
(***************************************************************************)
EXTENDS Errors, SequenceTheorems, TLAPS

(* The overflow guard of Push and Pop never fires: a path that omits       *)
(* elements is full.                                                       *)
LEMMA DescribedIsWhole ==
  ASSUME NEW i \in Infos, NEW p \in Seq(Elements), Describes(i, p)
  PROVE  ~Broken(i)
BY BoundsAssumption DEF Describes, Broken, Infos

(* Dropping the last element of a sequence keeps the others in place.      *)
LEMMA FrontOf ==
  ASSUME NEW s \in Seq(Elements), s # <<>>, NEW f, f = SubSeq(s, 1, Len(s) - 1)
  PROVE  /\ f \in Seq(Elements)
         /\ Len(f) = Len(s) - 1
         /\ \A k \in 1..Len(f) : f[k] = s[k]
<1>1. PICK m : m = Len(s) - 1
  OBVIOUS
<1>2. m \in Nat /\ Len(s) = m + 1 /\ \A k \in 1..m : s[k] \in Elements
  BY <1>1
<1>3. SubSeq(s, 1, m) \in Seq(Elements) /\ \A k \in 1..m : SubSeq(s, 1, m)[k] = s[k]
  BY <1>1, <1>2
<1>4. Len(SubSeq(s, 1, m)) = IF 1 <= m THEN m - 1 + 1 ELSE 0
  BY <1>2, SubSeqProperties
<1>. QED
  BY <1>1, <1>2, <1>3, <1>4

(* Appending an element keeps the others in place.                         *)
LEMMA AppendTo ==
  ASSUME NEW s \in Seq(Elements), NEW e \in Elements, NEW f, f = Append(s, e)
  PROVE  /\ f \in Seq(Elements)
         /\ Len(f) = Len(s) + 1
         /\ \A k \in 1..Len(s) : f[k] = s[k]
         /\ f[Len(s) + 1] = e
OBVIOUS

(* Pushing an element keeps describing the path, or latches a failure and  *)
(* leaves the description of the path that was there.                      *)
LEMMA PushDescribes ==
  ASSUME NEW i \in Infos, NEW p \in Seq(Elements), NEW e \in Elements,
         ~Latched(i), Describes(i, p), Len(i.path) <= MaxPathDepth,
         i.omitted <= MaxOmitted,
         NEW j, j = PushElement(i, e),
         NEW q, q = Append(p, e)
  PROVE  /\ j \in Infos
         /\ Len(j.path) <= MaxPathDepth
         /\ j.omitted <= MaxOmitted
         /\ ~Latched(j) => Describes(j, q)
         /\ Latched(j) => Describes(j, p)
<1>1. ~Broken(i)
  BY DescribedIsWhole
<1>2. /\ q \in Seq(Elements)
      /\ Len(q) = Len(p) + 1
      /\ \A k \in 1..Len(p) : q[k] = p[k]
      /\ q[Len(p) + 1] = e
  BY AppendTo
<1>3. CASE Len(i.path) = MaxPathDepth /\ i.omitted = MaxOmitted
  <2>1. j = [i EXCEPT !.code = DepthExceeded]
    BY <1>1, <1>3 DEF PushElement, PushOmitted, Fail
  <2>2. j \in Infos /\ Latched(j) /\ j.path = i.path /\ j.omitted = i.omitted
    BY <2>1, CodesAssumption DEF Infos, Latched
  <2>. QED
    BY <2>2 DEF Describes
<1>4. CASE Len(i.path) = MaxPathDepth /\ i.omitted # MaxOmitted
  <2>1. j = [i EXCEPT !.omitted = @ + 1]
    BY <1>1, <1>4 DEF PushElement, PushOmitted
  <2>2. j \in Infos /\ ~Latched(j) /\ j.path = i.path /\ j.omitted = i.omitted + 1
    BY <2>1 DEF Infos, Latched
  <2>3. j.omitted <= MaxOmitted
    BY <1>4, <2>2, BoundsAssumption DEF Infos
  <2>4. Len(p) >= MaxPathDepth /\ i.omitted = Len(p) - MaxPathDepth
    BY <1>4, BoundsAssumption DEF Describes
  <2>7. ~(Len(q) < MaxPathDepth) /\ j.omitted = Len(q) - MaxPathDepth
    BY <1>2, <2>2, <2>4, BoundsAssumption
  <2>5. \A k \in 1..Len(i.path) : i.path[k] = q[k]
    BY <1>2, <1>4, <2>4, BoundsAssumption DEF Describes
  <2>6. Describes(j, q)
    BY <1>4, <2>2, <2>5, <2>7 DEF Describes
  <2>. QED
    BY <1>4, <2>2, <2>3, <2>6, BoundsAssumption
<1>5. CASE Len(i.path) # MaxPathDepth
  <2>1. j = [i EXCEPT !.path = Append(@, e)]
    BY <1>1, <1>5 DEF PushElement
  <2>2. i.path \in Seq(Elements) /\ Append(i.path, e) \in Seq(Elements)
    BY DEF Infos
  <2>3. /\ j \in Infos
        /\ ~Latched(j)
        /\ j.path = Append(i.path, e)
        /\ j.omitted = i.omitted
    BY <2>1, <2>2 DEF Infos, Latched
  <2>4. Len(p) = Len(i.path) /\ i.omitted = 0
    BY <1>5, BoundsAssumption DEF Describes, Infos
  <2>5. /\ Len(j.path) = Len(p) + 1
        /\ \A k \in 1..Len(p) : j.path[k] = i.path[k]
        /\ j.path[Len(p) + 1] = e
    BY <2>2, <2>3, <2>4, AppendTo
  <2>6. Len(p) + 1 <= MaxPathDepth
    BY <1>5, <2>2, <2>4, BoundsAssumption
  <2>7. \A k \in 1..Len(j.path) : j.path[k] = q[k]
    BY <1>2, <2>4, <2>5 DEF Describes
  <2>8. Describes(j, q)
    BY <1>2, <2>3, <2>4, <2>5, <2>6, <2>7, BoundsAssumption DEF Describes
  <2>. QED
    BY <2>3, <2>4, <2>5, <2>6, <2>8
<1>. QED
  BY <1>3, <1>4, <1>5

(* Popping the last element keeps describing what is left of the path.     *)
LEMMA PopDescribes ==
  ASSUME NEW i \in Infos, NEW p \in Seq(Elements), p # <<>>,
         ~Latched(i), Describes(i, p), Len(i.path) <= MaxPathDepth,
         i.omitted <= MaxOmitted,
         NEW j, j = PopElement(i),
         NEW q, q = SubSeq(p, 1, Len(p) - 1)
  PROVE  /\ j \in Infos
         /\ Len(j.path) <= MaxPathDepth
         /\ j.omitted <= MaxOmitted
         /\ ~Latched(j)
         /\ Describes(j, q)
<1>1. ~Broken(i)
  BY DescribedIsWhole
<1>2. /\ q \in Seq(Elements)
      /\ Len(q) = Len(p) - 1
      /\ \A k \in 1..Len(q) : q[k] = p[k]
  BY FrontOf
<1>3. CASE i.omitted > 0
  <2>1. j = [i EXCEPT !.omitted = @ - 1]
    BY <1>1, <1>3 DEF PopElement
  <2>2. j \in Infos /\ ~Latched(j) /\ j.path = i.path /\ j.omitted = i.omitted - 1
    BY <1>3, <2>1 DEF Infos, Latched
  <2>3. /\ Len(i.path) = MaxPathDepth
        /\ Len(p) > MaxPathDepth
        /\ i.omitted = Len(p) - MaxPathDepth
    BY <1>3, BoundsAssumption DEF Describes, Infos
  <2>6. ~(Len(q) < MaxPathDepth) /\ j.omitted = Len(q) - MaxPathDepth
    BY <1>2, <2>2, <2>3, BoundsAssumption
  <2>4. \A k \in 1..Len(i.path) : i.path[k] = q[k]
    BY <1>2, <2>3, BoundsAssumption DEF Describes
  <2>5. Describes(j, q)
    BY <2>2, <2>3, <2>4, <2>6 DEF Describes
  <2>. QED
    BY <1>3, <2>2, <2>3, <2>5, BoundsAssumption DEF Infos
<1>4. CASE i.omitted = 0
  <2>1. i.path # <<>> /\ Len(i.path) = Len(p) /\ i.path \in Seq(Elements)
    BY <1>4, BoundsAssumption DEF Describes, Infos
  <2>2. j = [i EXCEPT !.path = SubSeq(@, 1, Len(@) - 1)]
    BY <1>1, <1>4, <2>1 DEF PopElement
  <2>3. PICK f : f = SubSeq(i.path, 1, Len(i.path) - 1)
    OBVIOUS
  <2>4. f \in Seq(Elements) /\ Len(f) = Len(p) - 1 /\ \A k \in 1..Len(f) : f[k] = i.path[k]
    BY <2>1, <2>3, FrontOf
  <2>5. j \in Infos /\ ~Latched(j) /\ j.path = f /\ j.omitted = 0
    BY <1>4, <2>2, <2>3, <2>4 DEF Infos, Latched
  <2>6. \A k \in 1..Len(f) : f[k] = q[k]
    BY <1>2, <2>1, <2>4 DEF Describes
  <2>7. Describes(j, q)
    BY <1>2, <2>1, <2>4, <2>5, <2>6, BoundsAssumption DEF Describes
  <2>. QED
    BY <2>1, <2>4, <2>5, <2>7, BoundsAssumption
<1>. QED
  BY <1>3, <1>4 DEF Infos

(* What Push and Pop both rely on and both restore: the ranges, the path   *)
(* described and, after a failure, where it happened.                      *)
IInv == TypeOK /\ PathFollowsTraversal /\ PathNamesFailure

(* A clean Error_Info describes the empty path.                            *)
LEMMA InitIInv == Init => IInv
BY CodesAssumption, BoundsAssumption
DEF Init, Clean, IInv, TypeOK, Infos, PathFollowsTraversal, PathNamesFailure, Describes, Latched

(* Push_Field, Push_Alternative and Push_Index keep the invariant, the push *)
(* that fails for want of a counter included.                              *)
LEMMA EnterIInv == ASSUME IInv, NEW e \in Elements, Enter(e) PROVE IInv'
<1>1. CASE Latched(info)
  <2>1. info' = info /\ failedAt' = failedAt /\ open' \in Seq(Elements)
    BY <1>1 DEF IInv, TypeOK, Enter, PushElement, NoteFailure
  <2>. QED
    BY <1>1, <2>1 DEF IInv, TypeOK, PathFollowsTraversal, PathNamesFailure, Latched, Describes
<1>2. CASE ~Latched(info)
  <2>1. /\ info' = PushElement(info, e)
        /\ open' = Append(open, e)
        /\ failedAt' = IF Latched(info') THEN open ELSE failedAt
    BY <1>2 DEF Enter, NoteFailure
  <2>2. /\ info' \in Infos
        /\ Len(info'.path) <= MaxPathDepth
        /\ info'.omitted <= MaxOmitted
        /\ ~Latched(info') => Describes(info', open')
        /\ Latched(info') => Describes(info', open)
    BY <1>2, <2>1, PushDescribes DEF IInv, TypeOK, PathFollowsTraversal
  <2>3. TypeOK'
    BY <2>1, <2>2 DEF IInv, TypeOK
  <2>. QED
    BY <2>1, <2>2, <2>3 DEF IInv, PathFollowsTraversal, PathNamesFailure, Latched, Describes
<1>. QED
  BY <1>1, <1>2

(* Pop keeps the invariant, and is a no-op on a latched Error_Info.        *)
LEMMA LeaveIInv == ASSUME IInv, Leave PROVE IInv'
<1>0. open' \in Seq(Elements)
  BY DEF IInv, TypeOK, Leave
<1>1. CASE Latched(info)
  <2>1. info' = info /\ failedAt' = failedAt
    BY <1>1 DEF Leave, PopElement, NoteFailure
  <2>. QED
    BY <1>0, <1>1, <2>1 DEF IInv, TypeOK, PathFollowsTraversal, PathNamesFailure, Latched, Describes
<1>2. CASE ~Latched(info)
  <2>1. /\ info' = PopElement(info)
        /\ open' = SubSeq(open, 1, Len(open) - 1)
        /\ open # <<>>
    BY DEF Leave
  <2>2. /\ info' \in Infos
        /\ Len(info'.path) <= MaxPathDepth
        /\ info'.omitted <= MaxOmitted
        /\ ~Latched(info')
        /\ Describes(info', open')
    BY <1>2, <2>1, PopDescribes DEF IInv, TypeOK, PathFollowsTraversal
  <2>3. failedAt' = failedAt
    BY <2>2 DEF Leave, NoteFailure
  <2>. QED
    BY <1>0, <2>2, <2>3 DEF IInv, TypeOK, PathFollowsTraversal, PathNamesFailure, Latched, Describes
<1>. QED
  BY <1>1, <1>2

(* Fail latches the place where it is called, the first time only.         *)
LEMMA ReportIInv == ASSUME IInv, NEW c \in Codes, Report(c) PROVE IInv'
<1>1. CASE Latched(info)
  BY <1>1 DEF IInv, TypeOK, Report, Fail, NoteFailure, PathFollowsTraversal, PathNamesFailure,
              Latched, Describes
<1>2. CASE ~Latched(info)
  <2>1. info' = [info EXCEPT !.code = c] /\ open' = open /\ failedAt' = open
    BY <1>2, CodesAssumption DEF IInv, TypeOK, Infos, Report, Fail, NoteFailure, Latched
  <2>. QED
    BY <1>2, <2>1, CodesAssumption
    DEF IInv, TypeOK, Infos, PathFollowsTraversal, PathNamesFailure, Latched, Describes
<1>. QED
  BY <1>1, <1>2

(* An exception loses the whole path, by Clear_Path, and keeps the code.   *)
LEMMA RaiseIInv == ASSUME IInv, Raise PROVE IInv'
<1>1. /\ info' \in Infos
      /\ info'.path = <<>>
      /\ info'.omitted = 0
      /\ open' = <<>>
      /\ failedAt' = <<>>
  <2>1. info' = [code |-> info.code, path |-> <<>>, omitted |-> 0]
    BY DEF Raise, ClearPath
  <2>2. info \in Infos /\ <<>> \in Seq(Elements)
    BY DEF IInv, TypeOK
  <2>. QED
    BY <2>1, <2>2 DEF Infos, Raise
<1>2. Describes(info', <<>>)
  BY <1>1, BoundsAssumption DEF Describes
<1>. QED
  BY <1>1, <1>2, BoundsAssumption
  DEF IInv, TypeOK, PathFollowsTraversal, PathNamesFailure, Latched, Describes

(* Reset gives a clean Error_Info and starts another traversal.            *)
LEMMA ResetIInv == ASSUME IInv, Reset PROVE IInv'
BY CodesAssumption, BoundsAssumption
DEF IInv, TypeOK, Infos, Reset, Clean, PathFollowsTraversal, PathNamesFailure, Latched, Describes

(* A step that leaves every variable alone keeps the invariant.            *)
LEMMA StutterIInv == ASSUME IInv, UNCHANGED vars PROVE IInv'
BY DEF IInv, TypeOK, vars, PathFollowsTraversal, PathNamesFailure, Latched, Describes

(* The inductive invariant: Push and Pop are right about the path only if  *)
(* it is described exactly, so both properties are proved together.        *)
THEOREM Inductive == Spec => []IInv
<1>1. IInv /\ [Next]_vars => IInv'
  BY EnterIInv, LeaveIInv, ReportIInv, RaiseIInv, ResetIInv, StutterIInv DEF Next
<1>. QED
  BY <1>1, InitIInv, PTL DEF Spec

(* Error_Info keeps its ranges: Path_Length and Omitted_Path_Elements.     *)
THEOREM TypeCorrect == Spec => []TypeOK
<1>1. IInv => TypeOK
  BY DEF IInv
<1>. QED
  BY <1>1, Inductive, PTL

(* However deep the traversal, the Error_Info of an unfailed traversal is  *)
(* its outermost frames, in order, and the number of the others.           *)
THEOREM PathFollows == Spec => []PathFollowsTraversal
<1>1. IInv => PathFollowsTraversal
  BY DEF IInv
<1>. QED
  BY <1>1, Inductive, PTL

(* A latched Error_Info describes the place of the first failure while the *)
(* traversal unwinds through any number of pops.                           *)
THEOREM PathNames == Spec => []PathNamesFailure
<1>1. IInv => PathNamesFailure
  BY DEF IInv
<1>. QED
  BY <1>1, Inductive, PTL

(* Only Reset takes a latched failure code away.                           *)
THEOREM FirstFailure == Spec => FirstFailureWins
<1>1. [Next]_vars => [Latched(info) => info'.code = info.code \/ Reset]_vars
  <2> SUFFICES ASSUME Next, Latched(info), ~Reset PROVE info'.code = info.code
    BY DEF vars
  <2>1. CASE \E e \in Elements : Enter(e)
    BY <2>1 DEF Enter, PushElement
  <2>2. CASE Leave
    BY <2>2 DEF Leave, PopElement
  <2>3. CASE \E c \in Codes : Report(c)
    BY <2>3 DEF Report, Fail
  <2>4. CASE Raise
    BY <2>4 DEF Raise, ClearPath
  <2>. QED
    BY <2>1, <2>2, <2>3, <2>4 DEF Next
<1>. QED
  BY <1>1, PTL DEF Spec, FirstFailureWins
=============================================================================
