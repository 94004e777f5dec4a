------------------------------- MODULE Errors -------------------------------
(***************************************************************************)
(* Flyology_Serde.Errors: the Error_Info every event, adapter and reader   *)
(* threads through a traversal.  The first failure is latched; the logical *)
(* path of the traversal is kept in a bounded array whose overflow is only *)
(* counted.                                                                *)
(*                                                                         *)
(* Path elements are model values: the names and indices they carry are    *)
(* never inspected.  The input offset is left out.                         *)
(***************************************************************************)
EXTENDS Integers, Sequences

CONSTANTS
  Elements,        \* path elements (fields, alternatives, indices)
  Codes,           \* failure codes
  NoError,         \* Errors.No_Error
  InvalidState,    \* Errors.Invalid_State
  DepthExceeded,   \* Errors.Depth_Exceeded
  MaxPathDepth,    \* Maximum_Path_Depth (32)
  MaxOmitted,      \* Natural'Last
  MaxOpen          \* bound on the depth of the traversal that is explored

ASSUME CodesAssumption ==
  /\ {InvalidState, DepthExceeded} \subseteq Codes
  /\ NoError \notin Codes

ASSUME BoundsAssumption ==
  /\ MaxPathDepth \in Nat \ {0}
  /\ MaxOmitted \in Nat
  /\ MaxOpen \in Nat

VARIABLES
  info,       \* the Error_Info
  open,       \* the logical path: what the frames of the traversal entered
  failedAt    \* the logical path when the first failure was latched

vars == <<info, open, failedAt>>

Infos == [code : Codes \cup {NoError}, path : Seq(Elements), omitted : Nat]

Clean == [code |-> NoError, path |-> <<>>, omitted |-> 0]

-----------------------------------------------------------------------------
(* The operations of the package, as functions of the Error_Info. *)

Latched(i) == i.code # NoError

\* A slip: the last failure wins.
FailAlways(i, c) == [i EXCEPT !.code = c]

Fail(i, c) == IF Latched(i) THEN i ELSE [i EXCEPT !.code = c]

\* Both Push and Pop refuse a path that overflowed without being full.
Broken(i) == i.omitted > 0 /\ Len(i.path) < MaxPathDepth

\* The overflow branch of Push_Name and Push_Index.
PushOmitted(i) ==
  IF i.omitted = MaxOmitted
  THEN Fail(i, DepthExceeded)
  ELSE [i EXCEPT !.omitted = @ + 1]

\* A slip: a full path drops its outermost element instead of the new one.
PushElementInnermost(i, e) ==
  CASE Latched(i) -> i
    [] ~Latched(i) /\ Len(i.path) = MaxPathDepth ->
         [i EXCEPT !.path = Append(Tail(@), e), !.omitted = @ + 1]
    [] OTHER -> [i EXCEPT !.path = Append(@, e)]

\* Push_Field, Push_Alternative and Push_Index.
PushElement(i, e) ==
  CASE Latched(i) -> i
    [] ~Latched(i) /\ Broken(i) -> Fail(i, InvalidState)
    [] ~Latched(i) /\ ~Broken(i) /\ Len(i.path) = MaxPathDepth -> PushOmitted(i)
    [] OTHER -> [i EXCEPT !.path = Append(@, e)]

\* A slip of Pop: the latch is not consulted, so unwinding erases the path.
PopAnyway(i) ==
  IF i.omitted > 0
  THEN [i EXCEPT !.omitted = @ - 1]
  ELSE [i EXCEPT !.path = SubSeq(@, 1, Len(@) - 1)]

PopElement(i) ==
  CASE Latched(i) -> i
    [] ~Latched(i) /\ Broken(i) -> Fail(i, InvalidState)
    [] ~Latched(i) /\ ~Broken(i) /\ i.omitted > 0 -> [i EXCEPT !.omitted = @ - 1]
    [] ~Latched(i) /\ i.omitted = 0 /\ i.path # <<>> ->
         [i EXCEPT !.path = SubSeq(@, 1, Len(@) - 1)]
    [] OTHER -> i

ClearPath(i) == [code |-> i.code, path |-> <<>>, omitted |-> 0]

-----------------------------------------------------------------------------
(* The traversal that uses it: every adapter frame pushes the element it   *)
(* enters and pops it when it returns, whether or not the error is latched.*)

Init ==
  /\ info = Clean
  /\ open = <<>>
  /\ failedAt = <<>>

\* failedAt follows the latch: it is set by the step that closes it.
NoteFailure(at) ==
  failedAt' = IF ~Latched(info) /\ Latched(info') THEN at ELSE failedAt

\* An adapter enters a child; a full and exhausted path makes Push itself fail.
Enter(e) ==
  /\ Len(open) < MaxOpen
  /\ info' = PushElement(info, e)
  /\ open' = Append(open, e)
  /\ NoteFailure(open)

\* The child returns, by success or because the error was latched below it.
Leave ==
  /\ open # <<>>
  /\ info' = PopElement(info)
  /\ open' = SubSeq(open, 1, Len(open) - 1)
  /\ NoteFailure(open')

\* Some call below the current frame reports a failure.
Report(c) ==
  /\ info' = Fail(info, c)
  /\ NoteFailure(open)
  /\ UNCHANGED open

\* A callback raises: no frame pops, and the root adapter clears the path.
Raise ==
  /\ info' = ClearPath(info)
  /\ open' = <<>>
  /\ failedAt' = <<>>

\* The caller reuses the Error_Info for another traversal.
Reset ==
  /\ open = <<>>
  /\ info' = Clean
  /\ failedAt' = <<>>
  /\ UNCHANGED open

Next ==
  \/ \E e \in Elements : Enter(e)
  \/ Leave
  \/ \E c \in Codes : Report(c)
  \/ Raise
  \/ Reset

Spec == Init /\ [][Next]_vars

-----------------------------------------------------------------------------
(* Properties. *)

\* Type invariant: the path array and the omitted counter keep their ranges.
TypeOK ==
  /\ info \in Infos
  /\ Len(info.path) <= MaxPathDepth
  /\ info.omitted <= MaxOmitted
  /\ open \in Seq(Elements)
  /\ failedAt \in Seq(Elements)

\* `i` describes the logical path `p`: the outermost MaxPathDepth elements in
\* root-to-leaf order, and the length of the rest.
Describes(i, p) ==
  /\ Len(i.path) = IF Len(p) < MaxPathDepth THEN Len(p) ELSE MaxPathDepth
  /\ \A k \in 1..Len(i.path) : i.path[k] = p[k]
  /\ i.omitted = Len(p) - Len(i.path)

\* While nothing failed, the Error_Info describes the frames that are open:
\* pushes and pops through the overflow counter lose nothing.
PathFollowsTraversal == ~Latched(info) => Describes(info, open)

\* After a failure it keeps describing the place of the failure, however far
\* the traversal has unwound, and whatever the unwinding frames pop.
PathNamesFailure == Latched(info) => Describes(info, failedAt)

\* The first failure wins: only Reset takes a latched code away.
FirstFailureWins == [][Latched(info) => info'.code = info.code \/ Reset]_vars
=============================================================================
