---------------------------- MODULE MCGeneration ----------------------------
(* Two generators and three documents: the reviewed one, the same with other *)
(* bytes, and one that means something else.                                 *)
EXTENDS Generation

CONSTANTS g1, g2, impl1, impl2, reviewed, reformatted, changed

MCGenerators == {g1, g2}
MCImplementations == {impl1, impl2}
MCDocuments == {reviewed, reformatted, changed}

MCMeaning == [d \in MCDocuments |-> IF d = changed THEN "other" ELSE "wire record"]

\* A document the strict profile admits does not exist yet.
MCAdmitted ==
  [profile \in {"fixture_shape", "strict"} |->
     IF profile = "strict" THEN {changed} ELSE MCDocuments]

OverlayFor(d, fixtureOnly) ==
  [wellFormed |-> TRUE, fixtureOnly |-> fixtureOnly, source |-> d, meaning |-> MCMeaning[d]]

MCOverlays ==
  {OverlayFor(reviewed, TRUE), OverlayFor(reformatted, TRUE), OverlayFor(changed, FALSE),
   [OverlayFor(reviewed, TRUE) EXCEPT !.wellFormed = FALSE]}
=============================================================================
