--------------------------- MODULE MCPublication ---------------------------
(* Two generators that compete for one output directory, and both readers. *)
EXTENDS PublicationReaders, TLC

CONSTANTS g1, g2

MCGenerators == {g1, g2}
=============================================================================
