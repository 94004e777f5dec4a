------------------------------ MODULE MCWriters ------------------------------
(* A writer nested two deep with room for seven strings, or for six heads   *)
(* or strings if it is a CBOR writer: enough for a map of two entries, a    *)
(* variant of one field, or a nested container of unknown length with its   *)
(* break.                                                                   *)
EXTENDS Writers

MCLimits == [nesting |-> 2, items |-> 2, events |-> 8]
=============================================================================
