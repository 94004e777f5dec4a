------------------------- MODULE MCSerializerParity -------------------------
(* Two levels of nesting under a root that would allow three, at most two   *)
(* items where a traversal may declare three, seven logical events, and     *)
(* writers with room for every such traversal or for one string only.       *)
EXTENDS SerializerParity

MCLimits == [nesting |-> 3, items |-> 2, events |-> 7]
=============================================================================
