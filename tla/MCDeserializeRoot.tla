--------------------------- MODULE MCDeserializeRoot ---------------------------
(* Two fields; the first has an alias, "x" belongs to none.  In the second   *)
(* description the alias matches both fields.                                *)
EXTENDS DeserializeRoot

MCDecodeLimits == [nesting |-> 2, items |-> 2, input |-> 6, values |-> 4]
MCNames == {"a", "b", "alias", "x"}
MCDeclared == <<<<"a", "alias">>, <<"b">>>>
MCRecords ==
  {[declared |-> MCDeclared, matches |-> <<{"a", "alias"}, {"b"}>>],
   [declared |-> MCDeclared, matches |-> <<{"a", "alias"}, {"alias", "b"}>>]}
MCPolicies == [duplicates : {"Reject_Duplicate", "Keep_First", "Keep_Last"},
               unknown : {"Reject_Unknown", "Ignore_Unknown"}]
=============================================================================
