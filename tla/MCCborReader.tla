----------------------------- MODULE MCCborReader -----------------------------
(* Sources of up to four tokens, containers nested two deep with up to two  *)
(* items each, three logical values.                                         *)
EXTENDS CborClient

MCDecodeLimits == [nesting |-> 2, items |-> 2, input |-> 4, values |-> 3]
=============================================================================
