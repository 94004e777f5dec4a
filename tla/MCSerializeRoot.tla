---------------------------- MODULE MCSerializeRoot ----------------------------
(* Traversals of up to four logical events over every kind of container, by *)
(* a source that repeats itself or not, into a writer with room for one to  *)
(* five strings that its client may also have opened or finished itself.    *)
EXTENDS SerializeRoot

MCLimits == [nesting |-> 2, items |-> 1, events |-> 4]

MCTraversalEvents ==
  EventsOver({"text"}, {"text"}, {"nonfinite"}, {Known_Length(1), Unknown_Length}, {1})

MCClientEvents == {[op |-> "Put_Scalar"], [op |-> "Begin_Optional", present |-> FALSE]}
=============================================================================
