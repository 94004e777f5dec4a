------------------------- MODULE MCGeneratedAdapter -------------------------
(* A record of two components, the documents that differ from it in one      *)
(* place, and the overlays that bind two fields in any way.                   *)
EXTENDS GeneratedAdapter

MCFold ==
  [s \in {"wire", "Wire", "shape", "count", "flags", "standard", "boolean", "Boolean",
          "serde", "first", "First", "second"} |->
     IF s = "Wire" THEN "wire" ELSE IF s = "Boolean" THEN "boolean"
     ELSE IF s = "First" THEN "first" ELSE s]

MCLogicalNames == {"a", "b"}

MCMinSigned == -1

GoodFacts ==
  [f \in Forbidden \cup {"representation_available", "definite", "predicate", "range_predicate",
     "staticness", "consumer_can_name_components"} |->
     IF f \in Forbidden \cup {"predicate", "range_predicate"} THEN "no" ELSE "yes"]

Declaration(id, name, shape, low, high) ==
  [id |-> id, name |-> name, shape |-> shape, low |-> low, high |-> high,
   modulus |-> high + 1, directPublic |-> TRUE, referenced |-> FALSE, constrained |-> FALSE,
   facts |-> GoodFacts]

Component(id, name, order, type) ==
  [id |-> id, name |-> name, order |-> order, type |-> type, owner |-> "shape",
   default |-> FALSE, variant |-> FALSE, constrained |-> FALSE,
   facts |-> [f \in {"aliased", "constant"} |-> "no"]]

Good ==
  [generic |-> FALSE, consumer |-> <<"serde">>, closure |-> <<<<"wire">>, <<"serde">>>>,
   declarations |->
     [id \in {"shape", "count", "flags", "boolean"} |->
        IF id = "shape" THEN Declaration(id, <<"wire", "shape">>, "record", 0, 0)
        ELSE IF id = "count" THEN Declaration(id, <<"wire", "count">>, "signed", 0, 1)
        ELSE IF id = "flags" THEN Declaration(id, <<"wire", "flags">>, "modular", 0, 1)
        ELSE Declaration(id, <<"standard", "boolean">>, "boolean", 0, 1)],
   components |-> {Component("c1", "first", 1, "count"), Component("c2", "second", 2, "boolean")},
   discriminated |-> {}, variant |-> {}]

WithFact(id, f, value) == [Good EXCEPT !.declarations[id].facts[f] = value]

Changed(c, d) == [Good EXCEPT !.components = (@ \ {c}) \cup {d}]

MCDocuments ==
  {Good, [Good EXCEPT !.generic = TRUE], [Good EXCEPT !.discriminated = {"shape"}],
   [Good EXCEPT !.closure = <<<<"wire">>, <<"Wire">>>>], [Good EXCEPT !.closure = <<<<"serde">>>>],
   [Good EXCEPT !.declarations["count"].high = MaxSigned + 1],
   [Good EXCEPT !.declarations["count"].low = 1]} \cup
  {WithFact(id, f, v) : id \in {"shape", "count"}, f \in DOMAIN GoodFacts, v \in {"yes", "unknown"}} \cup
  UNION {{Changed(c, [c EXCEPT !.type = "flags"]), Changed(c, [c EXCEPT !.order = 3 - @]),
          Changed(c, [c EXCEPT !.default = TRUE]), Changed(c, [c EXCEPT !.owner = "other"])} :
           c \in Good.components} \cup
  {[Changed(c, [c EXCEPT !.type = "flags"]) EXCEPT !.declarations["flags"].high = h,
                                                   !.declarations["flags"].modulus = h + 1] :
     c \in Good.components, h \in {0, MaxUnsigned + 1}} \cup
  {[Good EXCEPT !.components =
      {Component("c1", "first", 2, "count"), Component("c2", "second", 1, "boolean")}]}

Bindings ==
  [component : {"c1", "c2"}, adaComponent : {"First", "second"},
   adaType : {<<"Wire", "count">>, <<"wire", "flags">>, <<"Boolean">>}, name : {"a", "b"}]

MCOverlays ==
  {[fixtureOnly |-> f, unit |-> <<"serde">>, withs |-> w,
    records |-> <<[root |-> "shape", type |-> <<"wire", "shape">>, logical |-> "a",
                   fields |-> <<b1, b2>>]>>] :
     f \in BOOLEAN, w \in {{<<"wire">>}, {<<"wire">>, <<"serde">>}}, b1 \in Bindings, b2 \in Bindings}
=============================================================================
