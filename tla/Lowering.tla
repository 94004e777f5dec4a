------------------------------ MODULE Lowering ------------------------------
(***************************************************************************)
(* lower in tools/generator/generator_impl.py: from a checked Type IR      *)
(* document and an overlay to the model that render prints, or a           *)
(* rejection.  Every check of the code is a conjunct here.                 *)
(*                                                                         *)
(* A name is the sequence of its segments; Fold takes a segment to what it *)
(* is without regard to case.  Fold's domain is the segments that          *)
(* validate_selected_name accepts, LogicalNames what validate_logical_name *)
(* does.  A fact of the document is "yes", "no" or "unknown": known_boolean *)
(* raises on the last, so that both answers ask for a Known one.  The      *)
(* order of the with clauses, which is sorted, is left out.                *)
(***************************************************************************)
EXTENDS Integers, SequencesExt

CONSTANTS
  Fold,            \* the segments of Ada names, and what they fold to
  LogicalNames,    \* the names a field or a type may have in a document
  StandardBoolean, \* the declaration of Standard.Boolean
  MinSigned, MaxSigned, MaxUnsigned   \* the ranges of Integer_64 and Unsigned_64

ASSUME WidthAssumption ==
  MinSigned \in Int /\ MaxSigned \in Nat /\ MaxUnsigned \in Nat /\ MinSigned <= MaxSigned

SelectedName(n) == n # <<>> /\ \A i \in DOMAIN n : n[i] \in DOMAIN Fold
Folded(n) == [i \in DOMAIN n |-> Fold[n[i]]]

BooleanName == <<"boolean">>

SelectedNameMatchesCanonical(selected, canonical) ==
  \/ Folded(selected) = Folded(canonical)
  \/ Folded(canonical) = <<"standard", "boolean">> /\ Folded(selected) = BooleanName

-----------------------------------------------------------------------------
(* Declarations. *)

Forbidden ==
  {"limited", "controlled", "contains_controlled", "contains_access", "tagged",
   "class_wide", "abstract", "task", "protected"}

SafeDeclaration(d) ==
  /\ d.directPublic /\ ~d.referenced
  /\ d.facts["representation_available"] = "yes" /\ d.facts["definite"] = "yes"
  /\ \A f \in Forbidden : d.facts[f] = "no"

\* A static range without predicates.
PlainRange(d) ==
  /\ d.facts["predicate"] = "no" /\ d.facts["range_predicate"] = "no"
  /\ d.facts["staticness"] = "yes"

Fits(d) ==
  /\ d.shape = "boolean" => d.id = StandardBoolean /\ d.low = 0 /\ d.high = 1
  /\ d.shape = "signed" => MinSigned <= d.low /\ d.low <= d.high /\ d.high <= MaxSigned
  /\ d.shape = "modular" => d.low = 0 /\ d.high = d.modulus - 1 /\ d.modulus <= MaxUnsigned + 1

\* scalar_kind, where it does not raise, is the shape.
ScalarKind(d) ==
  /\ SafeDeclaration(d) /\ PlainRange(d)
  /\ d.shape \in {"boolean", "signed", "modular"} /\ Fits(d)

-----------------------------------------------------------------------------
(* The project closure. *)

ClosureAccepted(doc) ==
  /\ \A i \in DOMAIN doc.closure : SelectedName(doc.closure[i])
  /\ \A i, j \in DOMAIN doc.closure :
       Folded(doc.closure[i]) = Folded(doc.closure[j]) => i = j

\* The units of the closure that are a name or one of its parents.
UnitsFor(doc, name) ==
  {u \in Range(doc.closure) : IsPrefix(Folded(u), Folded(name))}

Nameable(doc, name) == UnitsFor(doc, name) # {} \/ Folded(name) = BooleanName

\* The longest of them is needed; Boolean needs none.
NeededFor(doc, name) ==
  {u \in UnitsFor(doc, name) : \A v \in UnitsFor(doc, name) : Len(v) <= Len(u)}

-----------------------------------------------------------------------------
(* Records. *)

\* The components of a record in the order of their declaration.
Owned(doc, root) ==
  LET C == {c \in doc.components : c.owner = root} IN
    CHOOSE s \in [1..Cardinality(C) -> C] :
      IsInjective(s) /\ \A i, j \in DOMAIN s : i < j => s[i].order <= s[j].order

RootAccepted(doc, record) ==
  /\ record.root \in DOMAIN doc.declarations
  /\ LET d == doc.declarations[record.root] IN
       /\ SafeDeclaration(d)
       /\ d.shape = "record" /\ ~d.constrained
       /\ d.facts["consumer_can_name_components"] = "yes"
       /\ SelectedName(record.type) /\ SelectedNameMatchesCanonical(record.type, d.name)
  /\ record.root \notin doc.discriminated \cup doc.variant
  /\ Nameable(doc, record.type)
  /\ record.logical \in LogicalNames

\* The binding of a component: by_id keeps the last of a repeated one, which is
\* refused anyway.
Bound(record, c) ==
  LET I == {i \in DOMAIN record.fields : record.fields[i].component = c.id} IN
    {record.fields[i] : i \in {j \in I : \A k \in I : k <= j}}

ComponentAccepted(doc, record, c) ==
  /\ ~c.default /\ ~c.variant /\ ~c.constrained
  /\ c.facts["aliased"] = "no" /\ c.facts["constant"] = "no"
  /\ c.type \in DOMAIN doc.declarations
  /\ LET d == doc.declarations[c.type] IN
       /\ ScalarKind(d)
       /\ \E b \in Bound(record, c) :
            /\ SelectedName(<<b.adaComponent>>) /\ Fold[b.adaComponent] = Fold[c.name]
            /\ SelectedName(b.adaType) /\ SelectedNameMatchesCanonical(b.adaType, d.name)
            /\ Nameable(doc, b.adaType)
            /\ b.name \in LogicalNames

\* A slip: two components may have one presentation name.
FieldsAcceptedAnyNames(doc, record) ==
  LET owned == Owned(doc, record.root)
      ids == {record.fields[i].component : i \in DOMAIN record.fields} IN
    /\ owned # <<>> /\ Len(record.fields) = Len(owned)
    /\ Cardinality(ids) = Len(record.fields)
    /\ \A i \in DOMAIN owned : ComponentAccepted(doc, record, owned[i])

\* The bindings are complete and their presentation names distinct.
FieldsAccepted(doc, record) ==
  LET owned == Owned(doc, record.root)
      ids == {record.fields[i].component : i \in DOMAIN record.fields}
      names == {record.fields[i].name : i \in DOMAIN record.fields} IN
    /\ owned # <<>> /\ Len(record.fields) = Len(owned)
    /\ Cardinality(ids) = Len(record.fields)
    /\ \A i \in DOMAIN owned : ComponentAccepted(doc, record, owned[i])
    /\ Cardinality(names) = Len(record.fields)

TypeNames(record) ==
  {record.type} \cup {record.fields[i].adaType : i \in DOMAIN record.fields}

\* The with clauses are exactly the units that the names of the records need.
WithUnitsAccepted(doc, overlay) ==
  /\ overlay.withs # {}
  /\ {Folded(u) : u \in overlay.withs} =
       {Folded(u) : u \in UNION {NeededFor(doc, n) :
          n \in UNION {TypeNames(overlay.records[i]) : i \in DOMAIN overlay.records}}}

Accepts(doc, overlay) ==
  /\ ~doc.generic
  /\ overlay.fixtureOnly
  /\ Folded(doc.consumer) = Folded(overlay.unit)
  /\ ClosureAccepted(doc)
  /\ \A i \in DOMAIN overlay.records :
       /\ RootAccepted(doc, overlay.records[i])
       /\ FieldsAccepted(doc, overlay.records[i])
       /\ \A j \in DOMAIN overlay.records :
            overlay.records[i].root = overlay.records[j].root => i = j
  /\ WithUnitsAccepted(doc, overlay)

\* A slip: the fields come in the order the overlay lists them.
LoweredAsListed(doc, record) ==
  [type |-> record.type, logical |-> record.logical,
   fields |-> [i \in DOMAIN record.fields |->
     LET b == record.fields[i] IN
       [component |-> b.adaComponent, type |-> b.adaType,
        kind |-> doc.declarations[Owned(doc, record.root)[i].type].shape, name |-> b.name]]]

\* The model of a record.
Lowered(doc, record) ==
  LET owned == Owned(doc, record.root) IN
    [type |-> record.type, logical |-> record.logical,
     fields |-> [i \in DOMAIN owned |->
       LET b == CHOOSE x \in Bound(record, owned[i]) : TRUE IN
         [component |-> b.adaComponent, type |-> b.adaType,
          kind |-> doc.declarations[owned[i].type].shape, name |-> b.name]]]
=============================================================================
