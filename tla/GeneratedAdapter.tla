-------------------------- MODULE GeneratedAdapter --------------------------
(***************************************************************************)
(* The package that render in tools/generator/generator_impl.py prints for *)
(* an accepted document and overlay, instantiated with                     *)
(* Flyology_Serde.Deserialization_Adapters: its two directions as          *)
(* functions of the model, and its Builder as a state machine.             *)
(*                                                                         *)
(* The deserializer is a class-wide parameter: each call to it may         *)
(* succeed, fail or raise, and before it returns it may use the Builder of *)
(* the operation it serves.  Every operation in progress is a frame; the   *)
(* last one is the one that runs.                                          *)
(***************************************************************************)
EXTENDS Lowering

CONSTANTS
  Documents, TheOverlays,   \* what the generator may be given
  Unset,
  MaxDepth                  \* bound on the operations in progress

(* What the checker of Type IR (vendor/type_ir/scripts/check_fixtures.py) has established: ids *)
(* name one component, numbers are integers, and the id of a declaration follows from its name *)
(* and its view, unless generics are involved.                                                 *)
ASSUME DocumentsAssumption ==
  \A doc \in Documents :
    /\ IsFiniteSet(doc.components)
    /\ \A c, d \in doc.components : c.id = d.id => c = d
    /\ \A c \in doc.components : c.order \in Int
    /\ doc.closure \in Seq(Seq(STRING))
    /\ \A id \in DOMAIN doc.declarations :
         LET d == doc.declarations[id] IN
           /\ d.shape = "signed" => d.low \in Int /\ d.high \in Int
           /\ d.shape = "modular" => d.modulus \in Int
           /\ ~doc.generic /\ d.directPublic /\ Folded(d.name) = <<"standard", "boolean">> =>
                d.id = StandardBoolean

\* An overlay lists records, and a record its bindings.
ASSUME OverlaysAssumption ==
  \A overlay \in TheOverlays :
    overlay.records \in
      Seq([root : STRING, type : Seq(STRING), logical : STRING,
           fields : Seq([component : STRING, adaComponent : STRING, adaType : Seq(STRING),
                         name : STRING])])

VARIABLES
  source,      \* the document and the record the package was emitted from
  fields,      \* the fields of the model
  ranges,      \* the values of the components, as Ada declares them
  published, candidate,
  initialized, active, rootStarted,
  frames       \* the operations in progress: where each is, and what it decoded

builder == <<published, candidate, initialized, active, rootStarted>>
package == <<source, fields, ranges>>
vars == <<package, builder, frames>>

Positions == DOMAIN fields
Records == [Positions -> Int]
Nothing == [p \in Positions |-> Unset]

-----------------------------------------------------------------------------
(* The two directions. *)

\* The event a component of a kind is written with holds these values.
Carried(kind) ==
  IF kind = "signed" THEN MinSigned..MaxSigned
  ELSE IF kind = "modular" THEN 0..MaxUnsigned ELSE {0, 1}

\* Serialize_Value: one named event for each field, or Unsupported_Value.
Encode(item) == [p \in Positions |-> [name |-> fields[p].name, value |-> item[p]]]
Encodes(item) == \A p \in Positions : item[p] \in Carried(fields[p].kind)

\* The branch of Deserialize_Value that a name takes, if any: the first.
Branches(name) ==
  LET P == {p \in Positions : fields[p].name = name} IN
    {p \in P : \A q \in P : p <= q}

\* Deserialize_Value on entries in any order: every name is known, none comes
\* twice and none is missing.
Decodes(entries) ==
  /\ \A i \in DOMAIN entries : Branches(entries[i].name) # {}
  /\ \A p \in Positions : \E i \in DOMAIN entries :
       /\ p \in Branches(entries[i].name)
       /\ entries[i].value \in ranges[p]
       /\ \A j \in DOMAIN entries : p \in Branches(entries[j].name) => i = j

Decoded(entries) ==
  [p \in Positions |->
     entries[CHOOSE i \in DOMAIN entries : p \in Branches(entries[i].name)].value]

-----------------------------------------------------------------------------
(* The generator, and the one operation that replaces a value at once. *)

\* The values of the components in the order of their declaration.
ComponentRanges(doc, root) ==
  LET owned == Owned(doc, root) IN
    [i \in DOMAIN owned |->
       LET d == doc.declarations[owned[i].type] IN d.low..d.high]

\* render takes one record.  The Builder is declared, and not initialized.
Init ==
  /\ \E doc \in Documents, overlay \in TheOverlays :
       /\ Accepts(doc, overlay) /\ Len(overlay.records) = 1
       /\ LET record == overlay.records[1] IN
            /\ source = [document |-> doc, overlay |-> overlay]
            /\ fields = Lowered(doc, record).fields
            /\ ranges = ComponentRanges(doc, record.root)
  /\ published = Nothing /\ candidate = Nothing
  /\ initialized = FALSE /\ active = FALSE /\ rootStarted = FALSE
  /\ frames = <<>>

\* The program that uses the package knows nothing of where it came from.
Compile ==
  /\ source # Unset
  /\ source' = Unset
  /\ UNCHANGED <<fields, ranges, builder, frames>>

Values == {v \in [Positions -> UNION Range(ranges)] : \A p \in Positions : v[p] \in ranges[p]}

\* By the client, or by the deserializer during a call; refused while Active.
Initialize ==
  /\ source = Unset /\ ~active
  /\ \E v \in Values : published' = v /\ candidate' = v
  /\ initialized' = TRUE /\ rootStarted' = FALSE
  /\ UNCHANGED <<package, active, frames>>

-----------------------------------------------------------------------------
(* Deserialize. *)

Top == frames[Len(frames)]

Continue(frame) == frames' = [frames EXCEPT ![Len(frames)] = frame]
GoTo(place) == Continue([Top EXCEPT !.at = place])

\* Begin_Candidate.
Begin ==
  /\ source = Unset /\ Len(frames) < MaxDepth
  /\ ~active /\ initialized
  /\ candidate' = published /\ active' = TRUE /\ rootStarted' = TRUE
  /\ frames' = Append(frames, [at |-> "record", own |-> Nothing, pos |-> 0])
  /\ UNCHANGED <<package, published, initialized>>

\* Begin_Candidate fails; the root aborts and rolls back like after any failure.
Refuse ==
  /\ source = Unset /\ Len(frames) < MaxDepth
  /\ active \/ ~initialized
  /\ frames' = Append(frames, [at |-> "abort", own |-> Nothing, pos |-> 0])
  /\ UNCHANGED <<package, builder>>

\* From.Begin_Record returns.
BeginRecord ==
  /\ frames # <<>> /\ Top.at = "record"
  /\ GoTo("next")
  /\ UNCHANGED <<package, builder>>

\* From.Next_Field returns a name that was not seen.
NextField(p) ==
  /\ frames # <<>> /\ Top.at = "next"
  /\ p \in Branches(fields[p].name) /\ Top.own[p] = Unset
  /\ Continue([Top EXCEPT !.at = "read", !.pos = p])
  /\ UNCHANGED <<package, builder>>

\* From.Read_Boolean or the adapter of the field returns.
ReadField ==
  /\ frames # <<>> /\ Top.at = "read"
  /\ \E v \in ranges[Top.pos] :
       /\ candidate' = [candidate EXCEPT ![Top.pos] = v]
       /\ Continue([Top EXCEPT !.at = "next", !.own[Top.pos] = v])
  /\ UNCHANGED <<package, published, initialized, active, rootStarted>>

\* From.Next_Field returns without a field.
NoMoreFields ==
  /\ frames # <<>> /\ Top.at = "next"
  /\ GoTo("end")
  /\ UNCHANGED <<package, builder>>

\* From.End_Record returns, and every field was seen.
EndRecord ==
  /\ frames # <<>> /\ Top.at = "end"
  /\ GoTo(IF \A p \in Positions : Top.own[p] # Unset THEN "finish" ELSE "abort")
  /\ UNCHANGED <<package, builder>>

\* A slip: Commit_Candidate does not ask whose candidate it is.
CommitAny ==
  /\ frames # <<>> /\ Top.at = "finish"
  /\ published' = candidate
  /\ initialized' = TRUE /\ active' = FALSE /\ rootStarted' = FALSE
  /\ frames' = Front(frames)
  /\ UNCHANGED <<package, candidate>>

\* From.Finish_Document returns; Commit_Candidate.
Commit ==
  /\ frames # <<>> /\ Top.at = "finish"
  /\ active /\ rootStarted
  /\ published' = candidate
  /\ initialized' = TRUE /\ active' = FALSE /\ rootStarted' = FALSE
  /\ frames' = Front(frames)
  /\ UNCHANGED <<package, candidate>>

CommitRefused ==
  /\ frames # <<>> /\ Top.at = "finish"
  /\ ~active \/ ~rootStarted
  /\ GoTo("abort")
  /\ UNCHANGED <<package, builder>>

\* A call of the deserializer fails or raises; so do a name that is unknown or
\* comes twice, and a value out of the range of its type.
FailCall ==
  /\ frames # <<>> /\ Top.at # "abort"
  /\ GoTo("abort")
  /\ IF Top.at = "read"
       THEN \E v \in ranges[Top.pos] \cup {candidate[Top.pos]} :
              candidate' = [candidate EXCEPT ![Top.pos] = v]
       ELSE UNCHANGED candidate
  /\ UNCHANGED <<package, published, initialized, active, rootStarted>>

\* From.Abort_Document, which does not raise, returns; Rollback_Candidate.
Rollback ==
  /\ frames # <<>> /\ Top.at = "abort"
  /\ IF rootStarted THEN active' = FALSE /\ rootStarted' = FALSE
     ELSE UNCHANGED <<active, rootStarted>>
  /\ frames' = Front(frames)
  /\ UNCHANGED <<package, published, candidate, initialized>>

Next ==
  \/ Compile \/ Initialize
  \/ Begin \/ Refuse \/ BeginRecord
  \/ \E p \in Positions : NextField(p)
  \/ ReadField \/ NoMoreFields \/ EndRecord
  \/ Commit \/ CommitRefused \/ FailCall \/ Rollback

Spec == Init /\ [][Next]_vars

-----------------------------------------------------------------------------
Places == {"record", "next", "read", "end", "finish", "abort"}

TypeOK ==
  /\ published \in [Positions -> Int \cup {Unset}]
  /\ candidate \in [Positions -> Int \cup {Unset}]
  /\ initialized \in BOOLEAN /\ active \in BOOLEAN /\ rootStarted \in BOOLEAN
  /\ Len(frames) <= MaxDepth
  /\ \A i \in DOMAIN frames :
       frames[i].at \in Places /\ frames[i].own \in [Positions -> Int \cup {Unset}]

\* Whatever document and overlay the generator accepts, the package writes
\* every value of the record type, and reads back the one it wrote.
RoundTrips ==
  source # Unset =>
    \A item \in Values :
      /\ Encodes(item)
      /\ Decodes(Encode(item)) /\ Decoded(Encode(item)) = item

\* The package names what the document declares: its fields are the components
\* of the record in their order, each under the name and the type that Ada
\* gives it, and every type can be named in the units it is with'ed.
FaithfulModel ==
  source # Unset =>
    LET doc == source.document
        record == source.overlay.records[1]
        owned == Owned(doc, record.root) IN
      /\ Len(fields) = Len(owned)
      /\ \A p \in Positions :
           LET declared == doc.declarations[owned[p].type] IN
             /\ Fold[fields[p].component] = Fold[owned[p].name]
             /\ \/ Folded(fields[p].type) = Folded(declared.name)
                \/ Folded(fields[p].type) = BooleanName /\ declared.id = StandardBoolean
             /\ \/ \E u \in source.overlay.withs : IsPrefix(Folded(u), Folded(fields[p].type))
                \/ Folded(fields[p].type) = BooleanName

\* A value is replaced by Initialize or by an operation that decoded every
\* component of the new one itself: never by what another one left in the
\* candidate, however operations on one Builder are nested and fail.
CommitIsOwn ==
  [][published' # published =>
       \/ frames' = frames
       \/ Top.at = "finish" /\ published' = Top.own]_vars

\* The deserializer "rejects an active re-entry" (tools/generator/README.md): no
\* operation is begun while another one on the Builder is under way.
RejectsReentry ==
  \A i, j \in DOMAIN frames :
    frames[i].at # "abort" /\ frames[j].at # "abort" => i = j
=============================================================================
