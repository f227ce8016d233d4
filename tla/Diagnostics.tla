---------------------------- MODULE Diagnostics -----------------------------
(***************************************************************************)
(* What the language server reports about a document and where: crates/    *)
(* vespertide-lsp/src/diagnostics, over the rules of the planner.  A table *)
(* reports its first fault only; a fault names a table, and often a column *)
(* or a constraint, and the document it is shown in and the place there    *)
(* are found from these names.                                             *)
(***************************************************************************)
EXTENDS Navigation

CONSTANT StemOf  \* Uri -> table name that the file name suggests

When(condition, item) == IF condition THEN <<item>> ELSE <<>>

----------------------------------------------------------------------------
(* ErrorLocation.  TableValidation errors have none.                       *)

Fault(code, table, column, constraint, field) ==
    [code |-> code, located |-> TRUE, table |-> table, column |-> column,
     constraint |-> constraint, field |-> field]

TableFault(code, table) == Fault(code, table, Absent, Absent, "")
ColumnFault(code, table, column) == Fault(code, table, <<column>>, Absent, "")
FieldFault(code, table, column, field) ==
    Fault(code, table, <<column>>, Absent, field)
UnlocatedFault(code) == [Fault(code, <<>>, Absent, Absent, "") EXCEPT
                           !.located = FALSE]

----------------------------------------------------------------------------
(* validate_table of the planner, in the order of its checks.              *)

Duplicated(s) == {k \in DOMAIN s : \E j \in 1..k - 1 : s[j] = s[k]}

\* extract_enum_value, as an Option: quotes are stripped, and an empty value
\* and null are not looked at.
EnumDefault(text) ==
    IF text \in {<<>>, <<"null">>} THEN Absent
    ELSE IF Len(text) = 3 THEN <<text[2]>> ELSE <<text[1]>>

ColumnFaults(t, col) ==
    LET names == [k \in DOMAIN col.type.vals |-> col.type.vals[k][1]]
    IN  IF ~IsEnum(col.type) THEN <<>>
        ELSE When(Duplicated(names) # {},
                  ColumnFault("DuplicateEnumVariantName", t.name, col.name))
             \o When(/\ col.default # Absent /\ EnumDefault(col.default[1]) # Absent
                     /\ EnumDefault(col.default[1])[1] \notin ToSet(names),
                     FieldFault("InvalidEnumDefault", t.name, col.name, "default"))

\* columns.join(", ") names no column when there are several.
Joined(cols) == IF Len(cols) = 1 THEN cols[1] ELSE <<"several">>

UnknownColumns(t, cols) ==
    SelectSeq(cols, LAMBDA c : c \notin ColumnNames(t))

MissingColumns(t, c, label) ==
    LET unknown == UnknownColumns(t, c.cols)
    IN  When(unknown # <<>>,
             Fault("ConstraintColumnNotFound", t.name, <<unknown[1]>>,
                   <<<<label>>>>, ""))

ForeignKeyFaults(t, c, map) ==
    LET known == c.ref[1] \in DOMAIN map
    IN  IF c.refCols = <<>>
        THEN <<Fault("EmptyConstraintColumns", c.ref[1], Absent,
                     <<<<"ForeignKey (ref_columns)">>>>, "")>>
        ELSE IF ~known
        THEN <<FieldFault("ForeignKeyTableNotFound", t.name, Joined(c.cols),
                          "ref_table")>>
        ELSE MissingColumns(t, c, "ForeignKey")
             \o When(~(ToSet(c.refCols) \subseteq map[c.ref[1]]),
                     FieldFault("ForeignKeyColumnNotFound", t.name,
                                Joined(c.cols), "ref_columns"))
             \o When(Len(c.cols) # Len(c.refCols),
                     FieldFault("ForeignKeyColumnNotFound", t.name,
                                <<"several">>, "ref_columns"))

ConstraintFaults(t, c, map) ==
    IF c.kind = "ck" THEN <<>>
    ELSE IF c.cols = <<>>
    THEN <<Fault("EmptyConstraintColumns", t.name, Absent, <<<<c.kind>>>>, "")>>
    ELSE IF c.kind = "fk" THEN ForeignKeyFaults(t, c, map)
    ELSE MissingColumns(t, c, c.kind)

\* validate_table_entry returns the first of these.
TableFaults(t, map) ==
    LET key == {name \in ColumnNames(t) : \E k \in DOMAIN t.cons :
                    t.cons[k].kind = "pk" /\ Contains(t.cons[k].cols, name)}
        loose == SelectSeq(t.cols, LAMBDA c : c.name \in key /\ c.nullable)
    IN  When(Cardinality(ColumnNames(t)) # Len(t.cols),
             UnlocatedFault("TableValidation"))
        \o When(key = {}, TableFault("MissingPrimaryKey", t.name))
        \o When(loose # <<>>,
                ColumnFault("PrimaryKeyColumnNullable", t.name, loose[1].name))
        \o FlattenSeq([k \in DOMAIN t.cols |-> ColumnFaults(t, t.cols[k])])
        \o FlattenSeq([k \in DOMAIN t.cons |->
                          ConstraintFaults(t, t.cons[k], map)])

FirstFault(t, map) == HeadOf(TableFaults(t, map))

\* The columns by table name; of two tables with one name the last counts.
TableMap(entries) ==
    [name \in {entries[k].table.name : k \in DOMAIN entries} |->
        LET last == CHOOSE k \in DOMAIN entries :
                /\ entries[k].table.name = name
                /\ \A j \in DOMAIN entries :
                      entries[j].table.name = name => j <= k
        IN  ColumnNames(entries[last].table)]

\* find_schema_violations
FindSchemaViolations(entries) ==
    LET names == [k \in DOMAIN entries |-> entries[k].table.name]
        map == TableMap(entries)
    IN  FlattenSeq([k \in DOMAIN entries |->
            When(k \in Duplicated(names),
                 TableFault("DuplicateTableName", names[k]))])
        \o FlattenSeq([k \in DOMAIN entries |->
               FirstFault(entries[k].table, map)])

----------------------------------------------------------------------------
(* diagnostics/locator.rs.  A place is a pair of a mapping, or a mapping   *)
(* when the key is empty, or the first byte of the text.                   *)

Place(mapping, key) == [mapping |-> mapping, key |-> key]
FirstByte == Place(<<>>, "")

LocateTopName(doc) ==
    IF HasPair(doc, <<>>, "name") THEN Place(<<>>, "name") ELSE FirstByte

\* find_named_mapping, locate_named_object, as an Option.
FindNamedMapping(doc, collection, name) ==
    LET pair == FirstPair(doc, collection)
        found == SelectSeq(MappingsOf(doc, pair[1]),
                     LAMBDA m : ChildValue(doc, m, "name") = name)
    IN  IF pair = Absent THEN Absent ELSE HeadOf(found)

LocateColumn(doc, name) ==
    LET found == FindNamedMapping(doc, "columns", name)
    IN  IF found = Absent THEN LocateTopName(doc) ELSE Place(found[1], "")

LocateConstraint(doc, name) ==
    LET found == FindNamedMapping(doc, "constraints", name)
    IN  IF found = Absent THEN LocateTopName(doc) ELSE Place(found[1], "")

\* locate_field_in_column: the field, the foreign key around it, or the
\* column.
LocateColumnField(doc, name, field) ==
    LET found == FindNamedMapping(doc, "columns", name)
        fk == Append(found[1], Step("foreign_key", 0))
    IN  IF found = Absent THEN LocateTopName(doc)
        ELSE IF field \in {"ref_table", "ref_columns"}
        THEN IF HasPair(doc, fk, field) THEN Place(fk, field)
             ELSE IF HasPair(doc, found[1], "foreign_key")
             THEN Place(found[1], "foreign_key")
             ELSE Place(found[1], "")
        ELSE IF HasPair(doc, found[1], field) THEN Place(found[1], field)
        ELSE Place(found[1], "")

\* byte_range_for_violation
Locate(doc, fault) ==
    IF ~fault.located THEN FirstByte
    ELSE IF fault.column # Absent /\ fault.field # ""
    THEN LocateColumnField(doc, fault.column[1], fault.field)
    ELSE IF fault.column # Absent THEN LocateColumn(doc, fault.column[1])
    ELSE IF fault.constraint # Absent
    THEN LocateConstraint(doc, fault.constraint[1])
    ELSE LocateTopName(doc)

----------------------------------------------------------------------------
(* diagnostics/validation.  A diagnostic has a code, a severity, a place.  *)

Diagnostic(code, severity, place) ==
    [code |-> code, severity |-> severity, place |-> place]

\* inspect_column_type and inspect_complex_type of one mapping below the
\* first `columns`.
InspectType(doc, m) ==
    LET simple == ChildValue(doc, m, "type")
        object == Append(m, Step("type", 0))
        values == ArrayOf(doc, object, "values")
        kind == ChildValue(doc, object, "kind")[1]
        Complex(place) == {Diagnostic("complex-type", "error", place)}
    IN  IF ~HasPair(doc, m, "type") THEN {}
        ELSE IF ChildScalar(doc, m, "type") # Absent
        THEN IF simple = <<>> \/ simple[1] \in Known THEN {}
             ELSE {Diagnostic("unknown-type", "error", Place(m, "type"))}
        ELSE IF ~HasPair(doc, object, "kind") THEN Complex(Place(m, "type"))
        ELSE IF ChildValue(doc, object, "kind") \notin {<<k>> : k \in DOMAIN Fields}
        THEN Complex(Place(object, "kind"))
        ELSE IF \E f \in Fields[kind] : ~HasPair(doc, object, f)
        THEN Complex(Place(m, "type"))
        ELSE IF kind # "enum" THEN {}
        ELSE IF values = <<>> \/ Duplicated(values) # {}
        THEN Complex(Place(object, "values"))
        ELSE {}

\* collect_all without the syntax errors: types and duplicate columns.
CollectAll(doc) ==
    LET pair == FirstPair(doc, "columns")
        inside == MappingsOf(doc, pair[1])
        columns == SelectSeq(inside, LAMBDA m :
                        Len(m) = Len(pair[1].mapping) + 1)
        names == [k \in DOMAIN columns |-> ChildValue(doc, columns[k], "name")]
    IN  IF pair = Absent THEN {}
        ELSE UNION {InspectType(doc, inside[k]) : k \in DOMAIN inside}
             \cup {Diagnostic("duplicate-column", "error",
                              Place(columns[k], "name")) :
                     k \in {j \in Duplicated(names) : names[j] # <<>>}}

\* open_workspace_table, disk_workspace_table, build_workspace_tables: the
\* open documents that parse, in the order of their URIs, then the tables
\* found on disk in other files.
WorkspaceTables(ws) ==
    LET Entry(u, doc) == [uri |-> u, doc |-> doc, table |-> TableDef(doc)]
        open == SetToSortSeq({u \in Open(ws) : Parses(ws.docs[u])},
                             LAMBDA u, v : u < v)
        files == SetToSeq({n \in DOMAIN ws.tables :
                             ~Contains(open, ws.tables[n].uri)})
    IN  [k \in DOMAIN open |-> Entry(open[k], ws.docs[open[k]])]
        \o [k \in DOMAIN files |-> Entry(ws.tables[files[k]].uri,
                                         ws.tables[files[k]].doc)]

\* Mutant: a fault is shown where its table is declared last.
LastEntry(entries, name) ==
    LET own == {k \in DOMAIN entries : entries[k].table.name = name}
    IN  IF own = {} THEN Absent
        ELSE <<entries[CHOOSE k \in own : \A j \in own : j <= k]>>

TargetEntry(entries, name) ==
    LET own == SelectSeq(entries, LAMBDA e : e.table.name = name)
    IN  HeadOf(own)

\* validate_workspace, emit_workspace_location_violation: the faults shown
\* in document u.
ValidateWorkspace(entries, u) ==
    LET Shown(fault) ==
            LET target == TargetEntry(entries, fault.table)
            IN  IF ~fault.located \/ target = Absent
                THEN {Diagnostic(fault.code, "error", FirstByte)}
                ELSE IF target[1].uri # u THEN {}
                ELSE {Diagnostic(fault.code, "error",
                                 Locate(target[1].doc, fault))}
        faults == FindSchemaViolations(entries)
    IN  UNION {Shown(faults[k]) : k \in DOMAIN faults}

\* find_missing_fk_supporting_indexes, locate_missing_fk: a foreign key
\* whose columns begin no key, UNIQUE or index.
FkSupportingIndexes(doc) ==
    LET t == TableDef(doc)
        Covered(c) == \E k \in DOMAIN t.cons :
            t.cons[k].kind \in {"pk", "uq", "ix"} /\ IsPrefix(c.cols, t.cons[k].cols)
        bare == {k \in DOMAIN t.cons : t.cons[k].kind = "fk" /\ ~Covered(t.cons[k])}
    IN  {Diagnostic("fk-supporting-index", "warning",
                    LocateColumnField(doc, t.cons[k].cols[1], "ref_table")) :
            k \in {j \in bare : t.cons[j].cols # <<>>}}

FilenameMismatch(doc, u) ==
    IF TopLevelName(doc) = StemOf[u] THEN {}
    ELSE {Diagnostic("filename-mismatch", "warning", LocateTopName(doc))}

\* compute_workspace: a document with a wrong type or a duplicate column is
\* not looked at further.
ComputeWorkspace(entries, doc, u) ==
    LET typed == CollectAll(doc)
    IN  IF typed # {} THEN typed
        ELSE IF ~Parses(doc)
        THEN {Diagnostic("parse-error", "error", FirstByte)}
        ELSE FilenameMismatch(doc, u)
             \cup ValidateWorkspace(entries, u)
             \cup FkSupportingIndexes(doc)
=============================================================================
