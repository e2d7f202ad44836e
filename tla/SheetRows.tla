------------------------------ MODULE SheetRows ------------------------------
(***************************************************************************)
(* What an import makes of the rows of a sheet before it correlates them:  *)
(* the mapping of columns to fields (MappingService), the validation       *)
(* (ValidationService) and the normalised records.                         *)
(*                                                                         *)
(* The rows of a sheet are a sequence of functions from columns to cells.  *)
(* What the code reads off the text of a cell is given by the operators of *)
(* CellText; the wording of issues, samples and confidences are left out   *)
(* (a column is ignored when its confidence is 0).  No field of            *)
(* TARGET_FIELDS is required, which makes the checks of required fields    *)
(* void.                                                                   *)
(***************************************************************************)
EXTENDS FileParsers, FiniteSets, TLC

CONSTANT MaxIssues  \* maxValidationIssues

ASSUME SheetAssumption == MaxIssues \in Nat

------------------------------------------------------------------------------
(* MappingService: a mapping is a function from columns to their targets.  *)

Target(field, ignored) == [field |-> field, ignored |-> ignored, duplicate |-> FALSE]

\* Slip: marks the second of two columns only, as in the first loop of suggestMappings.
MarkLater(mapping) ==
    [c \in DOMAIN mapping |->
        [mapping[c] EXCEPT !.duplicate =
            /\ ~mapping[c].ignored
            /\ c # CHOOSE d \in DOMAIN mapping : ~mapping[d].ignored /\ mapping[d].field = mapping[c].field]]

\* Every column of several that are mapped to one field is marked.
MarkDuplicates(mapping) ==
    [c \in DOMAIN mapping |->
        [mapping[c] EXCEPT !.duplicate =
            \E d \in DOMAIN mapping \ {c} : /\ ~mapping[c].ignored /\ ~mapping[d].ignored
                                            /\ mapping[d].field = mapping[c].field]]

Suggested ==
    MarkDuplicates([c \in Columns |-> IF Alias(c) = Blank THEN Target(c, TRUE)
                                                          ELSE Target(Alias(c), FALSE)])

\* The overrides of a request: a partial function from columns to targets.
WithOverrides(mapping, overrides) ==
    MarkDuplicates([c \in DOMAIN mapping |-> IF c \in DOMAIN overrides THEN overrides[c] ELSE mapping[c]])

\* Columns in use, and the one that a field is read from (Blank if none).
Used(mapping) == {c \in DOMAIN mapping : ~mapping[c].ignored /\ ~mapping[c].duplicate}
ColumnOf(mapping, field) ==
    IF \E c \in Used(mapping) : mapping[c].field = field
    THEN CHOOSE c \in Used(mapping) : mapping[c].field = field ELSE Blank

------------------------------------------------------------------------------
(* ValidationService: issues in the order in which they are pushed.        *)

Issue(code, severity, row, field, value) ==
    [code |-> code, severity |-> severity, row |-> row, field |-> field, value |-> value]

Cells(rows, c) == {<<i, rows[i][c]>> : i \in DOMAIN rows} \ {<<i, Blank>> : i \in DOMAIN rows}

\* Several columns in use for one field; id is not reported.
DuplicateMappings(mapping) ==
    LET of(field) == {c \in DOMAIN mapping : ~mapping[c].ignored /\ mapping[c].field = field}
    IN {Issue("DUPLICATE_MAPPING", "WARNING", 0, field, Blank) :
           field \in {f \in {mapping[c].field : c \in DOMAIN mapping} \ {"id", "ignored"} :
                         Cardinality(of(f)) > 1}}

Patterned == {"email", "ipAddress", "hostname", "fqdn", "objectGUID", "sid", "employeeId",
              "status", "riskLevel", "sourceSystem"}
PatternIssues(rows, mapping) ==
    UNION {{Issue("INVALID", "WARNING", cell[1], mapping[c].field, cell[2]) :
                cell \in {x \in Cells(rows, c) : ~Conforms(mapping[c].field, x[2])}} :
           c \in {d \in Used(mapping) : mapping[d].field \in Patterned}}

RowsWith(rows, c, v) == {i \in DOMAIN rows : rows[i][c] = v}
Repeated(rows, c) == {v \in {x[2] : x \in Cells(rows, c)} : Cardinality(RowsWith(rows, c, v)) > 1}

\* A value of a strong key that occurs twice: one error, at the first of its rows.
Unique == {"objectGUID", "sid", "employeeId"}
DuplicateValues(rows, mapping) ==
    UNION {{Issue("DUP", "ERROR", Min(RowsWith(rows, c, v)), mapping[c].field, v) :
                v \in Repeated(rows, c)} :
           c \in {d \in Used(mapping) : mapping[d].field \in Unique}}

DuplicateRows(rows) ==
    {Issue("DUP_ROW", "WARNING", Min({j \in DOMAIN rows : rows[j] = rows[i]}), Blank, Blank) :
        i \in {k \in DOMAIN rows : \E j \in DOMAIN rows \ {k} : rows[j] = rows[k]}}

\* Fields that hold references, and the values of any row that they may name.
References == {"manager", "parentGroup", "members", "department", "team"}
Known(rows, mapping, reference) ==
    LET of(field) == IF ColumnOf(mapping, field) = Blank THEN {}
                     ELSE {x[2] : x \in Cells(rows, ColumnOf(mapping, field))}
    IN CASE reference \in {"manager", "members"} ->
                of("employeeId") \cup of("samAccountName") \cup of("userPrincipalName") \cup of("email")
         [] reference = "parentGroup" -> of("groupName")
         [] OTHER -> of(reference)
Unresolved(rows, mapping) ==
    UNION {UNION {{Issue("UNRESOLVED", "WARNING", cell[1], mapping[c].field, v) :
                       v \in Parts(cell[2]) \ Known(rows, mapping, mapping[c].field)} :
                  cell \in Cells(rows, c)} :
           c \in {d \in Used(mapping) : mapping[d].field \in References}}

\* Slip: the list is cut without the issue that says so.
CutOff(issues) == SubSeq(issues, 1, Min({Len(issues), MaxIssues}))

Limited(issues) ==
    IF Len(issues) <= MaxIssues THEN issues
    ELSE Append(SubSeq(issues, 1, MaxIssues), Issue("TRUNCATED", "WARNING", 0, Blank, Blank))

Validated(rows, mapping) ==
    Limited(SetToSeq(DuplicateMappings(mapping)) \o SetToSeq(PatternIssues(rows, mapping))
            \o SetToSeq(DuplicateValues(rows, mapping)) \o SetToSeq(DuplicateRows(rows))
            \o SetToSeq(Unresolved(rows, mapping)))

------------------------------------------------------------------------------
(* generateNormalizedPreview, buildCorrelationRecords                      *)

\* What a cell becomes in the field of a record.
NormalText(field, v) ==
    CASE field = "email" -> Lower(v)
      [] field \in {"status", "riskLevel"} -> Upper(v)
      [] field = "sourceSystem" -> Underscored(Upper(v))
      [] OTHER -> v

\* The fields of a row: id, externalId and what is marked as duplicate are dropped.
Normalised(row, mapping) ==
    LET used == {c \in Used(mapping) : mapping[c].field \notin {"id", "externalId", "ignored"}}
    IN [f \in {mapping[c].field : c \in used} |-> NormalText(f, row[CHOOSE c \in used : mapping[c].field = f])]

SourceOf(fields) == IF "sourceSystem" \in DOMAIN fields THEN fields["sourceSystem"] ELSE "CUSTOM"

InvalidRows(issues) ==
    {issues[k].row : k \in {n \in DOMAIN issues : issues[n].severity \in {"ERROR", "CRITICAL"}}}

RecordsOf(rows, type, mapping, issues) ==
    [i \in DOMAIN rows |->
        LET fields == Normalised(rows[i], mapping)
        IN [fields |-> fields, source |-> SourceOf(fields), type |-> type,
            valid |-> i \notin InvalidRows(issues)]]
==============================================================================
