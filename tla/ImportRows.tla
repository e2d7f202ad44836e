------------------------------ MODULE ImportRows ------------------------------
(***************************************************************************)
(* An import from the rows of its sheets to its graph, as the requests of  *)
(* the import wizard take it there: mappings are suggested and overridden, *)
(* the sheets validated, the records correlated and converted.  What       *)
(* happens when requests overlap is in ImportResults; here is what each    *)
(* of them computes.                                                       *)
(***************************************************************************)
EXTENDS SheetRows, RecordConversion

CONSTANTS Imports,       \* the imports looked at: sequences of files of one sheet
          Overrides,     \* requests that change the mapping of the first sheet
          MaxOverrides   \* bound on them

\* Only an array of JSON has malformed elements, and it has no blank ones.
Formats == {"csv", "csv in chunks", "excel", "excel in chunks", "json"}
FileTypes == [type : STRING, format : Formats, place : Nat,
              lines : Seq([kind : {"row", "blank", "malformed"}, cells : [Columns -> Texts]])]
Targets == [field : STRING, ignored : BOOLEAN, duplicate : BOOLEAN]

ASSUME ImportAssumption ==
    /\ Columns \subseteq STRING
    /\ \A c \in Columns : Alias(c) \in STRING \cup {Blank}
    /\ Imports \subseteq Seq(FileTypes)
    /\ \A import \in Imports : \A s \in DOMAIN import : \A i \in DOMAIN import[s].lines :
           import[s].lines[i].kind # IF import[s].format = "json" THEN "blank" ELSE "malformed"
    /\ \A overrides \in Overrides : /\ DOMAIN overrides \subseteq Columns
                                     /\ overrides \in [DOMAIN overrides -> Targets]

VARIABLES files,      \* type (classification), format and lines of each
          sheets,     \* what was parsed: rows, and whether rows were cut off
          mappings,   \* per sheet
          validated,  \* the sheets whose validation is shown
          issues,     \* per sheet, of this validation
          phase, overridden

sheetVars == <<files, sheets, mappings, validated, issues, phase, overridden>>
vars == <<sheetVars, correlationVars, conversionVars>>

------------------------------------------------------------------------------
Init ==
    /\ files \in Imports
    /\ sheets = <<>> /\ mappings = <<>> /\ validated = {} /\ issues = <<>>
    /\ phase = "parsing" /\ overridden = 0
    /\ records = <<>> /\ CorrelationInit /\ ConversionInit

\* The files are parsed, classified and get the mapping that is suggested for them.
Parse ==
    /\ phase = "parsing"
    /\ sheets' = [s \in DOMAIN files |-> Parsed(files[s])]
    /\ mappings' = [s \in DOMAIN files |-> Suggested]
    /\ issues' = [s \in DOMAIN files |-> <<>>]
    /\ phase' = "mapping"
    /\ UNCHANGED <<files, validated, overridden, correlationVars, conversionVars>>

\* The user changes the mapping of a sheet: results that rested on the old one go.
ApplyMappings ==
    /\ phase = "mapping" /\ overridden < MaxOverrides
    /\ \E overrides \in Overrides :
           mappings' = [mappings EXCEPT ![1] = WithOverrides(@, overrides)]
    /\ validated' = validated \ {1} /\ issues' = [issues EXCEPT ![1] = <<>>]
    /\ overridden' = overridden + 1
    /\ UNCHANGED <<files, sheets, phase, correlationVars, conversionVars>>

\* The user has a sheet validated, which must be there.
Validate(s) ==
    /\ phase = "mapping" /\ ~OutOfPlace(files[s])
    /\ validated' = validated \cup {s}
    /\ issues' = [issues EXCEPT ![s] = Validated(sheets[s].rows, mappings[s])]
    /\ UNCHANGED <<files, sheets, mappings, phase, overridden, correlationVars, conversionVars>>

\* buildCorrelationRecords: the rows of all sheets, validated or not, unless some were cut off.
BuildRecords ==
    /\ phase = "mapping"
    /\ \A s \in DOMAIN sheets : ~sheets[s].truncated
    /\ records' = FlattenSeq([s \in DOMAIN sheets |-> RecordsOf(sheets[s].rows, files[s].type, mappings[s], issues[s])])
    /\ phase' = "correlating"
    /\ UNCHANGED <<files, sheets, mappings, validated, issues, overridden, done, groups, index,
                   conversionVars>>

CorrelateNext == phase = "correlating" /\ Correlate /\ UNCHANGED <<sheetVars, conversionVars>>

ConvertNext ==
    /\ phase = "correlating" /\ done = Len(records)
    /\ Convert
    /\ UNCHANGED <<sheetVars, correlationVars>>

Next ==
    \/ Parse \/ ApplyMappings \/ (\E s \in DOMAIN sheets : Validate(s))
    \/ BuildRecords \/ CorrelateNext \/ ConvertNext

Spec == Init /\ [][Next]_vars

------------------------------------------------------------------------------
(* Properties                                                              *)

\* The rows of sheet s in records start after this many.
Offset(s) == Len(FlattenSeq([t \in 1..(s - 1) |-> sheets[t].rows]))

\* The cells of a file that its parser looks at: long ones are cut off, and a file that is
\* read in chunks has only its first columns.
Kept(file) ==
    LET rows == RowsIn(file.lines)
    IN CASE file.format = "csv" -> Shorter(rows)
         [] file.format \in {"csv in chunks", "excel in chunks"} -> Bounded(rows)
         [] OTHER -> rows
Malformed(file) == \E i \in DOMAIN file.lines : file.lines[i].kind = "malformed"

\* No row is lost at the limit of rows without the mark upon which the import is refused:
\* a sheet without it has every row of its file with a value, in order, and in it every cell
\* that the parser looks at.  What is lost without a mark is let through, and only this: the
\* end of long cells and, in chunks, the columns after the first ones (Kept), the sheets of
\* a workbook after the first ones (OutOfPlace), and rows of JSON with malformed elements,
\* which count for the limit and are then skipped.
RowsAreRead ==
    \A s \in DOMAIN sheets :
        \/ sheets[s].truncated \/ OutOfPlace(files[s])
        \/ Filled(sheets[s].rows) = Filled(Kept(files[s]))
        \/ files[s].format = "json" /\ Malformed(files[s])

\* A column the user did not leave out either brings its cells into the records, as the
\* only column of its field, or its field has no value in any record: the marks of the
\* mapping, the report of the validation and the fields of the records are computed in three
\* places.  The loss is reported if and only if there is one and the sheet is validated with
\* its last mapping; correlate and convert do not ask for that, so that columns of a sheet
\* nobody validated are lost unreported (as id and externalId are of every sheet).
ColumnsReachRecords ==
    phase = "correlating" =>
        \A s \in DOMAIN sheets, c \in Columns :
            LET m == mappings[s][c]
                reported == \E k \in DOMAIN issues[s] :
                                issues[s][k].code = "DUPLICATE_MAPPING" /\ issues[s][k].field = m.field
            IN \/ m.ignored \/ m.field \in {"id", "externalId", "ignored"}
               \/ /\ ~reported
                  /\ \A i \in DOMAIN sheets[s].rows :
                         Field(records[Offset(s) + i], m.field) = NormalText(m.field, sheets[s].rows[i][c])
               \/ /\ reported \/ s \notin validated
                  /\ \A i \in DOMAIN sheets[s].rows : m.field \notin DOMAIN records[Offset(s) + i].fields

\* When rows of a validated sheet claim the same GUID, SID or employee number, the graph gets
\* a record marked INVALID for it (the first of them; the others stay VALID), unless the user
\* is told that not all issues are listed: warnings come first in the list and may push errors
\* out.  The records of a sheet that is not validated, or not since its mapping changed, are
\* all VALID: nothing in correlate or convert prevents that.
DuplicatesAreMarked ==
    phase = "correlating" =>
        \A s \in validated : \A f \in Unique : \A i, j \in DOMAIN sheets[s].rows :
            LET of(n) == records[Offset(s) + n]
            IN i # j /\ Field(of(i), f) # Blank /\ Field(of(i), f) = Field(of(j), f)
                 => \/ \E n \in DOMAIN sheets[s].rows :
                           ~of(n).valid /\ Field(of(n), f) = Field(of(i), f)
                    \/ \E k \in DOMAIN issues[s] : issues[s][k].code = "TRUNCATED"
==============================================================================
