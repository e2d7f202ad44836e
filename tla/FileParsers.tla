----------------------------- MODULE FileParsers -----------------------------
(***************************************************************************)
(* The parsers of an import: parseCsv, parseExcel and parseJson, which     *)
(* read a file in one go, and parseCsvChunked and parseExcelChunked, which *)
(* emit it in chunks of rows; the chunks are put together here.            *)
(*                                                                         *)
(* A file is the sequence of what follows its header: lines (or rows of a  *)
(* worksheet, or elements of an array) that are rows of cells, blank, or   *)
(* malformed.  How a line is split into cells is left out.  Each sheet of  *)
(* a workbook is a file here, with its place in the workbook.              *)
(***************************************************************************)
EXTENDS CellText, Naturals, Sequences, SequencesExt, FiniteSetsExt

CONSTANTS Columns,    \* the headers
          Beyond,     \* those after the first previewColumns
          MaxSheets,  \* maxSheetsPerWorkbook
          MaxRows,    \* maxRowsPerSheet, maxRowsPerFile
          ChunkRows   \* chunkSizeRows

ASSUME ParserAssumption == /\ IsFiniteSet(Columns) /\ Beyond \subseteq Columns
                           /\ MaxSheets \in Nat /\ MaxRows \in Nat /\ ChunkRows \in Nat \ {0}

Empty == [c \in Columns |-> Blank]
Line(kind, cells) == [kind |-> kind, cells |-> cells]

\* The cells of the lines that are rows; an empty row has cells without values.
RowsIn(lines) ==
    FlattenSeq([i \in DOMAIN lines |-> IF lines[i].kind = "row" THEN <<lines[i].cells>> ELSE <<>>])
Filled(rows) == FlattenSeq([i \in DOMAIN rows |-> IF rows[i] = Empty THEN <<>> ELSE <<rows[i]>>])
UpTo(n, seq) == SubSeq(seq, 1, Min({n, Len(seq)}))

\* truncateCell: long cells are cut off, and boundedRow, which also leaves out columns.
\* Neither leaves a mark at the sheet.
Shorter(rows) == [i \in DOMAIN rows |-> [c \in Columns |-> Shortened(rows[i][c])]]
Bounded(rows) ==
    [i \in DOMAIN rows |-> [c \in Columns |-> IF c \in Beyond THEN Blank ELSE Shortened(rows[i][c])]]

Sheet(rows, truncated) == [rows |-> rows, truncated |-> truncated]

------------------------------------------------------------------------------
\* Slip: the row that exceeds the limit is not yet seen as too many.
CsvOneMore(lines) ==
    Sheet(Filled(Shorter(UpTo(MaxRows, RowsIn(lines)))), Len(RowsIn(lines)) > MaxRows + 1)

\* parseCsv: empty rows count for the limit and are dropped.
ParseCsv(lines) ==
    Sheet(Filled(Shorter(UpTo(MaxRows, RowsIn(lines)))), Len(RowsIn(lines)) > MaxRows)

\* parseCsvChunked: the row that reaches the limit is the last.
ParseCsvChunked(lines) ==
    Sheet(Bounded(UpTo(MaxRows, RowsIn(lines))), Len(RowsIn(lines)) >= MaxRows)

\* parseExcel: rows without cells are skipped by the library and do not count.
ParseExcel(lines) ==
    Sheet(UpTo(MaxRows, Filled(RowsIn(lines))), Len(Filled(RowsIn(lines))) > MaxRows)

\* sheet_to_json over a range takes the first row of the range for the names of the columns.
ChunkOfRange(lines, start, end) ==
    [i \in 1..Len(Filled(RowsIn(SubSeq(lines, start + 1, end)))) |-> Empty]

\* parseExcelChunked: a range after the other, each read without the header of the sheet, so
\* that no cell of its rows is under a header of the sheet (and bounding them changes nothing);
\* until the limit is reached.
ParseExcelChunked(lines) ==
    LET last == Len(lines)
        ranges == (last + ChunkRows - 1) \div ChunkRows
        chunks == [k \in 1..ranges |-> ChunkOfRange(lines, (k - 1) * ChunkRows + 1, Min({last, k * ChunkRows}))]
        read(k) == FlattenSeq(SubSeq(chunks, 1, k))
        full == {k \in 1..ranges : Len(read(k)) >= MaxRows}
        final == IF full # {} THEN Min(full) ELSE ranges
    IN Sheet(read(final), full # {} /\ final < ranges)

\* parseJson: what is malformed is skipped after the limit has been applied.
ParseJson(lines) ==
    LET rows == RowsIn(UpTo(MaxRows, lines)) IN Sheet(rows, Len(rows) >= MaxRows)

\* A sheet of a workbook beyond the limit of sheets is not there: it counts as one without rows.
OutOfPlace(file) == file.format \in {"excel", "excel in chunks"} /\ file.place > MaxSheets

Parsed(file) ==
    CASE OutOfPlace(file) -> Sheet(<<>>, FALSE)
      [] file.format = "csv" -> ParseCsv(file.lines)
      [] file.format = "csv in chunks" -> ParseCsvChunked(file.lines)
      [] file.format = "excel" /\ ~OutOfPlace(file) -> ParseExcel(file.lines)
      [] file.format = "excel in chunks" /\ ~OutOfPlace(file) -> ParseExcelChunked(file.lines)
      [] file.format = "json" -> ParseJson(file.lines)
==============================================================================
