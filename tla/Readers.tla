------------------------------- MODULE Readers -------------------------------
(***************************************************************************)
(* The readers of rows: the CSV reader and the CSV body of /predict, the   *)
(* table checked by nwx_check and read by the loader of data sets, and the *)
(* scanner of /validate and /predict/stream, which infers a shape.         *)
(*                                                                         *)
(* A text is a sequence of characters, of which the model keeps those that *)
(* the readers tell apart: the separators, digits, and a few others.       *)
(***************************************************************************)
EXTENDS Naturals, Sequences, SequencesExt

CONSTANT MaxLine   \* the longest line of a CSV body that is read, 4096 characters

ASSUME MaxLineAssumption == MaxLine \in Nat

Digits == {"1", "2"}

\* Values of cells that are not the digits of a number.
NotFinite == <<"n">>   \* nan and inf, which std::stod reads
Malformed == <<"x">>   \* std::stod throws
Missing   == <<"?">>   \* read behind the end of a row: any value

Thrown == << <<Malformed>> >>   \* the exception has left the reader
Aborted == 134                   \* and the program

-----------------------------------------------------------------------------
(* std::getline and std::stod, as the rows of csv.cpp and serve.cpp use    *)
(* them.                                                                   *)

Newline == "\n"
Comma   == ","

\* Characters go to the piece that is being read, until the separator.
Getline(p, c, sep) ==
  IF c = sep THEN [done |-> Append(p.done, p.cur), cur |-> <<>>]
             ELSE [p EXCEPT !.cur = Append(@, c)]

Split(text, sep) ==
  FoldLeft(LAMBDA p, c : Getline(p, c, sep), [done |-> <<>>, cur |-> <<>>], text)

\* The pieces that repeated calls of getline(text, piece, sep) return: there is
\* none after a separator that ends the text.
Pieces(text, sep) ==
  LET end == Split(text, sep)
  IN  IF end.cur = <<>> THEN end.done ELSE Append(end.done, end.cur)

\* stod reads the longest number a cell begins with; "n" stands for nan and inf, which
\* may have a sign too.
Stod(cell) ==
  LET InNumber(i) == cell[i] \in Digits \/ (i = 1 /\ cell[i] = "-")
      k == Max({l \in 0..Len(cell) : \A i \in 1..l : InNumber(i)})
  IN  CASE \E i \in 1..k : cell[i] \in Digits -> SubSeq(cell, 1, k)
        [] k < Len(cell) /\ cell[k + 1] = "n" /\ ~(\E i \in 1..k : cell[i] \in Digits) ->
             NotFinite
        [] OTHER -> Malformed

Cells(line) ==
  LET cells == Pieces(line, Comma) IN [j \in DOMAIN cells |-> Stod(cells[j])]

\* The lines that are not empty are rows.
AddRow(rows, line) == IF line = <<>> THEN rows ELSE Append(rows, Cells(line))

LineRows(lines) == FoldLeft(AddRow, <<>>, lines)

CsvRows(text) == LineRows(Pieces(text, Newline))

\* read_csv_numeric lets the exception of a malformed cell through.
read_csv_numeric(text) ==
  LET rows == CsvRows(text)
  IN  IF \E i \in DOMAIN rows : Malformed \in ToSet(rows[i]) THEN Thrown ELSE rows

TooLong(line) == Len(line) > MaxLine

\* The lines of the body of /predict: one that is too long is answered with a 400
\* and passed over, as an empty one is.
BodyLines(body) ==
  LET lines == Pieces(body, Newline)
  IN  [i \in DOMAIN lines |-> IF TooLong(lines[i]) THEN <<>> ELSE lines[i]]

\* Slip for BodyRows: a malformed cell has the value of the cell before it.
BodyRowsKeepLast(body) ==
  LET rows == LineRows(BodyLines(body))
      Kept(row, j) == LET good == {i \in 1..j : row[i] # Malformed}
                      IN  IF good = {} THEN <<>> ELSE row[Max(good)]
  IN  [i \in DOMAIN rows |-> [j \in DOMAIN rows[i] |-> Kept(rows[i], j)]]

\* The rows of the body of /predict, with 0.0 for a malformed cell, here the number <<>>.
BodyRows(body) ==
  LET rows == LineRows(BodyLines(body))
  IN  [i \in DOMAIN rows |->
         [j \in DOMAIN rows[i] |-> IF rows[i][j] = Malformed THEN <<>> ELSE rows[i][j]]]

\* Slip for WrongWidth: only rows that are too long are wrong.
WrongWidthLonger(rows, i) == Len(rows[i]) > Len(rows[1])

\* Every row must have as many cells as the first.
WrongWidth(rows, i) == Len(rows[i]) # Len(rows[1])

\* The exit code of nwx_check, that of the first row at fault.
nwx_check(text) ==
  LET rows == read_csv_numeric(text)
      bad == {i \in DOMAIN rows : WrongWidth(rows, i) \/ NotFinite \in ToSet(rows[i])}
  IN  IF rows = Thrown THEN Aborted
      ELSE IF rows = <<>> THEN 3
      ELSE IF bad = {} THEN 0
      ELSE IF WrongWidth(rows, Min(bad)) THEN 4 ELSE 5

\* The rows load_csv_classification makes features and labels of, by the width of
\* the first; it throws when there are none.
load_csv_classification(text) ==
  LET rows == read_csv_numeric(text)
      Cell(i, j) == IF j <= Len(rows[i]) THEN rows[i][j] ELSE Missing
      width == Len(rows[1])
  IN  IF rows \in {Thrown, <<>>} THEN <<>>
      ELSE [i \in DOMAIN rows |-> [x |-> [j \in 1..(width - 1) |-> Cell(i, j)],
                                   y |-> Cell(i, width)]]

-----------------------------------------------------------------------------
(* The scanner of a body {"instances": [[...], ...]}.                      *)

Key == "instances"
Opening == "["
Closing == "]"

\* Slip for RowClosed: the commas of all rows are counted.
RowClosedKeepsCount(s) ==
  IF s.cur = 0 THEN s
  ELSE [s EXCEPT !.cols = IF @ = 0 THEN s.cur ELSE @, !.rows = @ + 1]

\* ] ends a row if commas were seen since the last one; the first such row
\* gives the number of columns.
RowClosed(s) ==
  IF s.cur = 0 THEN s
  ELSE [s EXCEPT !.cols = IF @ = 0 THEN s.cur ELSE @, !.rows = @ + 1, !.cur = 0]

\* One character of the body; a number is complete at the next other character.
ScanChar(s, c) ==
  LET t == [s EXCEPT !.innum = FALSE, !.nums = IF s.innum THEN @ + 1 ELSE @]
  IN  CASE c \in Digits    -> [s EXCEPT !.innum = TRUE]
        [] c = Closing     -> RowClosed(t)
        [] c = Comma       -> [t EXCEPT !.cur = @ + 1]
        [] OTHER           -> t

Scan(body) ==
  FoldLeft(ScanChar, [rows |-> 0, cols |-> 0, cur |-> 0, innum |-> FALSE, nums |-> 0],
           body)

\* POST /validate
ValidateCode(body) ==
  LET s == Scan(body)
  IN  IF Key \notin ToSet(body) \/ s.cols = 0 \/ s.rows = 0 THEN 400 ELSE 204

ShapeFound(body) == Key \in ToSet(body) /\ Scan(body).cols # 0

\* POST /predict/stream, which has sent its header when it begins to read.  Without a
\* shape a 400 follows.  Otherwise X takes nums[r*cols + c], and events, one per row,
\* follow the pass through the model.  That asserts the width of X to be the
\* model's: a build with assertions ends there, one without goes on.
Streamed(body, inputs) ==
  LET s == Scan(body)
  IN  IF ~ShapeFound(body)
      THEN [codes |-> <<200, 400>>, nums |-> s.nums, reads |-> {}, events |-> {0}]
      ELSE [codes |-> <<200>>, nums |-> s.nums,
            reads |-> {r * s.cols + c : r \in 0..(s.rows - 1), c \in 0..(s.cols - 1)},
            events |-> IF s.cols = inputs THEN {s.rows} ELSE {0, s.rows}]

-----------------------------------------------------------------------------
(* What the readers promise.                                               *)

\* A validated body is one /predict/stream finds a shape for, and no other is.
ValidateAgrees(body) == (ValidateCode(body) = 204) <=> ShapeFound(body)

\* The characters of a row of C columns, from 0, and the comma before the next row.
RowChar(C, o) ==
  CASE o = 0                       -> Opening
    [] o = 2 * C                   -> Closing
    [] o % 2 = 1 /\ o < 2 * C      -> "1"
    [] OTHER                       -> Comma

\* The body that states a matrix of R rows and C columns.
Matrix(R, C) ==
  LET width == 2 * C + 2
  IN  [i \in 1..(R * width + 2) |->
         CASE i = 1             -> Key
           [] i = 2             -> Opening
           [] i = R * width + 2 -> Closing
           [] OTHER             -> RowChar(C, (i - 3) % width)]

\* Of a matrix that arrives whole or cut after k characters only numbers that were
\* sent are read, for at most its rows.  The shape of a whole one is a column short:
\* it has an event a row of a model with one input less than the matrix has columns,
\* and of a model as wide as the matrix it has none where assertions are compiled in.
\* A matrix of one column is taken for one of as many as it has, but a row short.
MatrixRead(R, C, k, inputs) ==
  LET body == Matrix(R, C)
      s == Streamed(SubSeq(body, 1, k), inputs)
  IN  /\ \A n \in s.reads : n < s.nums
      /\ s.nums <= R * C
      /\ s.events \subseteq 0..R
      /\ k = Len(body) /\ C > 1 /\ inputs = C - 1 => s.events = {R}
      /\ k = Len(body) /\ C > 1 /\ inputs = C => s.events = {0, R}
      /\ k = Len(body) /\ C = 1 /\ inputs = 1 => s.events = {R - 1}

\* The line of a body, cut after k characters, that was last begun.
LastLine(body, k) ==
  Pieces(body, Newline)[Len(Pieces(SubSeq(body, 1, k), Newline))]

\* What arrives of a CSV body, cut after k characters, gives the rows that were
\* sent, but for the last one.  That one may miss cells and end in a part of one,
\* or begin a line that is too long to be a row when it is whole.
CutRead(body, k) ==
  LET sent == BodyRows(body)
      cut == BodyRows(SubSeq(body, 1, k))
      n == Len(cut)
      last == cut[n]
  IN  /\ n - 1 <= Len(sent) /\ \A i \in 1..(n - 1) : cut[i] = sent[i]
      /\ n > 0 /\ ~TooLong(LastLine(body, k)) =>
           /\ n <= Len(sent) /\ Len(last) <= Len(sent[n])
           /\ IsPrefix(Front(last), sent[n])
           /\ IsPrefix(Last(last), sent[n][Len(last)])

\* A table nwx_check accepts is read without a cell that does not exist, and the
\* values read are numbers.
CheckedReads(text) ==
  nwx_check(text) = 0 =>
    \A row \in ToSet(load_csv_classification(text)) :
      {Missing, NotFinite} \cap (ToSet(row.x) \cup {row.y}) = {}
=============================================================================
