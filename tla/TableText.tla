------------------------------ MODULE TableText ------------------------------
(***************************************************************************)
(* Rows as text: the CSV export and import of modules/data/data.service.ts *)
(* with the parser of core/csv.ts, and the search patterns of              *)
(* modules/data/filter-builder.ts.                                         *)
(*                                                                         *)
(* A cell is a sequence of characters or Null; what turns other values     *)
(* into text (csvValue) is left out.                                       *)
(***************************************************************************)
EXTENDS Naturals, SequencesExt

Null == <<"null">>

-----------------------------------------------------------------------------
(* Export and import *)

(* Fault: a carriage return is not quoted. *)
SpecialFew == {"\"", ",", "\n"}

Special == {"\"", ",", "\n", "\r"}

csvEscape(cell) ==
  LET text == IF cell = Null THEN <<>> ELSE cell
  IN  IF \E i \in DOMAIN text : text[i] \in Special
        THEN <<"\"">> \o FlattenSeq([i \in DOMAIN text |->
               IF text[i] = "\"" THEN <<"\"", "\"">> ELSE <<text[i]>>]) \o <<"\"">>
        ELSE text

Joined(parts, between) ==
  FlattenSeq([i \in DOMAIN parts |-> IF i = 1 THEN parts[i] ELSE between \o parts[i]])

Exported(rows) ==
  FlattenSeq([r \in DOMAIN rows |->
    Joined([i \in DOMAIN rows[r] |-> csvEscape(rows[r][i])], <<",">>) \o <<"\n">>])

(* parseCsv(), one character after the other; `skip' for one that was read with
   the one before. *)
EmptyFile == [rows |-> <<>>, row |-> <<>>, field |-> <<>>, inQuotes |-> FALSE, skip |-> FALSE]

EndField(m) == [m EXCEPT !.row = Append(@, m.field), !.field = <<>>]

(* A row that is one empty field is taken for an empty line. *)
EndRow(m) ==
  LET n == EndField(m)
  IN  [n EXCEPT !.rows = IF n.row = <<<<>>>> THEN @ ELSE Append(@, n.row), !.row = <<>>]

Read(m, ch, next) ==
  CASE m.skip -> [m EXCEPT !.skip = FALSE]
    [] ~m.skip /\ m.inQuotes ->
         CASE ch = "\"" /\ next = "\"" -> [m EXCEPT !.field = Append(@, ch), !.skip = TRUE]
           [] ch = "\"" /\ next # "\"" -> [m EXCEPT !.inQuotes = FALSE]
           [] OTHER                    -> [m EXCEPT !.field = Append(@, ch)]
    [] ~m.skip /\ ~m.inQuotes ->
         CASE ch = "\"" /\ m.field = <<>> -> [m EXCEPT !.inQuotes = TRUE]
           [] ch = ","                    -> EndField(m)
           [] ch = "\n"                   -> EndRow(m)
           [] ch = "\r"                   -> [EndRow(m) EXCEPT !.skip = next = "\n"]
           [] OTHER                       -> [m EXCEPT !.field = Append(@, ch)]

parseCsv(text) ==
  LET read[i \in 0..Len(text)] ==
        IF i = 0 THEN EmptyFile
        ELSE Read(read[i - 1], text[i], IF i < Len(text) THEN text[i + 1] ELSE "end")
      end == read[Len(text)]
  IN  IF end.field # <<>> \/ end.row # <<>> THEN EndRow(end).rows ELSE end.rows

(* importCsv(): an empty field becomes NULL. *)
Imported(text) ==
  LET rows == parseCsv(text)
  IN  [r \in DOMAIN rows |->
        [i \in DOMAIN rows[r] |-> IF rows[r][i] = <<>> THEN Null ELSE rows[r][i]]]

(* Rows come back as they were, empty text as NULL; of a table with one column,
   the rows without a value are lost. *)
RowsComeBack(rows) ==
  LET nulled == [r \in DOMAIN rows |->
                  [i \in DOMAIN rows[r] |-> IF rows[r][i] = <<>> THEN Null ELSE rows[r][i]]]
  IN  Imported(Exported(rows)) = SelectSeq(nulled, LAMBDA row : row # <<Null>>)

-----------------------------------------------------------------------------
(* Search patterns *)

(* replaceAll() of one character. *)
Replaced(text, ch, by) ==
  FlattenSeq([i \in DOMAIN text |-> IF text[i] = ch THEN by ELSE <<text[i]>>])

(* Fault: the backslash last. *)
escapeLikeLate(value) ==
  Replaced(Replaced(Replaced(value, "%", <<"\\", "%">>), "_", <<"\\", "_">>), "\\", <<"\\", "\\">>)

escapeLike(value) ==
  Replaced(Replaced(Replaced(value, "\\", <<"\\", "\\">>), "%", <<"\\", "%">>), "_", <<"\\", "_">>)

Pattern(op, value) ==
  CASE op = "contains" -> <<"%">> \o escapeLike(value) \o <<"%">>
    [] op = "starts"   -> escapeLike(value) \o <<"%">>
    [] op = "ends"     -> <<"%">> \o escapeLike(value)

(* LIKE ... ESCAPE '\' of PostgreSQL. *)
RECURSIVE Like(_, _)
Like(text, pattern) ==
  CASE pattern = <<>>          -> text = <<>>
    [] pattern # <<>> /\ Head(pattern) = "%" ->
         \E k \in 1..Len(text) + 1 : Like(SubSeq(text, k, Len(text)), Tail(pattern))
    [] pattern # <<>> /\ Head(pattern) = "_" ->
         text # <<>> /\ Like(Tail(text), Tail(pattern))
    [] pattern # <<>> /\ Head(pattern) = "\\" ->
         /\ Len(pattern) > 1 /\ text # <<>> /\ Head(text) = pattern[2]
         /\ Like(Tail(text), Tail(Tail(pattern)))
    [] OTHER -> text # <<>> /\ Head(text) = Head(pattern) /\ Like(Tail(text), Tail(pattern))

(* A filter finds the texts that contain, start with or end with the value,
   letter by letter, whatever signs are in it. *)
PatternsAreLiteral(text, value) ==
  /\ Like(text, Pattern("contains", value)) =
       \E k \in 0..Len(text) - Len(value) : SubSeq(text, k + 1, k + Len(value)) = value
  /\ Like(text, Pattern("starts", value)) = IsPrefix(value, text)
  /\ Like(text, Pattern("ends", value)) = IsSuffix(value, text)
=============================================================================
