------------------------------- MODULE Codecs -------------------------------
(***************************************************************************)
(* The inputs of the codecs: a text grows symbol by symbol, and each of    *)
(* its states is an input that is checked.  A kind of text has an alphabet *)
(* and a length of its own.                                                *)
(***************************************************************************)
EXTENDS SqlSplit, TableText, Tar, Settings

VARIABLES kind, text

Signs(set, n) == UNION {[1..k -> set] : k \in 0..n}
Scripts == {"quotes", "dollars", "comments", "anything"}
Lines   == [is : {"assign", "export"}, value : {1, 2}] \cup
           {Blank, [is |-> "comment", value |-> 1], [is |-> "other", value |-> 3]}

Alphabet ==
  [quotes   |-> {"E", "a", "'", "\\", ";"},
   dollars  |-> {"$", "a", "1", "E", ";", "'"},
   comments |-> {"/", "*", "-", "\n", ";"},
   anything |-> {"E", "a", "w", "1", "$", "'", "\"", "\\", ";", "-", "/", "*", "\n", "\r", " "},
   cells    |-> {Null} \cup Signs({"\"", ",", "\n", "\r", "a"}, 2),
   pattern  |-> {"a", "b", "%", "_", "\\", "|"},
   bundle   |-> 0..9,
   value    |-> {"a", "=", "\"", "'", "\\", "#", " "},
   envfile  |-> Lines,
   dsn      |-> {"a", "@", ":", "/", "?", "%", " ", "|"},
   cron     |-> {Star, Every(6), On(0), On(7)}]

LongestText == [quotes |-> 7, dollars |-> 6, comments |-> 7, anything |-> 4, cells |-> 3,
            pattern |-> 6, bundle |-> 3, value |-> 5, envfile |-> 5, dsn |-> 5, cron |-> 5]

Init == kind \in DOMAIN Alphabet /\ text = <<>>

Next ==
  /\ Len(text) < LongestText[kind]
  /\ \E sign \in Alphabet[kind] : text' = Append(text, sign)
  /\ UNCHANGED kind

Spec == Init /\ [][Next]_<<kind, text>>

-----------------------------------------------------------------------------
(* What a text stands for *)

(* The parts between bars. *)
Bars     == {i \in DOMAIN text : text[i] = "|"}
Part(n)  == LET ends == <<0>> \o SetToSortSeq(Bars, <) \o <<Len(text) + 1>>
            IN  SubSeq(text, ends[n] + 1, ends[n + 1] - 1)

Column   == [i \in DOMAIN text |-> <<text[i]>>]
Pairs    == [i \in 1..Len(text) \div 2 |-> <<text[2 * i - 1], text[2 * i]>>]
Files    == [i \in DOMAIN text |-> [name |-> i, size |-> text[i]]]

-----------------------------------------------------------------------------
(* A script is cut into statements where PostgreSQL ends them, and a statement
   is judged by its first word: for every nesting of strings, comments and
   dollar quotes, but for what Lexed calls odd (sql-split.ts:24-99). *)
SplitsLikePostgres ==
  kind \in Scripts => CutsLikePostgres(text) /\ FirstWordLikePostgres(text)

(* Rows that are exported and imported again are what they were, with one
   exception (csv.ts:23), and a search finds what was typed
   (data.service.ts:368, filter-builder.ts:17). *)
TablesComeBack ==
  /\ kind = "cells" => RowsComeBack(Column) /\ RowsComeBack(Pairs)
  /\ kind = "pattern" /\ Cardinality(Bars) = 1 => PatternsAreLiteral(Part(1), Part(2))

(* Every file of a bundle is found again (tar.ts:43, 119). *)
BundlesComeBack == kind = "bundle" => FilesComeBack(Files)

(* Settings are read as they were saved, by the server and by its start
   (env-file.ts:57, 105; dsn.ts:12; filters.ts:28; cron-builder.ts:70). *)
SettingsComeBack ==
  /\ kind = "value" => ValueComesBack(text)
  /\ kind = "envfile" => FileIsKept(text, 8, 9)
  /\ kind = "dsn" /\ Cardinality(Bars) = 2 =>
       \A host \in {<<"a">>, <<"a", ":", "a">>} : DsnComesBack(Part(1), Part(2), host, Part(3))
  /\ kind = "dsn" /\ Cardinality(Bars) = 1 => FilterComesBack(Part(1), Part(2))
  /\ kind = "cron" /\ Len(text) = 5 => ScheduleIsKept(text)

(* What was written is read back: rows, bundles and settings. *)
FormatsComeBack == TablesComeBack /\ BundlesComeBack /\ SettingsComeBack
=============================================================================
