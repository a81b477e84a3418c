------------------------------ MODULE SqlSplit ------------------------------
(***************************************************************************)
(* core/sql-split.ts: where a script is cut into statements, and the word  *)
(* a statement begins with; against the lexer of PostgreSQL.               *)
(*                                                                         *)
(* A script is a sequence of characters; a few stand for their class: "a"  *)
(* and "E" for the letters, "1" for the digits, "w" for a letter beyond    *)
(* ASCII.                                                                  *)
(***************************************************************************)
EXTENDS Naturals, Sequences, FiniteSetsExt

Ascii   == {"a", "E"}
Letters == Ascii \cup {"w"}
Digits  == {"1"}
Blanks  == {" ", "\n", "\r"}

At(s, i) == IF i \in DOMAIN s THEN s[i] ELSE "end"

HasAt(s, p, i) == \A k \in DOMAIN p : At(s, i + k - 1) = p[k]

(* indexOf(): the end of the script when there is none. *)
Find(s, p, i) ==
  LET hits == {k \in i..Len(s) : HasAt(s, p, k)}
  IN  IF hits = {} THEN Len(s) + 1 ELSE Min(hits)

-----------------------------------------------------------------------------
(* splitSqlStatements(): it goes from token to token. *)

(* Fault: comments do not nest. *)
AfterBlockFlat(s, i, depth) == Find(s, <<"*", "/">>, i) + 2

RECURSIVE AfterBlock(_, _, _)
AfterBlock(s, i, depth) ==
  IF depth = 0 \/ i > Len(s) THEN i
  ELSE CASE HasAt(s, <<"/", "*">>, i) -> AfterBlock(s, i + 2, depth + 1)
         [] HasAt(s, <<"*", "/">>, i) -> AfterBlock(s, i + 2, depth - 1)
         [] OTHER                     -> AfterBlock(s, i + 1, depth)

RECURSIVE AfterQuoted(_, _, _, _)
AfterQuoted(s, i, quote, escaped) ==
  IF i > Len(s) THEN i
  ELSE CASE escaped /\ s[i] = "\\"               -> AfterQuoted(s, i + 2, quote, escaped)
         [] s[i] = quote /\ At(s, i + 1) = quote -> AfterQuoted(s, i + 2, quote, escaped)
         [] s[i] = quote /\ At(s, i + 1) # quote -> i + 1
         [] OTHER                                -> AfterQuoted(s, i + 1, quote, escaped)

(* The ends of a dollar-quote tag that begins at i: one at most. *)
TagEnds(s, i) ==
  {j \in i + 1..Len(s) :
     /\ s[i] = "$" /\ s[j] = "$"
     /\ j > i + 1 => s[i + 1] \in Ascii
     /\ \A k \in i + 2..j - 1 : s[k] \in Ascii \cup Digits}

AfterDollar(s, i) ==
  LET tag == SubSeq(s, i, Min(TagEnds(s, i)))
  IN  Find(s, tag, i + Len(tag)) + Len(tag)

After(s, i) ==
  CASE HasAt(s, <<"-", "-">>, i) -> Find(s, <<"\n">>, i) + 1
    [] HasAt(s, <<"/", "*">>, i) -> AfterBlock(s, i + 2, 1)
    [] s[i] = "'"                -> AfterQuoted(s, i + 1, "'", At(s, i - 1) = "E")
    [] s[i] = "\""               -> AfterQuoted(s, i + 1, "\"", FALSE)
    [] TagEnds(s, i) # {}        -> AfterDollar(s, i)
    [] OTHER                     -> i + 1

RECURSIVE CutsFrom(_, _)
CutsFrom(s, i) ==
  IF i > Len(s) THEN {}
  ELSE (IF s[i] = ";" THEN {i} ELSE {}) \cup CutsFrom(s, After(s, i))

Cuts(s) == CutsFrom(s, 1)

(* firstKeyword(): blanks and comments are stripped, a comment up to the next
   end of one. *)
RECURSIVE FirstFrom(_, _)
FirstFrom(s, i) ==
  CASE At(s, i) \in Blanks       -> FirstFrom(s, i + 1)
    [] HasAt(s, <<"-", "-">>, i) -> FirstFrom(s, Find(s, <<"\n">>, i) + 1)
    [] HasAt(s, <<"/", "*">>, i) -> FirstFrom(s, Find(s, <<"*", "/">>, i) + 2)
    [] OTHER                     -> i

-----------------------------------------------------------------------------
(* The lexer of PostgreSQL, one character at a time.                       *)
(*   in     "code", "line", "return" (a line comment that ended with it),  *)
(*          "block", "string", "closed" (after the quote that may end a    *)
(*          string), "dollar"                                              *)
(*   half   the character before, when it may begin a token of two         *)
(*   word   the word it is in: "E" for that word, "end" for another one    *)
(*          that ends with E so far                                        *)
(*   tag    of the dollar quote; seen: the part of a tag that was seen     *)
(*   odd    something that splitSqlStatements() takes for something else:  *)
(*          a dollar within a word, a string after a word that ends with   *)
(*          E, a tag with letters beyond ASCII, a carriage return alone    *)
(* A string that goes on in the next line is left out.                     *)

Start == [in |-> "code", half |-> "", word |-> "", depth |-> 0, quote |-> "",
          escaped |-> FALSE, tag |-> <<>>, seen |-> <<>>, cuts |-> {}, first |-> 0,
          odd |-> FALSE]

InTag(seen, c) == seen # <<>> /\ (c \in Letters \/ (c \in Digits /\ Len(seen) > 1))

Word(word, c) ==
  CASE c = "E"                                           -> IF word = "" THEN "E" ELSE "end"
    [] c \in Letters \ {"E"}                             -> "other"
    [] c \in Digits \cup {"$"} /\ word # ""              -> "other"
    [] OTHER                                             -> ""

(* A part of a tag that comes to nothing is a dollar and a word. *)
Abandoned(m) ==
  IF m.seen = <<>> THEN m
  ELSE [m EXCEPT !.seen = <<>>,
                 !.word = CASE Len(m.seen) = 1                              -> ""
                            [] Len(m.seen) > 1 /\ m.seen[Len(m.seen)] # "E" -> "other"
                            [] Len(m.seen) = 2 /\ m.seen[2] = "E"           -> "E"
                            [] Len(m.seen) > 2 /\ m.seen[Len(m.seen)] = "E" -> "end"]

Token(m, i) == [m EXCEPT !.first = IF @ = 0 THEN i ELSE @]

Code(m, c, i) ==
  CASE c = "-" /\ m.half = "-"  -> [m EXCEPT !.in = "line", !.half = ""]
    [] c = "*" /\ m.half = "/"  -> [m EXCEPT !.in = "block", !.half = "", !.depth = 1]
    [] InTag(m.seen, c)         -> [m EXCEPT !.seen = Append(@, c)]
    [] c = "$" /\ m.seen # <<>> ->
         [m EXCEPT !.in = "dollar", !.tag = Append(m.seen, c), !.seen = <<>>,
                   !.odd = @ \/ \E k \in DOMAIN m.seen : m.seen[k] = "w"]
    [] OTHER ->
         LET n == Abandoned(m)
             t == IF n.half # "" THEN Token(n, i - 1) ELSE n
             u == IF c \in Blanks \cup {"-", "/"} THEN t ELSE Token(t, i)
             v == [u EXCEPT !.half = IF c \in {"-", "/"} THEN c ELSE "",
                            !.word = Word(n.word, c),
                            !.odd = @ \/ (c = "$" /\ n.word # "") \/ (c = "'" /\ n.word = "end")]
         IN  CASE c = ";" -> [v EXCEPT !.cuts = @ \cup {i}]
               [] c \in {"'", "\""} ->
                    [v EXCEPT !.in = "string", !.quote = c, !.escaped = c = "'" /\ n.word = "E"]
               [] c = "$" /\ n.word = "" -> [v EXCEPT !.seen = <<"$">>]
               [] OTHER -> v

Step(m, c, i) ==
  CASE m.in = "code" -> Code(m, c, i)
    [] m.in = "line" ->
         [m EXCEPT !.in = CASE c = "\n" -> "code" [] c = "\r" -> "return" [] OTHER -> "line"]
    [] m.in = "return" -> Code([m EXCEPT !.in = "code", !.odd = @ \/ c # "\n"], c, i)
    [] m.in = "block" ->
         CASE m.half = "/" /\ c = "*" -> [m EXCEPT !.depth = @ + 1, !.half = ""]
           [] m.half = "*" /\ c = "/" ->
                [m EXCEPT !.depth = @ - 1, !.half = "", !.in = IF m.depth = 1 THEN "code" ELSE @]
           [] OTHER -> [m EXCEPT !.half = IF c \in {"/", "*"} THEN c ELSE ""]
    [] m.in = "string" ->
         CASE m.half = "\\"                          -> [m EXCEPT !.half = ""]
           [] m.half = "" /\ m.escaped /\ c = "\\"   -> [m EXCEPT !.half = "\\"]
           [] m.half = "" /\ c = m.quote             -> [m EXCEPT !.in = "closed"]
           [] OTHER                                  -> m
    [] m.in = "closed" ->
         IF c = m.quote THEN [m EXCEPT !.in = "string"]
         ELSE Code([m EXCEPT !.in = "code"], c, i)
    [] m.in = "dollar" ->
         CASE c = "$" /\ Append(m.seen, c) = m.tag -> [m EXCEPT !.in = "code", !.seen = <<>>]
           [] c = "$" /\ Append(m.seen, c) # m.tag -> [m EXCEPT !.seen = <<"$">>]
           [] InTag(m.seen, c)                     -> [m EXCEPT !.seen = Append(@, c)]
           [] OTHER                                -> [m EXCEPT !.seen = <<>>]

Lexed(s) ==
  LET machine[i \in 0..Len(s)] == IF i = 0 THEN Start ELSE Step(machine[i - 1], s[i], i)
      end == machine[Len(s)]
  IN  IF end.in = "code" /\ end.half # "" THEN Token(end, Len(s)) ELSE end

-----------------------------------------------------------------------------
(* A script without anything odd is cut where PostgreSQL would. *)
CutsLikePostgres(s) == ~ Lexed(s).odd => Cuts(s) = Lexed(s).cuts

(* No comment within a comment, nor one that seems to end in its first sign. *)
Flat(s) ==
  \A i, j \in DOMAIN s :
    HasAt(s, <<"/", "*">>, i) /\ HasAt(s, <<"/", "*">>, j) =>
      At(s, i + 2) # "/" /\ (i < j => \E k \in i + 2..j - 2 : HasAt(s, <<"*", "/">>, k))

(* The word a statement is judged by is the first that PostgreSQL reads. *)
FirstWordLikePostgres(s) ==
  ~ Lexed(s).odd /\ Flat(s) => (FirstFrom(s, 1) > Len(s)) = (Lexed(s).first = 0)
                               /\ Lexed(s).first \in {0, FirstFrom(s, 1)}
=============================================================================
