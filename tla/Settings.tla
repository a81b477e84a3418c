------------------------------- MODULE Settings -------------------------------
(***************************************************************************)
(* What is written as text to be read again later: the .env files of       *)
(* core/env-file.ts, the connection string of core/dsn.ts, the filters in  *)
(* a link (web/src/lib/filters.ts), and the cron expression of a schedule  *)
(* (web/src/features/backups/cron-builder.ts).                             *)
(*                                                                         *)
(* Texts are sequences of characters; "a" stands for all that are never    *)
(* quoted or encoded.                                                      *)
(***************************************************************************)
EXTENDS Naturals, SequencesExt, FiniteSetsExt

Absent == <<"none">>

Trimmed(text) ==
  LET solid == {i \in DOMAIN text : text[i] # " "}
  IN  IF solid = {} THEN <<>> ELSE SubSeq(text, Min(solid), Max(solid))

-----------------------------------------------------------------------------
(* One value in an .env file *)

Unquoted == {"a", "=", ":", "@", "/", "%", "?"}

Escaped(value) ==
  FlattenSeq([i \in DOMAIN value |->
    IF value[i] \in {"\\", "\""} THEN <<"\\", value[i]>> ELSE <<value[i]>>])

(* Fault: backslashes are not doubled. *)
formatEnvValueLoosely(value) ==
  CASE \A i \in DOMAIN value : value[i] \in Unquoted -> value
    [] OTHER -> <<"\"">> \o FlattenSeq([i \in DOMAIN value |->
                  IF value[i] = "\"" THEN <<"\\", "\"">> ELSE <<value[i]>>]) \o <<"\"">>

formatEnvValue(value) ==
  CASE \A i \in DOMAIN value : value[i] \in Unquoted -> value
    [] OTHER -> <<"\"">> \o Escaped(value) \o <<"\"">>

(* replaceAll('\' and c, c), from left to right. *)
RECURSIVE Unescaped(_, _)
Unescaped(text, c) ==
  CASE Len(text) < 2                  -> text
    [] IsPrefix(<<"\\", c>>, text)    -> <<c>> \o Unescaped(SubSeq(text, 3, Len(text)), c)
    [] OTHER                          -> <<Head(text)>> \o Unescaped(Tail(text), c)

parseValue(raw) ==
  LET text  == Trimmed(raw)
      inner == SubSeq(text, 2, Len(text) - 1)
  IN  CASE Len(text) >= 2 /\ text[1] = "\"" /\ Last(text) = "\"" -> Unescaped(Unescaped(inner, "\""), "\\")
        [] Len(text) >= 2 /\ text[1] = "'" /\ Last(text) = "'"   -> inner
        [] OTHER                                                 -> text

(* process.loadEnvFile() of Node.js, which starts the server: a quoted value
   ends with the next quote, another one with a comment. *)
loadedValue(raw) ==
  LET text   == Trimmed(raw)
      Ends(c) == {i \in 2..Len(text) : text[i] = c}
      hash   == {i \in DOMAIN text : text[i] = "#"}
  IN  CASE text # <<>> /\ text[1] \in {"\"", "'"} /\ Ends(text[1]) # {} ->
             SubSeq(text, 2, Min(Ends(text[1])) - 1)
        [] hash # {} -> Trimmed(SubSeq(text, 1, Min(hash) - 1))
        [] OTHER     -> text

(* A value is read as it was written; the start reads it, too, unless it has
   quotes or backslashes in it, which Node.js does not unescape. *)
ValueComesBack(value) ==
  LET raw == formatEnvValue(value)
  IN  /\ parseValue(raw) = value
      /\ (\A i \in DOMAIN value : value[i] \notin {"\"", "\\"}) => loadedValue(raw) = value

-----------------------------------------------------------------------------
(* The lines of an .env file.  A line is [is, value]: "assign" and "export"
   assign the key in question, "comment" has it in a comment, "other" is
   anything else.  A text that ends with a newline has a last line of none. *)

Blank   == [is |-> "blank", value |-> 0]
Line(v) == [is |-> "assign", value |-> v]
Assigns(line) == line.is \in {"assign", "export"}
Assigned(lines) == {i \in DOMAIN lines : Assigns(lines[i])}

(* The lines of a file: split('\n') without the empty text after the last. *)
LinesOf(file) == IF file # <<>> /\ Last(file) = Blank THEN Front(file) ELSE file
Written(lines) == Append(lines, Blank)

readEnvVar(file) == IF Assigned(file) = {} THEN 0 ELSE file[Min(Assigned(file))].value

upsertEnvVar(file, v) ==
  LET lines == LinesOf(file)
  IN  Written(CASE Assigned(lines) # {} -> [lines EXCEPT ![Min(Assigned(lines))] = Line(v)]
                [] Assigned(lines) = {} /\ lines = <<>> -> <<Line(v)>>
                [] Assigned(lines) = {} /\ lines # <<>> -> lines \o <<Blank, Line(v)>>)

RECURSIVE WithoutLastBlanks(_)
WithoutLastBlanks(lines) ==
  IF lines # <<>> /\ Last(lines) = Blank THEN WithoutLastBlanks(Front(lines)) ELSE lines

removeEnvVar(file) ==
  LET kept == WithoutLastBlanks(SelectSeq(file, LAMBDA line : ~Assigns(line)))
  IN  IF kept = <<>> THEN <<>> ELSE Written(kept)

(* The start takes the last assignment in the file. *)
Booted(file) == IF Assigned(file) = {} THEN 0 ELSE file[Max(Assigned(file))].value

(* What is saved is read, and taken by the start unless the key is assigned
   twice; what is removed is gone; saving again changes one line; and nothing
   else in the file changes but blank lines at its end. *)
FileIsKept(file, v, w) ==
  LET saved  == upsertEnvVar(file, v)
      Others(f) == WithoutLastBlanks(SelectSeq(f, LAMBDA line : ~Assigns(line)))
  IN  /\ readEnvVar(saved) = v
      /\ Cardinality(Assigned(file)) < 2 => Booted(saved) = v
      /\ readEnvVar(removeEnvVar(saved)) = 0 /\ Booted(removeEnvVar(saved)) = 0
      /\ upsertEnvVar(saved, w) = upsertEnvVar(file, w)
      /\ Others(saved) = Others(file) /\ Others(removeEnvVar(file)) = Others(file)

-----------------------------------------------------------------------------
(* Percent encoding *)

Codes == [c \in {"@", ":", "/", "?", "#", "%", " "} |-> "code of " \o c]

(* Fault: encodeURI(), which leaves the signs of an address alone. *)
encodeURI(text) ==
  FlattenSeq([i \in DOMAIN text |->
    IF text[i] \in {"%", " "} THEN <<"%", Codes[text[i]]>> ELSE <<text[i]>>])

encodeURIComponent(text) ==
  FlattenSeq([i \in DOMAIN text |->
    IF text[i] \in DOMAIN Codes THEN <<"%", Codes[text[i]]>> ELSE <<text[i]>>])

RECURSIVE decodeURIComponent(_)
decodeURIComponent(text) ==
  CASE text = <<>> -> <<>>
    [] text # <<>> /\ Head(text) = "%" ->
         <<CHOOSE c \in DOMAIN Codes : Len(text) > 1 /\ Codes[c] = text[2]>>
           \o decodeURIComponent(SubSeq(text, 3, Len(text)))
    [] OTHER -> <<Head(text)>> \o decodeURIComponent(Tail(text))

(* The places of the characters, and the text up to and after one. *)
Places(text, chars) == {i \in DOMAIN text : text[i] \in chars}
UpTo(text, i)  == SubSeq(text, 1, i - 1)
Beyond(text, i) == SubSeq(text, i + 1, Len(text))
FirstOr(set, i) == Min(set \cup {i})

(* buildMetadataDsn(), without the scheme; the port and the mode are left out. *)
buildMetadataDsn(user, password, host, database) ==
  LET name      == encodeURIComponent(Trimmed(user))
      auth      == CASE password # <<>> -> name \o <<":">> \o encodeURIComponent(password) \o <<"@">>
                     [] password = <<>> /\ name # <<>> -> Append(name, "@")
                     [] OTHER -> <<>>
      authority == IF ":" \in ToSet(host) THEN <<"[">> \o host \o <<"]">> ELSE host
  IN  auth \o authority \o <<":", "port", "/">> \o encodeURIComponent(Trimmed(database))
           \o <<"?", "sslmode">>

(* What an URL parser makes of it: the driver, which keeps the password, and
   parseMetadataDsn(), which does not. *)
parsedDsn(url) ==
  LET authority == UpTo(url, FirstOr(Places(url, {"/", "?", "#"}), Len(url) + 1))
      at        == Max(Places(authority, {"@"}) \cup {0})
      auth      == UpTo(authority, at)
      colon     == FirstOr(Places(auth, {":"}), Len(auth) + 1)
      address   == Beyond(authority, at)
      port      == Max(Places(address, {":"}))
      hostname  == UpTo(address, port)
      path      == Beyond(url, Len(authority))
      database  == UpTo(path, FirstOr(Places(path, {"?", "#"}), Len(path) + 1))
  IN  [username |-> decodeURIComponent(UpTo(auth, colon)),
       password |-> decodeURIComponent(Beyond(auth, colon)),
       host     |-> IF hostname # <<>> /\ hostname[1] = "[" THEN SubSeq(hostname, 2, Len(hostname) - 1)
                    ELSE hostname,
       database |-> decodeURIComponent(Tail(database))]

(* Name, password and database come back whatever signs are in them. *)
DsnComesBack(user, password, host, database) ==
  parsedDsn(buildMetadataDsn(user, password, host, database)) =
    [username |-> Trimmed(user), password |-> password, host |-> host,
     database |-> Trimmed(database)]

(* A filter in a link: column, operator and value between colons. *)
encodeFilter(column, value) ==
  encodeURIComponent(column) \o <<":", "op", ":">> \o encodeURIComponent(value)

decodeFilter(raw) ==
  LET first  == FirstOr(Places(raw, {":"}), Len(raw) + 1)
      rest   == Beyond(raw, first)
      second == FirstOr(Places(rest, {":"}), Len(rest) + 1)
  IN  IF first = 1 THEN Absent
      ELSE <<decodeURIComponent(UpTo(raw, first)), UpTo(rest, second),
             decodeURIComponent(Beyond(rest, second))>>

FilterComesBack(column, value) ==
  decodeFilter(encodeFilter(column, value)) =
    IF column = <<>> THEN Absent ELSE <<column, <<"op">>, value>>

-----------------------------------------------------------------------------
(* A cron expression: five fields, a field is [is, n]. *)

Star     == [is |-> "any", n |-> 0]
Every(n) == [is |-> "every", n |-> n]
On(n)    == [is |-> "at", n |-> n]

Shape(cron) == [i \in DOMAIN cron |-> cron[i].is]

Frequency(cron) ==
  CASE Shape(cron) = <<"at", "any", "any", "any", "any">>   -> "hourly"
    [] Shape(cron) = <<"at", "every", "any", "any", "any">> -> "interval"
    [] Shape(cron) = <<"at", "at", "any", "any", "any">>    -> "daily"
    [] Shape(cron) = <<"at", "at", "any", "any", "at">>     -> "weekly"
    [] Shape(cron) = <<"at", "at", "at", "any", "any">>     -> "monthly"
    [] Shape(cron) = <<"at", "at", "at", "at", "any">>      -> "yearly"
    [] OTHER                                                -> "custom"

DefaultSpec(cron) ==
  [frequency |-> "custom", custom |-> cron, minute |-> 0, hour |-> 3, intervalHours |-> 6,
   weekday |-> 1, dayOfMonth |-> 1, month |-> 1]

parseCron(cron) ==
  LET f == Frequency(cron)
      n(i) == cron[i].n
  IN  [DefaultSpec(cron) EXCEPT
             !.frequency = f,
             !.minute = IF f # "custom" THEN n(1) ELSE @,
             !.intervalHours = IF f = "interval" THEN n(2) ELSE @,
             !.hour = IF f \in {"daily", "weekly", "monthly", "yearly"} THEN n(2) ELSE @,
             !.weekday = IF f = "weekly" THEN n(5) % 7 ELSE @,
             !.dayOfMonth = IF f \in {"monthly", "yearly"} THEN n(3) ELSE @,
             !.month = IF f = "yearly" THEN n(4) ELSE @]

buildCron(spec) ==
  CASE spec.frequency = "hourly"   -> <<On(spec.minute), Star, Star, Star, Star>>
    [] spec.frequency = "interval" -> <<On(spec.minute), Every(spec.intervalHours), Star, Star, Star>>
    [] spec.frequency = "daily"    -> <<On(spec.minute), On(spec.hour), Star, Star, Star>>
    [] spec.frequency = "weekly"   -> <<On(spec.minute), On(spec.hour), Star, Star, On(spec.weekday)>>
    [] spec.frequency = "monthly"  -> <<On(spec.minute), On(spec.hour), On(spec.dayOfMonth), Star, Star>>
    [] spec.frequency = "yearly"   -> <<On(spec.minute), On(spec.hour), On(spec.dayOfMonth), On(spec.month), Star>>
    [] spec.frequency = "custom"   -> spec.custom

(* A schedule that is opened in the form and saved runs when it did: Sunday is
   0 or 7. *)
ScheduleIsKept(cron) ==
  LET saved == buildCron(parseCron(cron))
      Day(field) == IF field = On(7) THEN On(0) ELSE field
  IN  [saved EXCEPT ![5] = Day(@)] = [cron EXCEPT ![5] = Day(@)]
=============================================================================
