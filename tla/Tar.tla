--------------------------------- MODULE Tar ---------------------------------
(***************************************************************************)
(* core/tar.ts: the bundle of a whole-server backup, as bytes.             *)
(*                                                                         *)
(* The header is scaled down: a block has Block bytes, of which one is the *)
(* name, Width the size and one the type; digits have the base Base.  The  *)
(* other fields are constant or not read.  A byte is a pair: what it is    *)
(* for, and its value.                                                     *)
(***************************************************************************)
EXTENDS Integers, SequencesExt, FiniteSetsExt

(* There is room for the fields: Base > 1, Width > 1, Block >= Width + 2. *)
CONSTANTS Block, Width, Base

Zero     == <<"zero", 0>>
Digit(d) == <<"digit", d>>
Name(n)  == <<"name", n>>
Regular  == <<"type", 0>>
Zeros(n) == [i \in 1..n |-> Zero]

-----------------------------------------------------------------------------
(* Writing *)

RECURSIVE DigitsOf(_)
DigitsOf(value) ==
  IF value < Base THEN <<value>> ELSE Append(DigitsOf(value \div Base), value % Base)

(* padStart() fills the field up, and cuts nothing; a zero byte ends it. *)
octal(value, width) ==
  LET digits == DigitsOf(value)
      fill   == IF Len(digits) < width - 1 THEN width - 1 - Len(digits) ELSE 0
  IN  [i \in 1..fill |-> Digit(0)] \o [i \in DOMAIN digits |-> Digit(digits[i])] \o <<Zero>>

(* Fault: the field always ends with a zero byte. *)
FieldEnded(bytes, width) == Append(SubSeq(bytes, 1, width - 1), Zero)

(* buf.write() writes no more than the field holds. *)
Field(bytes, width) == SubSeq(bytes, 1, width)

header(name, size) ==
  <<Name(name)>> \o Field(octal(size, Width), Width) \o <<Regular>> \o Zeros(Block - Width - 2)

padding(size) == (Block - (size % Block)) % Block

Content(file) == [i \in 1..file.size |-> <<"data", file.name>>]

(* packTar(), for files given as name and size. *)
Packed(files) ==
  FlattenSeq([i \in DOMAIN files |->
    header(files[i].name, files[i].size) \o Content(files[i]) \o Zeros(padding(files[i].size))])
  \o Zeros(2 * Block)

-----------------------------------------------------------------------------
(* Reading *)

(* parseOctal(): up to the zero byte, and as far as there are digits. *)
parseOctal(bytes) ==
  LET ends  == {i \in DOMAIN bytes : bytes[i] \notin {Digit(d) : d \in 0..Base - 1}} \cup {Len(bytes) + 1}
      value[i \in 0..Len(bytes)] == IF i = 0 THEN 0 ELSE value[i - 1] * Base + bytes[i][2]
  IN  value[Min(ends) - 1]

(* listTar(): from header to header, until a block of zeros or the end. *)
RECURSIVE ListFrom(_, _)
ListFrom(archive, offset) ==
  LET block == SubSeq(archive, offset + 1, offset + Block)
      size  == parseOctal(SubSeq(block, 2, Width + 1))
      entry == [name |-> block[1][2], size |-> size, offset |-> offset + Block]
  IN  IF Len(block) < Block \/ block = Zeros(Block) THEN <<>>
      ELSE (IF block[1] # Zero /\ block[Width + 2] \in {Regular, Zero} THEN <<entry>> ELSE <<>>)
           \o ListFrom(archive, offset + Block + size + padding(size))

listTar(archive) == ListFrom(archive, 0)

(* extractEntry() and readEntry() *)
Extracted(archive, entry) == SubSeq(archive, entry.offset + 1, entry.offset + entry.size)

-----------------------------------------------------------------------------
RECURSIVE Power(_)
Power(n) == IF n = 0 THEN 1 ELSE Base * Power(n - 1)

(* Every file is listed with its name and its bytes, as long as each has fewer
   digits than its field has places.  A larger one hides those after it. *)
FilesComeBack(files) ==
  LET archive == Packed(files)
      entries == listTar(archive)
      large   == {i \in DOMAIN files : files[i].size >= Power(Width)}
      whole   == IF large = {} THEN Len(files) ELSE Min(large) - 1
  IN  /\ Len(entries) >= whole
      /\ large = {} => Len(entries) = Len(files)
      /\ \A i \in 1..whole :
           /\ entries[i].name = files[i].name
           /\ Extracted(archive, entries[i]) = Content(files[i])
      /\ large # {} => Extracted(archive, entries[whole + 1]) # Content(files[whole + 1])
=============================================================================
