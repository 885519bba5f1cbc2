---------------------------- MODULE Conversions ----------------------------
(***************************************************************************)
(* What becomes of the values of fields from the get() that saves them to  *)
(* the put() that restores them: the type of the Data that get() fills,    *)
(* the text a backend writes of it with the name of the type, the parsing  *)
(* of one such text after the other by a later process, and the bytes that *)
(* put() hands to the database, whose field may have another type by then. *)
(*                                                                         *)
(* Integers have scaled widths.  A floating-point number is known by its   *)
(* magnitude only, and a string by whether it is empty or plain.  What     *)
(* other strings do to the entries around them is in FileStore.  A put     *)
(* that the record refuses is left out: it changes nothing.                *)
(***************************************************************************)
EXTENDS Integers, Sequences

CONSTANTS
  Sizes,    \* Sizes[w]: how many values stand for the 2^w values of w bits
  Entries,  \* bound: number of entries of the file
  Unset     \* no value

Widths == {8, 16, 32, 64}

ASSUME ConversionAssumption ==
  /\ Sizes \in [Widths -> Nat \ {0}]
  /\ \A w \in Widths : Sizes[w] % 2 = 0
  /\ \A w1, w2 \in Widths : w1 < w2 => 2 * Sizes[w1] <= Sizes[w2]
  /\ Entries \in Nat \ {0} /\ Unset \notin Int

VARIABLES
  stage,  \* "saving", "reading" or "putting"
  file,   \* entries: the field's type, the type named in the file, the text
  errno,  \* whether errno of the thread that reads is set
  began,  \* history: whether it was when the thread began to read
  data,   \* data[i]: what was read of the i-th entry
  field   \* the last put: which entry, the field's type, what the field holds now

vars == <<stage, file, errno, began, data, field>>

NoPut == [entry |-> 0]

Init ==
  /\ stage = "saving" /\ file = <<>>
  /\ errno = FALSE /\ began = FALSE
  /\ data = <<>> /\ field = NoPut
-----------------------------------------------------------------------------
(***************************************************************************)
(* Types.                                                                  *)
(***************************************************************************)
SignedWidth == [int8_t |-> 8, int16_t |-> 16, int32_t |-> 32, int64_t |-> 64]
UnsignedWidth == [uint8_t |-> 8, uint16_t |-> 16, uint32_t |-> 32, uint64_t |-> 64]
IntTypes == DOMAIN SignedWidth \union DOMAIN UnsignedWidth
FloatTypes == {"float32", "float64"}
Types == IntTypes \union FloatTypes \union {"string"}

Width(type) == IF type \in DOMAIN SignedWidth THEN SignedWidth[type] ELSE UnsignedWidth[type]
Size(type) == Sizes[Width(type)]

Zero == 0
Subnormal == 1
Normal == 2
Largest == 3
EmptyString == 0
PlainString == 1
OddString == 2  \* with blanks, quotes, backslashes or ends of lines

Values(type) ==
  CASE type \in DOMAIN UnsignedWidth -> 0..(Size(type) - 1)
    [] type \in DOMAIN SignedWidth -> -(Size(type) \div 2)..(Size(type) \div 2 - 1)
    [] type \in FloatTypes -> {Zero, Subnormal, Normal, Largest}
    [] type = "string" -> {EmptyString, PlainString, OddString}

\* The value of the type that has the low bits of n.
Unsigned(type, n) == n % Size(type)  \* mutant
Wrap(type, n) ==
  CHOOSE v \in Values(type) : v % Size(type) = n % Size(type)

\* What a field holds; an enum or a menu is a 16-bit index.
FieldType ==
  [STRING |-> "string", CHAR |-> "int8_t", UCHAR |-> "uint8_t", SHORT |-> "int16_t",
   USHORT |-> "uint16_t", LONG |-> "int32_t", ULONG |-> "uint32_t", INT64 |-> "int64_t",
   UINT64 |-> "uint64_t", FLOAT |-> "float32", DOUBLE |-> "float64", ENUM |-> "uint16_t"]
Fields == DOMAIN FieldType

\* dataFromDbfType: the type of the Data.  get() fills its first bytes.
EnumAsChar(dbf) == IF dbf = "ENUM" THEN "int8_t" ELSE FieldType[dbf]  \* mutant
DataType(dbf) == IF dbf = "ENUM" THEN "int32_t" ELSE FieldType[dbf]

\* typeCodeString and typeCodeFromString, by way of the file.
ShiftedName(type) ==  \* mutant: a table in the order of the field types
  CASE type = "float32" -> "float64" [] type = "float64" -> "string"
    [] type = "string" -> "float32" [] OTHER -> type
NamedType(type) == type
-----------------------------------------------------------------------------
(***************************************************************************)
(* Parsing.                                                                *)
(***************************************************************************)
Parsed(value, err) == [value |-> value, errno |-> err]

\* libCom's parsers for integers clear errno first, and look at the range.
NarrowResults(type, text) ==
  {Parsed(IF text \in Values(type) THEN text ELSE Unset, FALSE)}

\* Here errno is only looked at.
WideResults(type, text) ==
  {Parsed(IF errno THEN Unset ELSE Wrap(type, text), errno)}

\* libCom refuses what is not a normal float, or the largest one.
Float32Results(text) ==
  {Parsed(v, FALSE) : v \in CASE text = Largest -> {Unset}
                              [] text = Subnormal -> {text, Unset}
                              [] OTHER -> {text}}

\* A subnormal double may be out of range for strtod.
Float64Results(text) ==
  {Parsed(text, FALSE)} \union (IF text = Subnormal THEN {Parsed(Unset, TRUE)} ELSE {})

\* A plain string is a word of its line and needs no escapes; an empty one leaves
\* a line without a value, but is an empty value in JSON.  Nothing is escaped:
\* what is read of another string may be cut, unescaped or refused, and its rest
\* may be parsed as a value of any type.
StringResults(text) ==
  IF text = OddString
    THEN {Parsed(v, err) : v \in Values("string") \union {Unset}, err \in BOOLEAN}
    ELSE {Parsed(v, errno) : v \in IF text = EmptyString THEN {text, Unset} ELSE {text}}

IsWide(type) == type \in {"int64_t", "uint64_t"}

\* dataParseString: no value if the parser returns anything but 0.
Uncleared(type, text) ==  \* mutant: all integers are parsed in one way
  CASE type \in IntTypes -> WideResults(type, text)
    [] type = "float32" -> Float32Results(text)
    [] type = "float64" -> Float64Results(text)
    [] type = "string" -> StringResults(text)
ParseResults(type, text) ==
  CASE IsWide(type) -> WideResults(type, text)
    [] type \in IntTypes /\ ~IsWide(type) -> NarrowResults(type, text)
    [] type = "float32" -> Float32Results(text)
    [] type = "float64" -> Float64Results(text)
    [] type = "string" -> StringResults(text)
-----------------------------------------------------------------------------
(***************************************************************************)
(* Putting.                                                                *)
(***************************************************************************)

\* A string field is given value<std::string>() of the Data, any other field as
\* many bytes as it has, from the first byte of the Data on.  What is beyond the
\* value there was never set; bits of another kind of type may mean anything.
AsField(dbf, type, v) ==
  LET ftype == FieldType[dbf] IN
  IF dbf = "STRING" THEN {IF type = "string" THEN v ELSE EmptyString}
  ELSE IF ftype \in IntTypes /\ type \in IntTypes THEN
    IF Width(ftype) <= Width(type) THEN {Wrap(ftype, v)}
    ELSE {x \in Values(ftype) : x % Size(type) = v % Size(type)}
  ELSE IF ftype = type THEN {v}
  ELSE Values(ftype)
-----------------------------------------------------------------------------
(***************************************************************************)
(* Steps.                                                                  *)
(***************************************************************************)

\* get() and dataToString of one field.
SaveEntry(dbf, v) ==
  /\ stage = "saving" /\ Len(file) < Entries
  /\ file' = Append(file, [dbf |-> dbf, type |-> NamedType(DataType(dbf)), text |-> v])
  /\ UNCHANGED <<stage, errno, began, data, field>>

\* Another process reads the file.  What its thread did before, say an attempt to
\* open a file that is not there, may have left errno set.
BeginRead ==
  /\ stage = "saving" /\ file # <<>>
  /\ stage' = "reading"
  /\ errno' \in BOOLEAN /\ began' = errno'
  /\ UNCHANGED <<file, data, field>>

ReadEntry ==
  /\ stage = "reading" /\ Len(data) < Len(file)
  /\ LET e == file[Len(data) + 1] IN
     \E r \in ParseResults(e.type, e.text) :
       data' = Append(data, r.value) /\ errno' = r.errno
  /\ UNCHANGED <<stage, file, began, field>>

IsOdd(e) == e.type = "string" /\ e.text = OddString

\* The quotes of a string may be the end of a file in JSON.
EndRead ==
  /\ stage = "reading"
  /\ Len(data) = Len(file) \/ \E i \in DOMAIN data : IsOdd(file[i])
  /\ stage' = "putting"
  /\ UNCHANGED <<file, errno, began, data, field>>

\* put() of one entry into a field of any type.
Put(i, dbf) ==
  /\ stage = "putting"
  /\ i \in DOMAIN data /\ data[i] # Unset
  /\ \E v \in AsField(dbf, file[i].type, data[i]) :
       field' = [entry |-> i, dbf |-> dbf, value |-> v]
  /\ UNCHANGED <<stage, file, errno, began, data>>

Next ==
  \/ \E dbf \in Fields : \E v \in Values(FieldType[dbf]) : SaveEntry(dbf, v)
  \/ BeginRead \/ ReadEntry \/ EndRead
  \/ \E i \in DOMAIN file, dbf \in Fields : Put(i, dbf)

Spec == Init /\ [][Next]_vars

-----------------------------------------------------------------------------
(***************************************************************************)
(* Properties.                                                             *)
(***************************************************************************)
EntryTypes == [dbf : Fields, type : Types, text : Int]

TypeOK ==
  /\ stage \in {"saving", "reading", "putting"}
  /\ file \in Seq(EntryTypes) /\ Len(file) <= Entries
  /\ errno \in BOOLEAN /\ began \in BOOLEAN
  /\ Len(data) <= Len(file)
  /\ \A i \in DOMAIN data : data[i] \in Values(file[i].type) \union {Unset}
  /\ field # NoPut => field.entry \in DOMAIN data /\ field.value \in Values(FieldType[field.dbf])

\* A number, an enum or a plain string that is put into a field of the type it
\* was saved from is what was saved, whichever of the types it is.
SameTypeKeepsValue ==
  field # NoPut => LET e == file[field.entry] IN
    field.dbf = e.dbf /\ ~IsOdd(e) => field.value = e.text

\* A field that has become another integer, no wider than the Data it was saved
\* in, gets the low bits of the saved value; an enum that has become a 32-bit
\* field keeps its value.
NarrowerKeepsLowBits ==
  field # NoPut => LET e == file[field.entry] IN
    (/\ FieldType[field.dbf] \in IntTypes /\ FieldType[e.dbf] \in IntTypes
     /\ Width(FieldType[field.dbf]) <= (IF e.dbf = "ENUM" THEN 32 ELSE Width(FieldType[e.dbf])))
    => field.value = Wrap(FieldType[field.dbf], e.text)

\* When the first n entries have been read, errno may still be set: it was when
\* the reading began, or a double or what follows in an odd string set it, and no
\* number after that has cleared it.
Clears(e) == ~IsWide(e.type) /\ e.type # "string"
ErrnoLeft(n) ==
  \E j \in 0..n :
    /\ IF j = 0 THEN began
         ELSE IsOdd(file[j]) \/ (file[j].type = "float64" /\ data[j] = Unset)
    /\ \A k \in (j + 1)..n : ~Clears(file[k])

\* The text of a 64-bit integer is parsed in vain only if errno was set before.
WideLostOnlyAfterError ==
  \A i \in DOMAIN data :
    IsWide(file[i].type) /\ data[i] = Unset => ErrnoLeft(i - 1)

=============================================================================
