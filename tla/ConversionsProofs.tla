--------------------------- MODULE ConversionsProofs ---------------------------
(***************************************************************************)
(* What holds of Conversions for any file and any integer widths each at   *)
(* least twice as large as the one before: the values that are read and    *)
(* put stay in their types, and what becomes of a saved integer.           *)
(***************************************************************************)
EXTENDS Conversions, TLAPS

-----------------------------------------------------------------------------
(***************************************************************************)
(* Integers of a width.                                                    *)
(***************************************************************************)

LEMMA ModOfDifference ==
  ASSUME NEW N \in Nat \ {0}, NEW a \in Int, NEW b \in Int,
         a % N = b % N, a - b < N, b - a < N
  PROVE  a = b
<1> DEFINE q == a \div N
           r == b \div N
<1>1. a = N * q + (a % N) /\ b = N * r + (b % N) /\ q \in Int /\ r \in Int
  OBVIOUS
<1> HIDE DEF q, r
<1>2. a - b = N * (q - r)
  BY <1>1
<1>3. CASE q > r
  <2>1. q - r >= 1
    BY <1>1, <1>3
  <2>2. N * (q - r) >= N
    BY <1>1, <2>1
  <2>3. QED
    BY <1>2, <2>2
<1>4. CASE r > q
  <2>1. r - q >= 1
    BY <1>1, <1>4
  <2>2. N * (r - q) >= N
    BY <1>1, <2>1
  <2>3. b - a = N * (r - q)
    BY <1>1
  <2>4. QED
    BY <2>2, <2>3
<1>5. QED
  BY <1>1, <1>2, <1>3, <1>4

LEMMA ModOfResidue ==
  ASSUME NEW N \in Nat \ {0}, NEW r \in 0..(N - 1)
  PROVE  r % N = r /\ (r - N) % N = r
<1>1. r % N = r
  OBVIOUS
<1>2. (r - N) % N = r
  OBVIOUS
<1>3. QED
  BY <1>1, <1>2

LEMMA TypeFacts ==
  /\ \A type \in IntTypes : Width(type) \in Widths
  /\ \A type \in DOMAIN UnsignedWidth : Width(type) = UnsignedWidth[type]
  /\ Types = IntTypes \union FloatTypes \union {"string"}
  /\ DOMAIN SignedWidth \intersect DOMAIN UnsignedWidth = {}
  /\ \A type \in IntTypes : type \notin FloatTypes /\ type # "string"
BY DEF Types, IntTypes, FloatTypes, Widths, Width, SignedWidth, UnsignedWidth

LEMMA SizeFacts ==
  ASSUME NEW type \in IntTypes
  PROVE  /\ Size(type) \in Nat \ {0}
         /\ Size(type) \div 2 \in Nat /\ 2 * (Size(type) \div 2) = Size(type)
<1>1. Width(type) \in Widths
  BY TypeFacts
<1>2. Size(type) \in Nat \ {0} /\ Size(type) % 2 = 0
  BY <1>1, ConversionAssumption DEF Size
<1>3. QED
  BY <1>2

LEMMA UnsignedValues ==
  ASSUME NEW type \in DOMAIN UnsignedWidth
  PROVE  Values(type) = 0..(Size(type) - 1)
BY DEF Values, SignedWidth, UnsignedWidth, FloatTypes

LEMMA SignedValues ==
  ASSUME NEW type \in DOMAIN SignedWidth
  PROVE  Values(type) = -(Size(type) \div 2)..(Size(type) \div 2 - 1)
BY DEF Values, SignedWidth, UnsignedWidth, FloatTypes

\* Two values of an integer type are one, if they have the same low bits, and
\* every integer has the low bits of one of them.
LEMMA SameBits ==
  ASSUME NEW type \in IntTypes, NEW v \in Values(type), NEW w \in Values(type),
         v % Size(type) = w % Size(type)
  PROVE  v = w
<1>1. v \in Int /\ w \in Int /\ v - w < Size(type) /\ w - v < Size(type)
  <2>1. CASE type \in DOMAIN UnsignedWidth
    BY <2>1, SizeFacts, UnsignedValues
  <2>2. CASE type \notin DOMAIN UnsignedWidth
    <3>1. type \in DOMAIN SignedWidth
      BY <2>2 DEF IntTypes
    <3>2. Values(type) = -(Size(type) \div 2)..(Size(type) \div 2 - 1)
      BY <3>1, SignedValues
    <3>3. QED
      BY <3>2, SizeFacts
  <2>3. QED
    BY <2>1, <2>2
<1>2. QED
  BY <1>1, SizeFacts, ModOfDifference

LEMMA SomeValue ==
  ASSUME NEW type \in IntTypes, NEW n \in Int
  PROVE  \E v \in Values(type) : v % Size(type) = n % Size(type)
<1> DEFINE N == Size(type)
           r == n % N
<1>1. N \in Nat \ {0} /\ N \div 2 \in Nat /\ 2 * (N \div 2) = N
  BY SizeFacts
<1> HIDE DEF N
<1>2. r \in 0..(N - 1)
  BY <1>1
<1>3. r % N = r /\ (r - N) % N = r
  BY <1>1, <1>2, ModOfResidue
<1> HIDE DEF r
<1>4. CASE type \in DOMAIN UnsignedWidth
  <2>1. r \in Values(type)
    BY <1>2, <1>4, UnsignedValues DEF N
  <2>2. QED
    BY <1>3, <2>1 DEF r, N
<1>5. CASE type \notin DOMAIN UnsignedWidth
  <2>1. type \in DOMAIN SignedWidth
    BY <1>5 DEF IntTypes
  <2>2. Values(type) = -(N \div 2)..(N \div 2 - 1)
    BY <2>1, SignedValues DEF N
  <2>3. r \in Values(type) \/ r - N \in Values(type)
    BY <1>1, <1>2, <2>2
  <2>4. QED
    BY <1>3, <2>3 DEF r, N
<1>6. QED
  BY <1>4, <1>5

\* Wrap gives a value of the type, and leaves alone what is one already.
LEMMA WrapFacts ==
  ASSUME NEW type \in IntTypes, NEW n \in Int
  PROVE  /\ Wrap(type, n) \in Values(type)
         /\ n \in Values(type) => Wrap(type, n) = n
<1>1. /\ Wrap(type, n) \in Values(type)
      /\ Wrap(type, n) % Size(type) = n % Size(type)
  BY SomeValue DEF Wrap
<1>2. QED
  BY <1>1, SameBits

-----------------------------------------------------------------------------
(***************************************************************************)
(* Types of fields and of Data.                                            *)
(***************************************************************************)

LEMMA FieldFacts ==
  ASSUME NEW dbf \in Fields
  PROVE  /\ FieldType[dbf] \in Types /\ DataType(dbf) \in Types
         /\ dbf # "ENUM" => DataType(dbf) = FieldType[dbf]
         /\ dbf = "ENUM" => FieldType[dbf] = "uint16_t" /\ DataType(dbf) = "int32_t"
         /\ dbf = "STRING" <=> FieldType[dbf] = "string"
         /\ FieldType[dbf] \in IntTypes <=> DataType(dbf) \in IntTypes
BY DEF Fields, FieldType, DataType, Types, IntTypes, FloatTypes, SignedWidth, UnsignedWidth

LEMMA OtherValues ==
  /\ \A type \in FloatTypes : Values(type) = {Zero, Subnormal, Normal, Largest}
  /\ Values("string") = {EmptyString, PlainString, OddString}
BY DEF Values, FloatTypes, SignedWidth, UnsignedWidth

LEMMA ValuesAreInts ==
  ASSUME NEW type \in Types
  PROVE  Values(type) \subseteq Int
<1>1. CASE type \in DOMAIN UnsignedWidth
  <2>1. type \in IntTypes
    BY <1>1 DEF IntTypes
  <2>2. QED
    BY <1>1, <2>1, SizeFacts, UnsignedValues
<1>2. CASE type \in DOMAIN SignedWidth
  <2>1. type \in IntTypes
    BY <1>2 DEF IntTypes
  <2>2. QED
    BY <1>2, <2>1, SizeFacts, SignedValues
<1>3. CASE type \in FloatTypes \/ type = "string"
  BY <1>3, OtherValues DEF Zero, Subnormal, Normal, Largest, EmptyString, PlainString, OddString
<1>4. QED
  BY <1>1, <1>2, <1>3 DEF Types, IntTypes

\* What a field holds is a value of the type of its Data: the index of an enum is
\* in the range of the int that the Data has.
LEMMA FieldInData ==
  ASSUME NEW dbf \in Fields
  PROVE  Values(FieldType[dbf]) \subseteq Values(DataType(dbf))
<1>1. CASE dbf = "ENUM"
  <2>1. "uint16_t" \in DOMAIN UnsignedWidth /\ "int32_t" \in DOMAIN SignedWidth
    BY DEF SignedWidth, UnsignedWidth
  <2>2. Width("uint16_t") = 16 /\ Width("int32_t") = 32
    BY DEF Width, SignedWidth, UnsignedWidth
  <2>3. Size("uint16_t") = Sizes[16] /\ Size("int32_t") = Sizes[32]
    BY <2>2 DEF Size
  <2>4. 2 * Sizes[16] <= Sizes[32] /\ Sizes[16] \in Nat /\ Sizes[32] \in Nat
    BY ConversionAssumption DEF Widths
  <2>5. "int32_t" \in IntTypes
    BY <2>1 DEF IntTypes
  <2>6. 2 * (Size("int32_t") \div 2) = Size("int32_t") /\ Size("int32_t") \div 2 \in Nat
    BY <2>5, SizeFacts
  <2>7. /\ Values("uint16_t") = 0..(Size("uint16_t") - 1)
        /\ Values("int32_t") = -(Size("int32_t") \div 2)..(Size("int32_t") \div 2 - 1)
    BY <2>1, SignedValues, UnsignedValues
  <2>8. 0..(Size("uint16_t") - 1) \subseteq
          -(Size("int32_t") \div 2)..(Size("int32_t") \div 2 - 1)
    <3> DEFINE h == Size("int32_t") \div 2
               n == Size("uint16_t")
    <3>1. h \in Nat /\ n \in Nat /\ n <= h
      BY <2>3, <2>4, <2>6
    <3> HIDE DEF h, n
    <3>2. 0..(n - 1) \subseteq (-h)..(h - 1)
      BY <3>1
    <3>3. QED
      BY <3>2 DEF h, n
  <2>9. QED
    BY <1>1, <2>7, <2>8, FieldFacts
<1>2. CASE dbf # "ENUM"
  BY <1>2, FieldFacts
<1>3. QED
  BY <1>1, <1>2

-----------------------------------------------------------------------------
(***************************************************************************)
(* Parsing and putting one value.                                          *)
(***************************************************************************)

\* A parser gives a value of the type or none, and the value that was written
\* unless it is an odd string.  errno is set after it only if it was before, and
\* this is no number that clears it, or by a double or an odd string.
LEMMA ParseFacts ==
  ASSUME NEW type \in Types, NEW text \in Values(type), errno \in BOOLEAN,
         NEW r \in ParseResults(type, text)
  PROVE  /\ r.value \in Values(type) \union {Unset}
         /\ r.value \in {text, Unset} \/ (type = "string" /\ text = OddString)
         /\ r.errno \in BOOLEAN
         /\ r.errno => \/ errno /\ (IsWide(type) \/ type = "string")
                       \/ type = "float64" /\ r.value = Unset
                       \/ type = "string" /\ text = OddString
         /\ IsWide(type) /\ r.value = Unset => errno
<1>0. text \in Int /\ Unset \notin Int
  BY ValuesAreInts, ConversionAssumption
<1>1. CASE IsWide(type)
  <2>1. type \in IntTypes
    BY <1>1 DEF IsWide, IntTypes, SignedWidth, UnsignedWidth
  <2>2. r \in WideResults(type, text) /\ type # "float64" /\ type # "string"
    BY <1>1 DEF ParseResults, IsWide
  <2>3. Wrap(type, text) = text
    BY <1>0, <2>1, WrapFacts
  <2>4. r = Parsed(IF errno THEN Unset ELSE text, errno)
    BY <2>2, <2>3 DEF WideResults
  <2>5. r.value = (IF errno THEN Unset ELSE text) /\ r.errno = errno
    BY <2>4 DEF Parsed
  <2>6. QED
    BY <1>0, <1>1, <2>5
<1>2. CASE type \in IntTypes /\ ~IsWide(type)
  <2>1. r \in NarrowResults(type, text)
    BY <1>2, TypeFacts DEF ParseResults, FloatTypes
  <2>2. r = Parsed(text, FALSE)
    BY <2>1 DEF NarrowResults
  <2>3. QED
    BY <1>2, <2>2 DEF Parsed
<1>3. CASE type = "float32"
  <2>1. r \in Float32Results(text) /\ ~IsWide(type)
    BY <1>3 DEF ParseResults, IsWide, IntTypes, SignedWidth, UnsignedWidth
  <2>2. \E v \in {text, Unset} : r = Parsed(v, FALSE)
    BY <2>1 DEF Float32Results
  <2>3. QED
    BY <2>1, <2>2 DEF Parsed
<1>4. CASE type = "float64"
  <2>1. r \in Float64Results(text) /\ ~IsWide(type)
    BY <1>4 DEF ParseResults, IsWide, IntTypes, SignedWidth, UnsignedWidth
  <2>2. r = Parsed(text, FALSE) \/ r = Parsed(Unset, TRUE)
    BY <2>1 DEF Float64Results
  <2>3. CASE r = Parsed(text, FALSE)
    BY <1>4, <2>1, <2>3 DEF Parsed
  <2>4. CASE r = Parsed(Unset, TRUE)
    <3>1. r.value = Unset /\ r.errno = TRUE
      BY <2>4 DEF Parsed
    <3>2. QED
      BY <1>4, <2>1, <3>1
  <2>5. QED
    BY <2>2, <2>3, <2>4
<1>5. CASE type = "string"
  <2>1. r \in StringResults(text) /\ ~IsWide(type)
    BY <1>5 DEF ParseResults, IsWide, IntTypes, SignedWidth, UnsignedWidth
  <2>2. CASE text = OddString
    <3>1. \E v \in Values("string") \union {Unset}, err \in BOOLEAN : r = Parsed(v, err)
      BY <2>1, <2>2 DEF StringResults
    <3>2. QED
      BY <1>5, <2>1, <2>2, <3>1 DEF Parsed
  <2>3. CASE text # OddString
    <3>1. \E v \in {text, Unset} : r = Parsed(v, errno)
      BY <2>1, <2>3 DEF StringResults
    <3>2. QED
      BY <1>5, <2>1, <3>1 DEF Parsed
  <2>4. QED
    BY <2>2, <2>3
<1>6. QED
  BY <1>1, <1>2, <1>3, <1>4, <1>5 DEF Types, FloatTypes

\* Whatever the types, a field gets a value it can hold.
LEMMA PutInType ==
  ASSUME NEW dbf \in Fields, NEW type \in Types, NEW v \in Values(type),
         NEW x \in AsField(dbf, type, v)
  PROVE  x \in Values(FieldType[dbf])
<1>0. v \in Int
  BY ValuesAreInts
<1>1. CASE dbf = "STRING"
  <2>1. x = IF type = "string" THEN v ELSE EmptyString
    BY <1>1 DEF AsField
  <2>2. QED
    BY <1>1, <2>1, FieldFacts, OtherValues
<1>2. CASE dbf # "STRING" /\ FieldType[dbf] \in IntTypes /\ type \in IntTypes
  <2>1. \/ x = Wrap(FieldType[dbf], v)
        \/ x \in {y \in Values(FieldType[dbf]) : y % Size(type) = v % Size(type)}
    BY <1>2 DEF AsField
  <2>2. QED
    BY <1>0, <1>2, <2>1, WrapFacts
<1>3. CASE dbf # "STRING" /\ ~(FieldType[dbf] \in IntTypes /\ type \in IntTypes)
  BY <1>3 DEF AsField
<1>4. QED
  BY <1>1, <1>2, <1>3

\* A field of the type that was saved gets the saved value.
LEMMA PutSameType ==
  ASSUME NEW dbf \in Fields, NEW v \in Values(FieldType[dbf]),
         NEW x \in AsField(dbf, DataType(dbf), v)
  PROVE  x = v
<1>0. v \in Int
  BY FieldFacts, ValuesAreInts
<1>1. CASE dbf = "STRING"
  BY <1>1, FieldFacts DEF AsField
<1>2. CASE FieldType[dbf] \in IntTypes
  <2>1. Width(FieldType[dbf]) <= Width(DataType(dbf))
    <3>1. CASE dbf = "ENUM"
      BY <3>1, FieldFacts DEF Width, SignedWidth, UnsignedWidth
    <3>2. CASE dbf # "ENUM"
      <4>1. Width(FieldType[dbf]) \in Nat
        BY <1>2, TypeFacts DEF Widths
      <4>2. QED
        BY <3>2, <4>1, FieldFacts
    <3>3. QED
      BY <3>1, <3>2
  <2>2. x = Wrap(FieldType[dbf], v)
    BY <1>2, <2>1, FieldFacts, TypeFacts DEF AsField
  <2>3. QED
    BY <1>0, <1>2, <2>2, WrapFacts
<1>3. CASE dbf # "STRING" /\ FieldType[dbf] \notin IntTypes
  <2>1. DataType(dbf) = FieldType[dbf]
    BY <1>3, FieldFacts, TypeFacts DEF IntTypes, SignedWidth, UnsignedWidth
  <2>2. QED
    BY <1>3, <2>1 DEF AsField
<1>4. QED
  BY <1>1, <1>2, <1>3

\* A field that is not wider than the Data gets the low bits.
LEMMA PutNarrower ==
  ASSUME NEW dbf \in Fields, NEW saved \in Fields, NEW v,
         FieldType[dbf] \in IntTypes, FieldType[saved] \in IntTypes,
         Width(FieldType[dbf]) <=
           (IF saved = "ENUM" THEN 32 ELSE Width(FieldType[saved])),
         NEW x \in AsField(dbf, DataType(saved), v)
  PROVE  x = Wrap(FieldType[dbf], v)
<1>1. Width(FieldType[dbf]) <= Width(DataType(saved))
  <2>1. CASE saved = "ENUM"
    BY <2>1, FieldFacts DEF Width, SignedWidth, UnsignedWidth
  <2>2. CASE saved # "ENUM"
    BY <2>2, FieldFacts
  <2>3. QED
    BY <2>1, <2>2
<1>2. dbf # "STRING" /\ DataType(saved) \in IntTypes
  BY FieldFacts, TypeFacts
<1>3. QED
  BY <1>1, <1>2 DEF AsField

-----------------------------------------------------------------------------
(***************************************************************************)
(* The invariant.                                                          *)
(***************************************************************************)

StageInv ==
  /\ stage \in {"saving", "reading", "putting"}
  /\ stage = "saving" => data = <<>>
  /\ field # NoPut => stage = "putting"
  /\ errno \in BOOLEAN /\ began \in BOOLEAN

\* An entry holds the type get() chose for the field, and a value of the field.
FileInv ==
  /\ file \in Seq(EntryTypes) /\ Len(file) <= Entries
  /\ \A i \in DOMAIN file :
       /\ file[i].type = DataType(file[i].dbf)
       /\ file[i].text \in Values(FieldType[file[i].dbf])

\* What was read of an entry is what was written of it, or nothing, or another
\* string for an odd one.
DataInv ==
  /\ data \in Seq(Int \union {Unset}) /\ Len(data) <= Len(file)
  /\ \A i \in DOMAIN data : /\ data[i] \in Values(file[i].type) \union {Unset}
                            /\ data[i] \in {file[i].text, Unset} \/ IsOdd(file[i])

\* If errno is set between two entries, something has set it.
ErrnoInv == (stage = "reading" /\ errno) => ErrnoLeft(Len(data))

\* The last put.
PutInv ==
  field # NoPut => \E i \in DOMAIN data, dbf \in Fields :
    /\ data[i] # Unset
    /\ \E v \in AsField(dbf, file[i].type, data[i]) :
         field = [entry |-> i, dbf |-> dbf, value |-> v]

Inv == StageInv /\ FileInv /\ DataInv /\ ErrnoInv /\ WideLostOnlyAfterError /\ PutInv

LEMMA InvInit == Init => Inv
<1> SUFFICES ASSUME Init PROVE Inv
  OBVIOUS
<1>1. StageInv
  BY DEF Init, StageInv
<1>2. FileInv
  BY ConversionAssumption DEF Init, FileInv
<1>3. DataInv
  BY DEF Init, DataInv
<1>4. ErrnoInv /\ WideLostOnlyAfterError /\ PutInv
  BY DEF Init, ErrnoInv, WideLostOnlyAfterError, PutInv
<1>5. QED
  BY <1>1, <1>2, <1>3, <1>4 DEF Inv

LEMMA SaveEntryStep ==
  ASSUME Inv, NEW dbf \in Fields, NEW v \in Values(FieldType[dbf]), SaveEntry(dbf, v)
  PROVE  Inv'
<1> DEFINE e == [dbf |-> dbf, type |-> NamedType(DataType(dbf)), text |-> v]
<1>1. /\ stage = "saving" /\ Len(file) < Entries /\ file' = Append(file, e)
      /\ UNCHANGED <<stage, errno, began, data, field>>
  BY DEF SaveEntry
<1>2. file \in Seq(EntryTypes) /\ data = <<>> /\ field = NoPut
  BY <1>1 DEF Inv, StageInv, FileInv
<1>3. /\ e \in EntryTypes /\ e.type = DataType(e.dbf)
      /\ e.text \in Values(FieldType[e.dbf])
  BY FieldFacts, ValuesAreInts DEF EntryTypes, NamedType
<1> HIDE DEF e
<1>4. FileInv'
  <2>1. file' \in Seq(EntryTypes) /\ Len(file') = Len(file) + 1
    BY <1>1, <1>2, <1>3
  <2>2. Len(file') <= Entries
    BY <1>1, <1>2, <2>1, ConversionAssumption
  <2>3. ASSUME NEW i \in DOMAIN file'
        PROVE  /\ file'[i].type = DataType(file'[i].dbf)
               /\ file'[i].text \in Values(FieldType[file'[i].dbf])
    <3>1. file'[i] = e \/ (i \in DOMAIN file /\ file'[i] = file[i])
      BY <1>1, <1>2, <1>3
    <3>2. QED
      BY <1>3, <3>1 DEF Inv, FileInv
  <2>4. QED
    BY <2>1, <2>2, <2>3 DEF FileInv
<1>5. DataInv'
  <2>1. data' = <<>> /\ Len(file') \in Nat
    BY <1>1, <1>2, <1>4 DEF FileInv
  <2>2. QED
    BY <2>1 DEF DataInv
<1>6. StageInv' /\ ErrnoInv' /\ PutInv'
  BY <1>1, <1>2 DEF Inv, StageInv, ErrnoInv, PutInv
<1>7. WideLostOnlyAfterError'
  BY <1>1, <1>2 DEF WideLostOnlyAfterError
<1>8. QED
  BY <1>4, <1>5, <1>6, <1>7 DEF Inv

LEMMA ReadEntryStep ==
  ASSUME Inv, ReadEntry
  PROVE  Inv'
<1>n. PICK n \in Nat : n = Len(data)
  BY DEF Inv, DataInv
<1> DEFINE e == file[n + 1]
<1>1. /\ stage = "reading" /\ n < Len(file)
      /\ UNCHANGED <<stage, file, began, field>>
  BY <1>n DEF ReadEntry
<1>2. PICK r \in ParseResults(e.type, e.text) :
        data' = Append(data, r.value) /\ errno' = r.errno
  BY <1>n DEF ReadEntry
<1>3. /\ data \in Seq(Int \union {Unset}) /\ file \in Seq(EntryTypes)
      /\ errno \in BOOLEAN /\ field = NoPut
  BY <1>1 DEF Inv, StageInv, FileInv, DataInv
<1>4. n \in Nat /\ n + 1 \in DOMAIN file
  BY <1>1, <1>3
<1>5. e.dbf \in Fields /\ e.type \in Types /\ e.text \in Values(e.type) /\ e.text \in Int
  <2>1. e \in EntryTypes /\ e.type = DataType(e.dbf) /\ e.text \in Values(FieldType[e.dbf])
    BY <1>3, <1>4 DEF Inv, FileInv
  <2>2. QED
    BY <2>1, FieldInData DEF EntryTypes
<1> HIDE DEF e
<1>6. /\ r.value \in Values(e.type) \union {Unset} /\ r.errno \in BOOLEAN
      /\ r.value \in {e.text, Unset} \/ IsOdd(e)
      /\ r.errno => \/ errno /\ (IsWide(e.type) \/ e.type = "string")
                    \/ e.type = "float64" /\ r.value = Unset
                    \/ IsOdd(e)
      /\ IsWide(e.type) /\ r.value = Unset => errno
  BY <1>2, <1>3, <1>5, ParseFacts DEF IsOdd
<1>v. r.value \in Int \union {Unset}
  BY <1>5, <1>6, ValuesAreInts
<1>7. /\ data' \in Seq(Int \union {Unset}) /\ Len(data') = n + 1
      /\ data'[n + 1] = r.value /\ \A i \in 1..n : data'[i] = data[i]
      /\ DOMAIN data = 1..n /\ DOMAIN data' = 1..(n + 1)
  BY <1>n, <1>2, <1>3, <1>v
<1>8. DataInv'
  <2>1. ASSUME NEW i \in DOMAIN data'
        PROVE  /\ data'[i] \in Values(file'[i].type) \union {Unset}
               /\ data'[i] \in {file'[i].text, Unset} \/ IsOdd(file'[i])
    <3>1. CASE i = n + 1
      BY <1>1, <1>6, <1>7, <3>1 DEF e
    <3>2. CASE i \in 1..n
      BY <1>1, <1>7, <3>2 DEF Inv, DataInv
    <3>3. QED
      BY <1>4, <1>7, <3>1, <3>2
  <2>2. QED
    BY <1>1, <1>3, <1>4, <1>7, <2>1 DEF DataInv
\* What was left of errno at an earlier entry is left there still.
<1>9. ASSUME NEW k \in 0..n, ErrnoLeft(k) PROVE ErrnoLeft(k)'
  <2>1. PICK j \in 0..k :
          /\ IF j = 0 THEN began
               ELSE IsOdd(file[j]) \/ (file[j].type = "float64" /\ data[j] = Unset)
          /\ \A l \in (j + 1)..k : ~Clears(file[l])
    BY <1>9 DEF ErrnoLeft
  <2>2. j # 0 => data'[j] = data[j]
    BY <1>4, <1>7, <2>1
  <2>3. QED
    BY <1>1, <2>1, <2>2 DEF ErrnoLeft
<1>10. errno => ErrnoLeft(n)
  BY <1>n, <1>1 DEF Inv, ErrnoInv
<1>11. ErrnoInv'
  <2>1. SUFFICES ASSUME r.errno PROVE ErrnoLeft(n + 1)'
    BY <1>2, <1>7 DEF ErrnoInv
  <2>2. CASE IsOdd(e) \/ (e.type = "float64" /\ r.value = Unset)
    <3>1. \A l \in (n + 2)..(n + 1) : FALSE
      BY <1>4
    <3>2. n + 1 \in 0..(n + 1) /\ n + 1 # 0 /\ (n + 1) + 1 = n + 2
      BY <1>4
    <3>3. IsOdd(file'[n + 1]) \/ (file'[n + 1].type = "float64" /\ data'[n + 1] = Unset)
      BY <1>1, <1>7, <2>2 DEF e
    <3>4. QED
      BY <3>1, <3>2, <3>3 DEF ErrnoLeft
  <2>3. CASE errno /\ (IsWide(e.type) \/ e.type = "string")
    <3>1. PICK j \in 0..n :
            /\ IF j = 0 THEN began
                 ELSE IsOdd(file[j]) \/ (file[j].type = "float64" /\ data[j] = Unset)
            /\ \A l \in (j + 1)..n : ~Clears(file[l])
      BY <1>10, <2>3 DEF ErrnoLeft
    <3>2. j # 0 => data'[j] = data[j]
      BY <1>4, <1>7, <3>1
    <3>3. ~Clears(file[n + 1])
      BY <2>3 DEF Clears, e
    <3>4. \A l \in (j + 1)..(n + 1) : ~Clears(file[l])
      BY <1>4, <3>1, <3>3
    <3>5. j \in 0..(n + 1)
      BY <1>4
    <3>6. QED
      BY <1>1, <3>1, <3>2, <3>4, <3>5 DEF ErrnoLeft
  <2>4. QED
    BY <1>6, <2>1, <2>2, <2>3
<1>12. WideLostOnlyAfterError'
  <2>1. SUFFICES ASSUME NEW i \in DOMAIN data', IsWide(file'[i].type), data'[i] = Unset
                 PROVE  ErrnoLeft(i - 1)'
    BY DEF WideLostOnlyAfterError
  <2>2. CASE i = n + 1
    <3>1. errno
      BY <1>1, <1>6, <1>7, <2>1, <2>2 DEF e
    <3>2. ErrnoLeft(n)'
      BY <1>4, <1>9, <1>10, <3>1
    <3>3. i - 1 = n
      BY <1>4, <2>2
    <3>4. QED
      BY <3>2, <3>3
  <2>3. CASE i \in 1..n
    <3>1. ErrnoLeft(i - 1)
      BY <1>1, <1>7, <2>1, <2>3 DEF Inv, WideLostOnlyAfterError
    <3>2. QED
      BY <1>4, <1>9, <2>3, <3>1
  <2>4. QED
    BY <1>4, <1>7, <2>2, <2>3
<1>13. StageInv' /\ FileInv' /\ PutInv'
  BY <1>1, <1>2, <1>3, <1>6 DEF Inv, StageInv, FileInv, PutInv
<1>14. QED
  BY <1>8, <1>11, <1>12, <1>13 DEF Inv

LEMMA InvStep == Inv /\ [Next]_vars => Inv'
<1> SUFFICES ASSUME Inv, [Next]_vars PROVE Inv'
  OBVIOUS
<1>1. ASSUME NEW dbf \in Fields, NEW v \in Values(FieldType[dbf]), SaveEntry(dbf, v)
      PROVE  Inv'
  BY <1>1, SaveEntryStep
<1>2. CASE BeginRead
  <2>1. /\ stage = "saving" /\ stage' = "reading" /\ errno' \in BOOLEAN /\ began' = errno'
        /\ data = <<>> /\ field = NoPut /\ UNCHANGED <<file, data, field>>
    BY <1>2 DEF BeginRead, Inv, StageInv
  <2>2. StageInv' /\ FileInv' /\ DataInv' /\ PutInv'
    BY <2>1 DEF Inv, StageInv, FileInv, DataInv, PutInv
  <2>3. ErrnoInv'
    <3>1. SUFFICES ASSUME errno' PROVE ErrnoLeft(Len(data))'
      BY DEF ErrnoInv
    <3>2. Len(data') = 0 /\ 0 \in 0..0 /\ \A k \in (0 + 1)..0 : FALSE
      BY <2>1
    <3>3. began'
      BY <2>1, <3>1
    <3>4. QED
      BY <3>2, <3>3 DEF ErrnoLeft
  <2>4. WideLostOnlyAfterError'
    BY <2>1 DEF WideLostOnlyAfterError
  <2>5. QED
    BY <2>2, <2>3, <2>4 DEF Inv
<1>3. CASE ReadEntry
  BY <1>3, ReadEntryStep
<1>4. CASE EndRead
  <2>1. /\ stage' = "putting"
        /\ UNCHANGED <<file, errno, began, data, field>>
        /\ stage = "reading" /\ field = NoPut
    BY <1>4 DEF EndRead, Inv, StageInv
  <2>2. StageInv'
    BY <2>1 DEF Inv, StageInv
  <2>3. FileInv' /\ DataInv' /\ ErrnoInv' /\ PutInv'
    BY <2>1 DEF Inv, FileInv, DataInv, ErrnoInv, PutInv
  <2>4. WideLostOnlyAfterError'
    BY <2>1 DEF Inv, WideLostOnlyAfterError, ErrnoLeft
  <2>5. QED
    BY <2>2, <2>3, <2>4 DEF Inv
<1>5. ASSUME NEW i \in DOMAIN file, NEW dbf \in Fields, Put(i, dbf) PROVE Inv'
  <2>1. /\ stage = "putting" /\ i \in DOMAIN data /\ data[i] # Unset
        /\ \E v \in AsField(dbf, file[i].type, data[i]) :
             field' = [entry |-> i, dbf |-> dbf, value |-> v]
        /\ UNCHANGED <<stage, file, errno, began, data>>
    BY <1>5 DEF Put
  <2>3. PutInv'
    BY <2>1 DEF PutInv
  <2>4. StageInv'
    BY <2>1 DEF Inv, StageInv
  <2>5. FileInv' /\ DataInv' /\ ErrnoInv'
    BY <2>1 DEF Inv, FileInv, DataInv, ErrnoInv, ErrnoLeft
  <2>6. WideLostOnlyAfterError'
    BY <2>1 DEF Inv, WideLostOnlyAfterError, ErrnoLeft
  <2>7. QED
    BY <2>3, <2>4, <2>5, <2>6 DEF Inv
<1>6. CASE UNCHANGED vars
  BY <1>6 DEF vars, Inv, StageInv, FileInv, DataInv, ErrnoInv, WideLostOnlyAfterError,
              PutInv, ErrnoLeft
<1>7. QED
  BY <1>1, <1>2, <1>3, <1>4, <1>5, <1>6 DEF Next

LEMMA InvAlways == Spec => []Inv
BY InvInit, InvStep, PTL DEF Spec

-----------------------------------------------------------------------------
(***************************************************************************)
(* The theorems.                                                           *)
(***************************************************************************)

LEMMA EntryFacts ==
  ASSUME Inv, NEW i \in DOMAIN file
  PROVE  /\ file[i].dbf \in Fields /\ file[i].type = DataType(file[i].dbf)
         /\ file[i].text \in Values(FieldType[file[i].dbf])
<1>1. file[i] \in EntryTypes
  BY DEF Inv, FileInv
<1>2. file[i].dbf \in Fields
  BY <1>1 DEF EntryTypes
<1>3. QED
  BY <1>2 DEF Inv, FileInv

\* The entry of the last put, what was read of it, and what it was put into.
LEMMA LastPut ==
  ASSUME Inv, field # NoPut
  PROVE  /\ field.entry \in DOMAIN data /\ field.dbf \in Fields
         /\ LET e == file[field.entry] IN
            /\ e.dbf \in Fields /\ e.type = DataType(e.dbf)
            /\ e.text \in Values(FieldType[e.dbf])
            /\ \E v \in Values(e.type) : /\ v = e.text \/ IsOdd(e)
                                        /\ field.value \in AsField(field.dbf, DataType(e.dbf), v)
<1>1. PICK i \in DOMAIN data, dbf \in Fields :
        /\ data[i] # Unset
        /\ \E v \in AsField(dbf, file[i].type, data[i]) :
             field = [entry |-> i, dbf |-> dbf, value |-> v]
  BY DEF Inv, PutInv
<1>2. /\ i \in DOMAIN file /\ data[i] \in Values(file[i].type)
      /\ data[i] = file[i].text \/ IsOdd(file[i])
  BY <1>1 DEF Inv, DataInv, FileInv
<1>3. /\ file[i].dbf \in Fields /\ file[i].type = DataType(file[i].dbf)
      /\ file[i].text \in Values(FieldType[file[i].dbf])
  BY <1>2, EntryFacts
<1>4. /\ field.entry = i /\ field.dbf = dbf
      /\ field.value \in AsField(dbf, file[i].type, data[i])
  BY <1>1
<1>5. field.value \in AsField(field.dbf, DataType(file[i].dbf), data[i])
  BY <1>3, <1>4
<1>6. file[field.entry] = file[i]
  BY <1>4
<1>7. field.entry \in DOMAIN data /\ field.dbf \in Fields
  BY <1>4
<1>8. QED
  BY <1>2, <1>3, <1>5, <1>6, <1>7

\* Whatever was saved, and into whichever fields it is put, what is read is a value
\* of the type the file names and what a field gets is a value it can hold.
THEOREM TypeCorrect == Spec => []TypeOK
<1>1. Inv => TypeOK
  <2> SUFFICES ASSUME Inv PROVE TypeOK
    OBVIOUS
  <2>1. ASSUME NEW i \in DOMAIN data PROVE data[i] \in Values(file[i].type) \union {Unset}
    BY DEF Inv, DataInv
  <2>2. ASSUME field # NoPut
        PROVE  /\ field.entry \in DOMAIN data
               /\ field.value \in Values(FieldType[field.dbf])
    <3> DEFINE e == file[field.entry]
    <3>1. /\ field.entry \in DOMAIN data /\ field.dbf \in Fields
          /\ e.dbf \in Fields /\ e.type = DataType(e.dbf)
      BY <2>2, LastPut
    <3>2. PICK v \in Values(e.type) : field.value \in AsField(field.dbf, DataType(e.dbf), v)
      BY <2>2, LastPut
    <3> HIDE DEF e
    <3>3. DataType(e.dbf) \in Types /\ v \in Values(DataType(e.dbf))
      BY <3>1, FieldFacts
    <3>4. QED
      BY <3>1, <3>2, <3>3, PutInType
  <2>3. QED
    BY <2>1, <2>2 DEF Inv, StageInv, FileInv, DataInv, TypeOK
<1>2. QED
  BY <1>1, InvAlways, PTL

\* For any widths of the integers: a number, an enum or a plain string that is
\* put into a field of the type it was saved from is what was saved.
THEOREM RoundTrip == Spec => []SameTypeKeepsValue
<1>1. Inv => SameTypeKeepsValue
  <2> SUFFICES ASSUME Inv, field # NoPut,
                      field.dbf = file[field.entry].dbf, ~IsOdd(file[field.entry])
               PROVE  field.value = file[field.entry].text
    BY DEF SameTypeKeepsValue
  <2> DEFINE e == file[field.entry]
  <2>1. /\ e.dbf \in Fields /\ e.text \in Values(FieldType[e.dbf])
        /\ field.value \in AsField(e.dbf, DataType(e.dbf), e.text)
    BY LastPut
  <2> HIDE DEF e
  <2>2. field.value = e.text
    BY <2>1, PutSameType
  <2>3. QED
    BY <2>2 DEF e
<1>2. QED
  BY <1>1, InvAlways, PTL

\* A field that has become another integer, no wider than the Data, gets the low
\* bits of what was saved.
THEOREM NarrowerPut == Spec => []NarrowerKeepsLowBits
<1>1. Inv => NarrowerKeepsLowBits
  <2> SUFFICES ASSUME Inv, field # NoPut,
                      FieldType[field.dbf] \in IntTypes,
                      FieldType[file[field.entry].dbf] \in IntTypes,
                      Width(FieldType[field.dbf]) <=
                        (IF file[field.entry].dbf = "ENUM" THEN 32
                         ELSE Width(FieldType[file[field.entry].dbf]))
               PROVE  field.value = Wrap(FieldType[field.dbf], file[field.entry].text)
    BY DEF NarrowerKeepsLowBits
  <2> DEFINE e == file[field.entry]
  <2>1. field.dbf \in Fields /\ e.dbf \in Fields /\ e.type = DataType(e.dbf)
    BY LastPut
  <2>2. ~IsOdd(e)
    <3> HIDE DEF e
    <3>1. FieldType[e.dbf] \in IntTypes
      BY DEF e
    <3>2. e.type # "string"
      BY <2>1, <3>1, FieldFacts, TypeFacts
    <3>3. QED
      BY <3>2 DEF IsOdd
  <2>3. field.value \in AsField(field.dbf, DataType(e.dbf), e.text)
    BY <2>2, LastPut
  <2>4. QED
    BY <2>1, <2>3, PutNarrower
<1>2. QED
  BY <1>1, InvAlways, PTL

\* In a file of any length, a 64-bit integer is parsed in vain only if errno was
\* set before, at the start, by a double or by what follows in an odd string, and
\* no number has cleared it since.
THEOREM WideLost == Spec => []WideLostOnlyAfterError
<1>1. Inv => WideLostOnlyAfterError
  BY DEF Inv
<1>2. QED
  BY <1>1, InvAlways, PTL

=============================================================================
