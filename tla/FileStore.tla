------------------------------ MODULE FileStore ------------------------------
(***************************************************************************)
(* What the I/O backends keep: fileSystemIO, with its stdio stream, the    *)
(* file under it and what its readers make of the file; and httpIO, which  *)
(* can save and cannot restore.  The operators below are the calls of      *)
(* SaveRestoreIO, as actions on the variables of this module; module       *)
(* SaveRestore makes the calls.                                            *)
(*                                                                         *)
(* A file is the sequence of the entries written since it was truncated;   *)
(* a position says how much of the sequence has left the stdio buffer.     *)
(* The file is opened with "a+b", so that an entry can only go to its end. *)
(***************************************************************************)
EXTENDS Integers, Sequences, FiniteSets

CONSTANTS
  IOs,      \* backends
  Format,   \* Format[io]: "text" or "json" of fileSystemIO, or "http"
  PVs,      \* channel names
  Values,   \* values of records
  Kind,     \* Kind[v]: what in v the readers stumble over
  Closed,   \* strings with quotes after which the members of a JSON file go on
  Rest,     \* Rest[format][v][p]: what is read for p of the text of v that is
            \* read as entries of their own: lines, or members of a JSON file
  Cut,      \* what is read of a value that is not read as it was written
  Absent    \* no value

\* Values are written as they are, without quoting or escaping what is in them.
\* What the readers make of a string depends on the characters in it:
\*   kind      text file  JSON file       strings of the kind
\*   plain     whole      whole           one word (all numbers are)
\*   empty     nothing    whole           no characters, or blanks only
\*   spaced    part       whole           several words
\*   escaped   changed    changed         an escape both readers translate
\*   foreign   whole      error           a character JSON does not allow
\*   quoted    part       part, error(*)  a double quote
\*   opening   nothing    part, error(*)  one quote, at the start; a final backslash
\*   split     part       error           a newline, an escape JSON does not know
\*   refused   nothing    error           the same, with nothing readable before it
\*   void      nothing    nothing         the Data of a field without a type
\* (*) unless the string is in Closed.
Kinds == {"plain", "spaced", "quoted", "opening", "escaped", "refused", "split",
          "foreign", "empty", "void"}
NoRest == [p \in PVs |-> Absent]

ASSUME StoreAssumption ==
  /\ Format \in [IOs -> {"text", "json", "http"}]
  /\ Kind \in [Values -> Kinds]
  /\ Closed \subseteq {v \in Values : Kind[v] \in {"quoted", "opening"}}
  /\ Rest \in [{"text", "json"} -> [Values -> [PVs -> Values \union {Absent}]]]
  /\ \A v \in Values : Kind[v] = "plain" =>
       \A format \in {"text", "json"} : Rest[format][v] = NoRest
  /\ Cut \in Values /\ Kind[Cut] = "plain"
  /\ Absent \notin Values

VARIABLES
  handle,  \* handle[io]: handle_ (or curl_) is set
  stream,  \* stream[io]: entries given to stdio since the file was truncated
  onDisk,  \* onDisk[io]: how many of them are in the file
  torn,    \* torn[io]: a part of the entry after those is in the file too
  full     \* full[io]: the device refuses to take more

store == <<handle, stream, onDisk, torn, full>>

Files == {io \in IOs : Format[io] # "http"}
Entries == [pv : PVs, value : Values]
Entry(p, v) == [pv |-> p, value |-> v]

\* A file has no more entries than were written to it.
StoreTypes ==
  /\ handle \in [IOs -> BOOLEAN]
  /\ stream \in [IOs -> Seq(Entries)]
  /\ onDisk \in [IOs -> Nat]
  /\ torn \in [IOs -> BOOLEAN]
  /\ \A io \in IOs : /\ onDisk[io] <= Len(stream[io])
                     /\ torn[io] => onDisk[io] < Len(stream[io])
  /\ full \in [IOs -> BOOLEAN]

StoreInit ==
  /\ handle = [io \in IOs |-> FALSE]
  /\ stream = [io \in IOs |-> <<>>]
  /\ onDisk = [io \in IOs |-> 0]
  /\ torn = [io \in IOs |-> FALSE]
  /\ full = [io \in IOs |-> FALSE]

-----------------------------------------------------------------------------
(***************************************************************************)
(* Writing.                                                                *)
(***************************************************************************)

\* Mutant: the file is not truncated.
KeepContent(io) == UNCHANGED <<stream, onDisk, torn>>

\* fseek writes out what is left in the buffer; ftruncate then drops it all.
Truncate(io) ==
  /\ stream' = [stream EXCEPT ![io] = <<>>]
  /\ onDisk' = [onDisk EXCEPT ![io] = 0]
  /\ torn' = [torn EXCEPT ![io] = FALSE]

\* openFile(): an open handle is kept.
Open(io) == handle' = [handle EXCEPT ![io] = TRUE]

\* beginWrite() of an http backend is initCurl().
StoreBegins(io) ==
  /\ Open(io)
  /\ IF io \in Files THEN Truncate(io) ELSE UNCHANGED <<stream, onDisk, torn>>
  /\ UNCHANGED full

\* Up to n entries of s are in the file, and part of another one.
Reaches(io, s, n, t) ==
  /\ n \in onDisk[io]..Len(s)
  /\ t => n < Len(s)
  /\ torn[io] /\ n = onDisk[io] => t
  /\ onDisk' = [onDisk EXCEPT ![io] = n]
  /\ torn' = [torn EXCEPT ![io] = t]

\* fflush: all that stdio holds, or as much as the device takes.
FlushAll(io, s) ==
  \/ ~full[io] /\ Reaches(io, s, Len(s), FALSE)
  \/ full[io] /\ \E t \in BOOLEAN : Reaches(io, s, onDisk[io], t)

\* Mutant: endWrite does not flush.
NoFlush(io, s) == UNCHANGED <<onDisk, torn>>
Flush(io, s) == FlushAll(io, s)

\* stdio writes out whenever its buffer is full, in the middle of an entry too.
Spill(io, s) ==
  \/ ~full[io] /\ \E n \in 0..Len(s), t \in BOOLEAN : Reaches(io, s, n, t)
  \/ full[io] /\ \E t \in BOOLEAN : Reaches(io, s, onDisk[io], t)

\* fopen or curl_easy_init fails; or fseek does, with more or less of the buffer
\* written out, or ftruncate.
StoreBeginFails(io) ==
  /\ \/ ~handle[io] /\ UNCHANGED <<handle, onDisk, torn>>
     \/ io \in Files /\ Open(io) /\ Spill(io, stream[io])
  /\ UNCHANGED <<stream, full>>

\* dataToString() fails for the others.
HasText(v) == Kind[v] # "void"

Longer(io, p, v) == Append(stream[io], Entry(p, v))

\* A value without a text form leaves an entry without a value in a file.  A
\* kill inside the call leaves what one before it or after it may leave.
SaveText(io, p, v) ==
  /\ Format[io] = "text"
  /\ stream' = [stream EXCEPT ![io] = Longer(io, p, v)]
  /\ Spill(io, Longer(io, p, v))

SaveJson(io, p, v) ==
  /\ Format[io] = "json"
  /\ stream' = [stream EXCEPT ![io] = Longer(io, p, v)]
  /\ FlushAll(io, Longer(io, p, v))

HttpWrites(io, v) ==
  /\ Format[io] = "http"
  /\ HasText(v)
  /\ UNCHANGED <<stream, onDisk, torn>>

StoreWrites(io, p, v) ==
  /\ SaveText(io, p, v) \/ SaveJson(io, p, v) \/ HttpWrites(io, v)
  /\ UNCHANGED <<handle, full>>

\* The first of the calls that write an entry fails when stdio has to write out
\* to a full device, and the entry is given up; http may fail for any reason.
StoreWriteFails(io, p, v) ==
  /\ io \in Files => full[io]
  /\ UNCHANGED store

\* endWrite() flushes, takes no notice of the result and returns true.
StoreEnds(io) ==
  /\ IF io \in Files THEN Flush(io, stream[io]) ELSE UNCHANGED <<onDisk, torn>>
  /\ UNCHANGED <<handle, stream, full>>

-----------------------------------------------------------------------------
(***************************************************************************)
(* The process and the device.                                             *)
(***************************************************************************)

\* The process ends and its handles with it.  exit() flushes every stream, a
\* kill flushes none; what is not in the file by then is gone.
ProcessEnds ==
  \E flushed \in SUBSET {io \in Files : ~full[io]} :
    LET n == [io \in IOs |-> IF io \in flushed
                               THEN Len(stream[io]) ELSE onDisk[io]]
        t == [io \in IOs |-> torn[io] /\ n[io] = onDisk[io]]
    IN
    /\ handle' = [io \in IOs |-> FALSE]
    /\ onDisk' = n
    /\ torn' = t
    /\ stream' = [io \in IOs |->
                    SubSeq(stream[io], 1, n[io] + (IF t[io] THEN 1 ELSE 0))]
    /\ UNCHANGED full

DeviceFills(io) ==
  /\ io \in Files /\ ~full[io]
  /\ full' = [full EXCEPT ![io] = TRUE]
  /\ UNCHANGED <<handle, stream, onDisk, torn>>

DeviceFreed(io) ==
  /\ full[io]
  /\ full' = [full EXCEPT ![io] = FALSE]
  /\ UNCHANGED <<handle, stream, onDisk, torn>>

-----------------------------------------------------------------------------
(***************************************************************************)
(* Reading.                                                                *)
(***************************************************************************)

\* What is made of a value in a text file: the line ends at the first newline and
\* the value at the first blank; parseString() stops at the first quote, translates
\* escapes, and fails where it knows none or misses a quote.  A line without a
\* value is passed over.
TextValue(v) ==
  IF Kind[v] \in {"plain", "foreign"} THEN v
    ELSE IF Kind[v] \in {"spaced", "quoted", "escaped", "split"} THEN Cut ELSE Absent

\* What is made of it in a JSON file, between the quotes that saveJson() puts
\* around it.
JsonValue(v) ==
  IF Kind[v] \in {"plain", "spaced", "empty"} THEN v
    ELSE IF Kind[v] \in {"quoted", "opening", "escaped"} THEN Cut ELSE Absent

ReadBack(format, v) == IF format = "text" THEN TextValue(v) ELSE JsonValue(v)

\* What an entry reads as for channel p: its value, or what the rest of the text
\* says of p.
Read(format, e, p) ==
  IF e.pv = p /\ ReadBack(format, e.value) # Absent
    THEN ReadBack(format, e.value)
    ELSE Rest[format][e.value][p]

\* The JSON parser gives up at the first error: what follows a quote in the value, an
\* escape it does not know, a character that may not stand between quotes.
EndsParse(v) ==
  Kind[v] \in {"quoted", "opening", "refused", "split", "foreign"} /\ v \notin Closed

Parsable(format, s, i) ==
  format = "json" => \A j \in 1..(i - 1) : ~EndsParse(s[j].value)

\* pvs.insert keeps the first value that was read for a channel; mutant: the last.
KeepLast(hits) == CHOOSE i \in hits : \A j \in hits : j <= i
KeepFirst(hits) == CHOOSE i \in hits : \A j \in hits : i <= j
Kept(hits) == KeepFirst(hits)

\* What readText or readJson finds for channel p in a file of entries s.
Found(format, s, p) ==
  LET hits == {i \in DOMAIN s : Read(format, s[i], p) # Absent /\ Parsable(format, s, i)}
  IN IF hits = {} THEN Absent ELSE Read(format, s[Kept(hits)], p)

InFile(io) == SubSeq(stream[io], 1, onDisk[io])

\* Mutant: strings are delivered before they are closed.
DeliveredOpen(format, kind) == kind \notin {"empty", "void"}

\* Whether some of a torn value is read.  A JSON string is not delivered before its
\* closing quote, but a quote in the value looks like one.
Delivered(format, kind) ==
  \/ format = "text" /\ kind \notin {"empty", "void"}
  \/ format = "json" /\ kind \in {"quoted", "opening"}

\* What may be read of a torn entry for channel p.  A torn line has lost at least
\* its newline, and the text reader strips a character all the same: its value,
\* if any is left, is cut.  A member has been read when its string was closed.
TornReads(format, e, p) ==
  {Absent}
    \union (IF e.pv = p /\ Delivered(format, Kind[e.value]) THEN {Cut} ELSE {})
    \union (IF Rest[format][e.value][p] = Absent THEN {}
            ELSE {Rest[format][e.value][p]} \union (IF format = "text" THEN {Cut} ELSE {}))

\* readData() of an http backend fails.
NothingRead == NoRest

\* What a complete file reads as, and what may come on top of it from the entry
\* that is torn.
Whole(io) == [p \in PVs |-> Found(Format[io], InFile(io), p)]
TornRests(io) ==
  IF torn[io] /\ Parsable(Format[io], stream[io], onDisk[io] + 1)
    THEN {m \in [PVs -> Values \union {Absent}] :
            \A p \in PVs : m[p] \in TornReads(Format[io], stream[io][onDisk[io] + 1], p)}
    ELSE {}

\* The maps that readData() may leave with restore().
ReadResults(io) ==
  IF io \in Files
    THEN {Whole(io)} \union
           {[p \in PVs |-> IF Whole(io)[p] # Absent THEN Whole(io)[p] ELSE m[p]] :
              m \in TornRests(io)}
    ELSE {NothingRead}

=============================================================================
