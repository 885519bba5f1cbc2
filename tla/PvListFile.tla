----------------------------- MODULE PvListFile -----------------------------
(***************************************************************************)
(* What the names of a monitor set come from: a .pvl file, and the info    *)
(* fields of the records of the database.  A line of a file is known by    *)
(* the words before its comment, if there is one, and by whether all of    *)
(* its macros are defined; an info field is known by its words.            *)
(***************************************************************************)
EXTENDS Naturals, Sequences

CONSTANTS
  Unexpanded,  \* what an undefined macro makes of a name: no record has it
  TooLong      \* a word of an info field that does not fit the buffer

Line(words, defined) == [words |-> words, defined |-> defined]

\* Each line gives a name, unless nothing is left of it.  The blanks at its end
\* are removed by a loop that does not stop at the first other character, so that
\* what is left is the first word.  The end of a line with an undefined macro is
\* not found, and the newline stays a part of the name.
readPvList(lines) ==
  LET kept == SelectSeq(lines, LAMBDA l : l.words # <<>>)
  IN [i \in DOMAIN kept |-> IF kept[i].defined THEN Head(kept[i].words) ELSE Unexpanded]

\* Each word of an info field is a field of the record; a word that is too long
\* ends the list.  The longest that is taken puts its end one byte after the
\* buffer; it is a name like others here.
tokenizeAndAdd(words) ==
  LET fits(n) == \A i \in 1..n : words[i] # TooLong
  IN SelectSeq([i \in DOMAIN words |-> IF fits(i) THEN words[i] ELSE TooLong],
               LAMBDA w : w # TooLong)

\* Of a record with both info fields; an absent one is empty.
InfoFields(autosaveFields, saveFields) ==
  tokenizeAndAdd(autosaveFields) \o tokenizeAndAdd(saveFields)
=============================================================================
