------------------------------- MODULE FileEdits -------------------------------
(***************************************************************************)
(* The FUP half of src/src/extensions.c: whole files, read and edited by   *)
(* line numbers in one call.  Lines are what fgets() returns, so that one  *)
(* longer than a buffer counts as several.  An edit writes a new file and  *)
(* renames it, and looks at no result of either: on a full disk the file   *)
(* is cut.  There are no NULs in a file, since no edit writes one.         *)
(*                                                                         *)
(* Every loop is while (!feof(f)) wrapped_fgets(...), and wrapped_fgets()  *)
(* panics the server when fgets() finds nothing.  feof() is true only      *)
(* after a last line without an end.                                       *)
(***************************************************************************)
EXTENDS Texts

CONSTANTS
  Names,                    \* in files-FUP: a bound
  AnyLine,                  \* what a line number that is not given, or lies about, may be
  BUF_LEN

VARIABLES
  fup,                      \* the text of each name, or NONE
  edit                      \* the call just made, and its result

edit_vars == <<fup, edit>>

chunks(text) ==
  LET from[n \in 0..Len(text)] ==
        LET k == fgets(Rest(text, n), BUF_LEN)
        IN IF k = 0 THEN <<>> ELSE <<SubSeq(text, n + 1, n + k)>> \o from[n + k]
  IN from[0]

\* The last line has no end, and feof() is true with it.
cut_short(text) == text # <<>> /\ reaches_eof(Last(chunks(text)), BUF_LEN)

\* wrapped_fgets() finds nothing when lines up to this number are read
wrapped_fgets_panics(text, upto) == ~cut_short(text) /\ upto > Len(chunks(text))
reading_all_panics(text) == ~cut_short(text)

\* The lines that are read with feof() false after them
whole_chunks(text) == IF cut_short(text) THEN Front(chunks(text)) ELSE chunks(text)

\* A list as it is written, a line for each element
printed(lines) == FlattenSeq([i \in DOMAIN lines |-> Append(lines[i], NL)])

NoData == [x \in {} |-> 0]
Did(op, n, data) == edit' = [op |-> op, name |-> n, panic |-> FALSE] @@ data
Panics(op, n, data) ==
  /\ edit' = [op |-> op, name |-> n, panic |-> TRUE] @@ data
  /\ UNCHANGED fup

\* It answers E_NONE; for a file that is not there E_INVARG, which edits do without.
build_file_name(n) == fup[n] # NONE

-----------------------------------------------------------------------------
(* Reading *)

filelength(n) == Len(chunks(fup[n]))

\* Every line loses its last character, which is its end if it had room for it.
fileread(n, start_line, end_line) ==
  /\ build_file_name(n)
  /\ LET upto == Max({start_line - 1, end_line})
         read == whole_chunks(fup[n])
         asked == SubSeq(read, Max({start_line, 1}), Min({end_line, Len(read)}))
         range == [start |-> start_line, end |-> end_line]
     IN IF wrapped_fgets_panics(fup[n], upto) THEN Panics("fileread", n, range)
        ELSE /\ Did("fileread", n, range @@ [lines |-> [i \in DOMAIN asked |-> Front(asked[i])]])
             /\ UNCHANGED fup

\* filegrep() and fileextract() read all, whatever they look for.
ReadsAll(op, n) ==
  /\ build_file_name(n)
  /\ IF reading_all_panics(fup[n]) THEN Panics(op, n, NoData)
     ELSE Did(op, n, NoData) /\ UNCHANGED fup

filegrep(n) == ReadsAll("filegrep", n)
fileextract(n) == ReadsAll("fileextract", n)

-----------------------------------------------------------------------------
(* Editing *)

\* Mutant: the line after the last one is left out with it.
Bug_edited(text, start_line, lines, end_line) ==
  LET before == Min({start_line - 1, Len(chunks(text))})
      after == Max({start_line, end_line + 2, 1})
      read == whole_chunks(text)
  IN FlattenSeq(SubSeq(chunks(text), 1, before)) \o printed(lines)
       \o FlattenSeq(SubSeq(read, after, Len(read)))

\* The lines before start_line are copied, a last one without an end as well; those up
\* to end_line are left out, and those after it copied, but for one without an end.
edited(text, start_line, lines, end_line) ==
  LET before == Min({start_line - 1, Len(chunks(text))})
      after == Max({start_line, end_line + 1, 1})
      read == whole_chunks(text)
  IN FlattenSeq(SubSeq(chunks(text), 1, before)) \o printed(lines)
       \o FlattenSeq(SubSeq(read, after, Len(read)))

\* A file that is not there is made.
Rewritten(op, n, start_line, lines, end_line) ==
  IF build_file_name(n) /\ reading_all_panics(fup[n]) THEN Panics(op, n, NoData)
  ELSE LET text == IF fup[n] = NONE THEN printed(lines)
                   ELSE edited(fup[n], start_line, lines, end_line)
       IN /\ \E k \in arriving(text) : fup' = [fup EXCEPT ![n] = Until(text, k)]
          /\ Did(op, n, [start |-> start_line, lines |-> lines, end |-> end_line])

\* Registered for three arguments, it computes the last line from a fourth.
filewrite(n, lines) ==
  \E end_line \in AnyLine : Rewritten("filewrite", n, 1, lines, end_line)

fileinsert(n, start_line, lines) ==
  Rewritten("fileinsert", n, start_line, lines, start_line - 1)

\* With two arguments, start_line is 1 and end_line read from behind them; with three,
\* end_line is start_line - 1, and nothing is cut.
filecut(n, start_line, end_line) == Rewritten("filecut", n, start_line, <<>>, end_line)

fileappend(n, lines) ==
  /\ \E k \in arriving(printed(lines)) :
       fup' = [fup EXCEPT ![n] = (IF @ = NONE THEN <<>> ELSE @) \o Until(printed(lines), k)]
  /\ Did("fileappend", n, [lines |-> lines])

filedelete(n) ==
  /\ build_file_name(n)
  /\ fup' = [fup EXCEPT ![n] = NONE]
  /\ Did("filedelete", n, NoData)

filerename(n, m) ==
  /\ build_file_name(n)
  /\ fup' = IF n = m THEN fup ELSE [fup EXCEPT ![m] = fup[n], ![n] = NONE]
  /\ Did("filerename", n, [to |-> m])
=============================================================================
