--------------------------------- MODULE Texts ---------------------------------
(***************************************************************************)
(* Files as sequences of characters, read by fgets(), on a disk that may   *)
(* be full.  Of the characters only those are told apart that the code     *)
(* does not treat as all others.                                           *)
(***************************************************************************)
EXTENDS Integers, SequencesExt

CONSTANTS
  NL,                       \* the character that ends a line
  HOLE,                     \* NUL, also what a file has where nothing was written before its end
  CTRL,                     \* any other one that is not printed
  NONE                      \* no file, no line

VARIABLE disk_full

Rest(text, n) == SubSeq(text, n + 1, Len(text))
Until(text, n) == SubSeq(text, 1, n)

\* What strlen() and fputs() see of it
c_string(text) ==
  LET nul == SelectInSeq(text, LAMBDA c : c = HOLE)
  IN IF nul = 0 THEN text ELSE Until(text, nul - 1)

\* How much of the data the disk may take; all of it, unless it is full
arriving(data) == IF disk_full THEN 0..Len(data) ELSE {Len(data)}

\* How many characters fgets() takes, with room for size - 1 of them
fgets(text, size) ==
  LET nl == SelectInSeq(text, LAMBDA c : c = NL)
      whole == IF nl = 0 THEN Len(text) ELSE nl
  IN IF whole < size THEN whole ELSE size - 1

\* Whether it came to the end of the file, which feof() then tells
reaches_eof(text, size) ==
  LET n == fgets(text, size)
  IN n < size - 1 /\ (n > 0 => text[n] # NL)

\* The text with data written over it from a place on
Put(text, at, data) ==
  LET hole == [i \in 1..Max({0, at - Len(text)}) |-> HOLE]
  IN Until(text \o hole, at) \o data \o Rest(text, at + Len(data))

\* The lines of a text that are complete
Lines(text) ==
  LET ends == SelectSeq([i \in DOMAIN text |-> i], LAMBDA i : text[i] = NL)
      begin(k) == IF k = 1 THEN 1 ELSE ends[k - 1] + 1
  IN [k \in DOMAIN ends |-> SubSeq(text, begin(k), ends[k] - 1)]

Complete(text) == Until(text, SelectLastInSeq(text, LAMBDA c : c = NL))
=============================================================================
