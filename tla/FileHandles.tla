------------------------------ MODULE FileHandles ------------------------------
(***************************************************************************)
(* The FIO half of src/src/extensions.c: a table of open files whose       *)
(* indices, plain numbers, are the handles that MOO programs use.          *)
(*                                                                         *)
(* Below it is stdio.  What is written stays in the buffer of its stream   *)
(* until that is full, or is flushed; fork() gives the checkpointer a copy *)
(* of the buffers, which its exit() writes to the same descriptions of     *)
(* open files (db_file.c).  A stream that is read has nothing in its       *)
(* buffer here: it reads the file as it is.  When the disk is full the     *)
(* rest of a buffer that does not fit is dropped, as stdio does.           *)
(*                                                                         *)
(* A string of a program has printable characters only.  Through a binary  *)
(* handle it codes any characters, and stands for those here; it is good   *)
(* code.  Callers are wizards and path names are good.  A call refused,    *)
(* for a handle that is not open or not open for this, changes nothing and *)
(* is no step, but for file_open(); of an error only that there is one is  *)
(* kept.                                                                   *)
(***************************************************************************)
EXTENDS Texts, FiniteSets

CONSTANTS
  Paths, Inodes,            \* names in files-FIO, and files: bounds
  Descriptions,             \* open files of all processes: a bound
  FILE_IO_MAX_FILES, FILE_IO_BUFFER_LENGTH

VARIABLES
  names,                    \* the file of a path, or NONE
  io,                       \* the kernel's and stdio's part, see EmptyIO
  file_table,               \* by handle
  current_handle,           \* the static variable of file_allocate_next_handle()
  child,                    \* for each checkpointer, the buffers that it has not written yet
  call                      \* the call just made, and its result

file_vars == <<names, io, file_table, current_handle, child, call>>

Handles == 0..(FILE_IO_MAX_FILES - 1)

\* text[i] is a file's contents, description[d] an open file, pending[d] its stream's buffer
EmptyIO ==
  [text |-> [i \in Inodes |-> <<>>],
   description |-> [d \in Descriptions |-> [inode |-> NONE, append |-> FALSE, offset |-> 0]],
   pending |-> [d \in Descriptions |-> <<>>]]

Closed == [valid |-> FALSE]

\* No handle is left from the life before, though programs may have kept its number.
NoneOpen ==
  /\ file_table = [h \in Handles |-> Closed]
  /\ current_handle = 0

-----------------------------------------------------------------------------
(* Stdio *)

TextOf(S, d) == S.text[S.description[d].inode]

written(S, d, data) ==
  LET o == S.description[d]
      at == IF o.append THEN Len(TextOf(S, d)) ELSE o.offset
  IN IF data = <<>> THEN S
     ELSE [S EXCEPT !.text[o.inode] = Put(@, at, data), !.description[d].offset = at + Len(data)]

flushed(S, d, k) == [written(S, d, Until(S.pending[d], k)) EXCEPT !.pending[d] = <<>>]

\* What may come of a call; only on a full disk is there more than one thing.
fflush(S, d) == {flushed(S, d, k) : k \in arriving(S.pending[d])}

sought(S, d, at) == [S EXCEPT !.description[d].offset = at]

\* It stays where it is when the buffer cannot be written.
fseek(S, d, at) ==
  {IF k = Len(S.pending[d]) THEN sought(flushed(S, d, k), d, at) ELSE flushed(S, d, k) :
     k \in arriving(S.pending[d])}

\* What is left to read
Ahead(S, d) == Rest(TextOf(S, d), S.description[d].offset)
Advanced(S, d, n) == [S EXCEPT !.description[d].offset = @ + n]

\* A buffer that is full is written: the first n characters of what waits.  Only if that
\* fails is it an error.
fwrite(S, d, data, n) ==
  LET all == S.pending[d] \o data
  IN {[io |-> [written(S, d, Until(all, k)) EXCEPT !.pending[d] = IF k < n THEN <<>>
                                                                 ELSE Rest(all, n)],
       error |-> k < n] : k \in arriving(Until(all, n))}

-----------------------------------------------------------------------------
(* The table *)

file_handle_valid(h) == file_table[h].valid

Description(h) == file_table[h].description
May(h, right) == file_handle_valid(h) /\ right \in file_table[h].mode

\* The search goes up from the last handle given, and not round.
free_handles == {h \in Handles : h >= current_handle /\ ~file_handle_valid(h)}

Used(d) ==
  \/ \E c \in DOMAIN child : d \in DOMAIN child[c]
  \/ \E h \in Handles : file_handle_valid(h) /\ Description(h) = d
FreeDescription == CHOOSE d \in Descriptions : ~Used(d)

IsReferred(i) ==
  \/ \E p \in Paths : names[p] = i
  \/ \E d \in Descriptions : Used(d) /\ io.description[d].inode = i

Made(op, data) == call' = [op |-> op] @@ data
NotACall == call' = [op |-> "none"]
ChangesIO(S) == io' = S /\ UNCHANGED <<names, file_table, current_handle, child>>

-----------------------------------------------------------------------------
(* Opening and closing *)

\* Mutant: the search does not start again.
Bug_TooManyOpen ==
  /\ Made("open", [refused |-> TRUE])
  /\ UNCHANGED <<names, io, file_table, current_handle, child>>

TooManyOpen ==
  /\ current_handle' = 0
  /\ Made("open", [refused |-> TRUE])
  /\ UNCHANGED <<names, io, file_table, child>>

\* Of the letters of a mode, how is the "r", "w" or "a", plus whether there is a "+", type
\* "text" or "binary", and flush whether there is an "f".
file_modestr_to_mode(mode) ==
  (IF mode.how = "r" \/ mode.plus THEN {"read"} ELSE {})
    \cup (IF mode.how # "r" \/ mode.plus THEN {"write"} ELSE {})
    \cup (IF mode.flush THEN {"flush"} ELSE {})

Opened(h, p, i, mode) ==
  LET d == FreeDescription
  IN /\ names' = [names EXCEPT ![p] = i]
     /\ io' = [io EXCEPT !.text[i] = IF mode.how = "w" \/ names[p] = NONE THEN <<>> ELSE @,
                         !.description[d] = [inode |-> i, append |-> mode.how = "a", offset |-> 0],
                         !.pending[d] = <<>>]
     /\ file_table' = [file_table EXCEPT ![h] =
                         [valid |-> TRUE, description |-> d, type |-> mode.type,
                          mode |-> file_modestr_to_mode(mode)]]

\* fopen() may fail for reasons of its own; the entry is given up then, and the place
\* of the search is kept.
FileOpen(p, mode) ==
  IF free_handles = {} THEN TooManyOpen
  ELSE LET h == Min(free_handles)
       IN /\ \E d \in Descriptions : ~Used(d)
          /\ current_handle' = h
          /\ Made("open", [refused |-> FALSE])
          /\ UNCHANGED child
          /\ \/ UNCHANGED <<names, io, file_table>>
             \/ \E i \in Inodes :
                  /\ IF names[p] # NONE THEN i = names[p] ELSE mode.how # "r" /\ ~IsReferred(i)
                  /\ Opened(h, p, i, mode)

FileClose(h) ==
  /\ file_handle_valid(h)
  /\ io' \in fflush(io, Description(h))
  /\ file_table' = [file_table EXCEPT ![h] = Closed]
  /\ Made("close", [handle |-> h])
  /\ UNCHANGED <<names, current_handle, child>>

-----------------------------------------------------------------------------
(* Reading *)

clean(text) == SelectSeq(text, LAMBDA c : c \notin {NL, HOLE, CTRL})
in_filter(h, text) == IF file_table[h].type = "text" THEN clean(text) ELSE text

NoLine == [line |-> NONE, used |-> 0, beyond |-> FALSE]

\* Mutant: a full buffer is taken for a part of a line, whatever it ends with.
Bug_file_read_line(text) ==
  LET size == FILE_IO_BUFFER_LENGTH
      from[n \in 0..Len(text)] ==
        LET k == fgets(Rest(text, n), size)
            piece == c_string(SubSeq(text, n + 1, n + k))
            all == Until(text, n) \o piece
        IN IF k = 0 THEN [NoLine EXCEPT !.used = n]
           ELSE IF Len(piece) = size - 1 THEN from[n + k]
           ELSE [line |-> Until(all, Len(all) - 1), used |-> n + k, beyond |-> piece = <<>>]
  IN from[0]

\* The line is put together from buffers that are full, each as long as strlen() says: from
\* a NUL on nothing of a buffer is seen.  Then its last character is cut off: be it the
\* end of the line or, where a NUL or the end of the file was found first, not.  For the
\* last character of a buffer that begins with a NUL the code goes beyond the buffer.  A
\* part of a line that ends where the file does is used up without being returned.
file_read_line(text) ==
  LET size == FILE_IO_BUFFER_LENGTH
      from[n \in 0..Len(text)] ==
        LET k == fgets(Rest(text, n), size)
            piece == c_string(SubSeq(text, n + 1, n + k))
            all == Until(text, n) \o piece
        IN IF k = 0 THEN [NoLine EXCEPT !.used = n]
           ELSE IF Len(piece) = size - 1 /\ Last(piece) # NL THEN from[n + k]
           ELSE [line |-> Until(all, Len(all) - 1), used |-> n + k, beyond |-> piece = <<>>]
  IN from[0]

\* The server dies and is started again, and what its buffers held is lost.  An end
\* that is meant closes the files, as file_close() would, before.
Restart ==
  /\ file_table' = [h \in Handles |-> Closed]
  /\ current_handle' = 0
  /\ io' = [io EXCEPT !.pending = [d \in Descriptions |-> <<>>]]
  /\ NotACall
  /\ UNCHANGED <<names, child>>

\* buffer[-1] is on the stack: it is harmless, or the server may die of it.
GoesBeyond(reads) == (\E read \in reads : read.beyond) /\ Restart

FileReadLine(h) ==
  /\ May(h, "read")
  /\ LET d == Description(h)
     IN \E S \in fflush(io, d) :
          LET read == file_read_line(Ahead(S, d))
              line == IF read.line = NONE THEN NONE ELSE in_filter(h, read.line)
          IN \/ /\ ChangesIO(Advanced(S, d, read.used))
                /\ Made("readline",
                        [handle |-> h, from |-> S.description[d].offset, line |-> line])
             \/ GoesBeyond({read})

\* Places behind each of the first n lines, as far as there are any
line_ends(text, n) ==
  LET ends[k \in 0..n] ==
        IF k = 0 THEN <<0>>
        ELSE LET before == ends[k - 1]
                 read == file_read_line(Rest(text, before[Len(before)]))
             IN IF Len(before) < k \/ read.line = NONE THEN before
                ELSE Append(before, before[Len(before)] + read.used)
  IN ends[n]

\* The lines from begin to end, as far as there are any; the stream is then where they begin.
FileReadLines(h, begin, end) ==
  /\ May(h, "read")
  /\ 1 <= begin /\ begin <= end
  /\ LET d == Description(h)
     IN \E S \in fseek(io, d, 0) :
          LET from == S.description[d].offset
              ends == line_ends(Ahead(S, d), end)
              read == [k \in DOMAIN ends |-> file_read_line(Rest(Ahead(S, d), ends[k]))]
              range == [handle |-> h, from |-> from, begin |-> begin, end |-> end]
          IN \/ /\ Len(ends) < begin
                /\ ChangesIO(Advanced(S, d, Len(Ahead(S, d))))
                /\ Made("readlines", range @@ [lines |-> NONE])
             \/ /\ Len(ends) >= begin
                /\ ChangesIO(Advanced(S, d, ends[begin]))
                /\ Made("readlines",
                        range @@ [lines |-> [k \in 1..(Len(ends) - begin) |->
                                               in_filter(h, read[begin + k - 1].line)]])
             \/ GoesBeyond({read[k] : k \in 1..Min({end, Len(ends)})})

\* The buffer is filled again as long as less than record_length is read: what is longer
\* than a buffer is read in whole buffers.  A negative length is a large one for the
\* buffer, and a small one for the test.
read_length(ahead, record_length) ==
  LET size == FILE_IO_BUFFER_LENGTH
      wanted == IF record_length < 0 THEN size
                ELSE IF record_length <= size THEN record_length
                ELSE ((record_length + size - 1) \div size) * size
  IN Min({wanted, Len(ahead)})

FileRead(h, record_length) ==
  /\ May(h, "read")
  /\ LET d == Description(h)
     IN \E S \in fflush(io, d) :
          LET n == read_length(Ahead(S, d), record_length)
              data == IF n = 0 THEN NONE ELSE in_filter(h, Until(Ahead(S, d), n))
          IN /\ ChangesIO(Advanced(S, d, n))
             /\ Made("read", [handle |-> h, data |-> data])

-----------------------------------------------------------------------------
(* Writing *)

out_filter_takes(h, data) == file_table[h].type = "text" => clean(data) = data

\* Mutant: only file_write() looks at the mode.
Bug_FileWriteLine(h, data) ==
  /\ May(h, "write") /\ out_filter_takes(h, data)
  /\ \E W \in fwrite(io, Description(h), Append(c_string(data), NL), 0) : ChangesIO(W.io)
  /\ Made("writeline", [handle |-> h, data |-> data, error |-> FALSE])

\* chars is what stdio gets.  An error is raised or, by file_write(), told by a count; what
\* comes of the flush is not looked at.
Writes(op, h, data, chars) ==
  /\ May(h, "write") /\ out_filter_takes(h, data)
  /\ LET d == Description(h)
         waiting == Len(io.pending[d])
     IN \E n \in {0} \cup (waiting..(waiting + Len(chars))) : \E W \in fwrite(io, d, chars, n) :
          /\ \E S \in IF May(h, "flush") /\ ~W.error THEN fflush(W.io, d) ELSE {W.io} :
               ChangesIO(S)
          /\ Made(op, [handle |-> h, data |-> data, error |-> W.error])

\* fputs() writes a string, fwrite() so many characters.
FileWriteLine(h, data) == Writes("writeline", h, data, Append(c_string(data), NL))

\* To write nothing is an error.
FileWrite(h, data) == data # <<>> /\ Writes("write", h, data, data)

FileFlush(h) ==
  /\ file_handle_valid(h)
  /\ \E S \in fflush(io, Description(h)) : ChangesIO(S)
  /\ Made("flush", [handle |-> h])

FileSeek(h, at) ==
  /\ file_handle_valid(h)
  /\ \E S \in fseek(io, Description(h), at) : ChangesIO(S)
  /\ Made("seek", [handle |-> h])

-----------------------------------------------------------------------------
(* Directories, the checkpointer, and the end of the server *)

FileRemove(p) ==
  /\ names[p] # NONE
  /\ names' = [names EXCEPT ![p] = NONE]
  /\ Made("remove", [path |-> p])
  /\ UNCHANGED <<io, file_table, current_handle, child>>

FileRename(p, q) ==
  /\ names[p] # NONE
  /\ p # q
  /\ names' = [names EXCEPT ![q] = names[p], ![p] = NONE]
  /\ Made("rename", [path |-> q])
  /\ UNCHANGED <<io, file_table, current_handle, child>>

\* fork() of one more checkpointer, whatever the others have come to; one that has nothing
\* to write is left out.
Checkpoint ==
  LET buffers == [d \in {d \in Descriptions : io.pending[d] # <<>>} |-> io.pending[d]]
  IN /\ DOMAIN buffers # {}
     /\ child' = Append(child, buffers)
     /\ NotACall
     /\ UNCHANGED <<names, io, file_table, current_handle>>

\* exit() of a checkpointer writes one buffer after the other.
ChildFlushes(c, d) ==
  /\ c \in DOMAIN child /\ d \in DOMAIN child[c]
  /\ \E k \in arriving(child[c][d]) : io' = written(io, d, Until(child[c][d], k))
  /\ LET rest == [e \in DOMAIN child[c] \ {d} |-> child[c][e]]
     IN child' = IF rest = <<>> THEN RemoveAt(child, c) ELSE [child EXCEPT ![c] = rest]
  /\ NotACall
  /\ UNCHANGED <<names, file_table, current_handle>>
=============================================================================
