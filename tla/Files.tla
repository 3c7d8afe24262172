--------------------------------- MODULE Files ---------------------------------
(***************************************************************************)
(* The two ways to files of src/src/extensions.c in one server: handles in *)
(* files-FIO and edits in files-FUP.  They share the process: an edit that *)
(* panics it takes the buffers of the open files with it.                  *)
(***************************************************************************)
EXTENDS FileHandles, FileEdits

CONSTANTS
  Modes,                    \* modes of file_open(), see FileOpen
  Data, MaxText,            \* what is written, and the longest text: bounds
  Lists,                    \* the lines of an edit: a bound
  Starts                    \* files to start from, with the calls that may be made

VARIABLES
  unflushed,                \* files once opened for writing without an "f" in the mode
  left                      \* how many calls of each kind may still be made: a bound

io_vars == <<names, io, file_table, current_handle, child>>
files_vars == <<file_vars, edit_vars, disk_full, unflushed, left>>

NotAnEdit == UNCHANGED fup /\ edit' = [op |-> "none", panic |-> FALSE]

FilesInit ==
  /\ \E start \in Starts :
       /\ names = start.names
       /\ io = [EmptyIO EXCEPT !.text = start.text]
       /\ fup = start.fup
       /\ left = start.left
  /\ NoneOpen
  /\ child = <<>>
  /\ disk_full = FALSE
  /\ call = [op |-> "none"]
  /\ edit = [op |-> "none", panic |-> FALSE]
  /\ unflushed = {}

Spend(kind) == left[kind] > 0 /\ left' = [left EXCEPT ![kind] = @ - 1]

Opens ==
  /\ Spend("opens")
  /\ \E p \in Paths, m \in Modes :
       /\ FileOpen(p, m)
       /\ unflushed' = IF "write" \in file_modestr_to_mode(m) /\ ~m.flush
                       THEN unflushed \cup ({names'[p]} \ {NONE}) ELSE unflushed
  /\ UNCHANGED disk_full
  /\ NotAnEdit

Reads ==
  /\ Spend("reads")
  /\ \E h \in Handles :
       \/ FileReadLine(h)
       \/ \E begin, end \in AnyLine : FileReadLines(h, begin, end)
       \/ \E n \in AnyLine : FileRead(h, n)
  /\ UNCHANGED <<unflushed, disk_full>>
  /\ NotAnEdit

WritesOrSeeks ==
  /\ Spend("writes")
  /\ \E h \in Handles :
       \/ \E data \in Data :
            /\ file_handle_valid(h) => Len(TextOf(io, Description(h))) + Len(data) < MaxText
            /\ FileWriteLine(h, data) \/ FileWrite(h, data)
       \/ FileFlush(h)
       \/ \E at \in AnyLine : at >= 0 /\ FileSeek(h, at)
  /\ UNCHANGED <<unflushed, disk_full>>
  /\ NotAnEdit

Closes ==
  /\ Spend("closes")
  /\ \E h \in Handles : FileClose(h)
  /\ UNCHANGED <<unflushed, disk_full>>
  /\ NotAnEdit

Directory ==
  /\ Spend("directory")
  /\ \/ \E p \in Paths : FileRemove(p)
     \/ \E p, q \in Paths : FileRename(p, q)
  /\ UNCHANGED <<unflushed, disk_full>>
  /\ NotAnEdit

Processes ==
  /\ \/ Spend("forks") /\ Checkpoint
     \/ UNCHANGED left /\ \E c \in DOMAIN child, d \in Descriptions : ChildFlushes(c, d)
     \/ Spend("crashes") /\ Restart
  /\ UNCHANGED <<unflushed, disk_full>>
  /\ NotAnEdit

\* Others fill the disk, and make room again.
DiskFills ==
  /\ Spend("fills")
  /\ disk_full' = ~disk_full
  /\ NotACall
  /\ UNCHANGED <<io_vars, unflushed>>
  /\ NotAnEdit

Edits ==
  /\ Spend("edits")
  /\ \E n \in Names :
       \/ \E start, end \in AnyLine : fileread(n, start, end) \/ filecut(n, start, end)
       \/ filegrep(n) \/ fileextract(n)
       \/ filedelete(n)
       \/ \E m \in Names : filerename(n, m)
       \/ \E lines \in Lists :
            \/ filewrite(n, lines)
            \/ \E start \in AnyLine : fileinsert(n, start, lines)
            \/ fileappend(n, lines)
  /\ IF edit'.panic THEN Restart
     ELSE UNCHANGED io_vars /\ NotACall
  /\ UNCHANGED <<unflushed, disk_full>>

FilesNext ==
  Opens \/ Closes \/ Reads \/ WritesOrSeeks \/ Directory \/ Processes \/ DiskFills \/ Edits

FilesSpec == FilesInit /\ [][FilesNext]_files_vars

-----------------------------------------------------------------------------
(* Properties *)

\* What a write asks for: a line ends where a NUL does, which binary data may have.
meant(c) == IF c.op = "writeline" THEN Append(c_string(c.data), NL) ELSE c.data

\* A file that was only ever opened with an "f" in the mode holds what the calls wrote,
\* where and in the order they wrote it, when they return: neither a crash, nor
\* checkpointers that end, however many and late, nor a panic in an edit loses a character
\* or writes one twice (file_write(), file_writeline()).  But on a full disk only a
\* beginning of the data may be there, and the caller is not told, since the result of
\* fflush() is not looked at; on another disk there is no error.
FlushedFilesAreExact ==
  [][\A i \in Inodes \ unflushed' :
       LET o == io.description[Description(call'.handle)]
           writes == call'.op \in {"write", "writeline"} /\ o.inode = i
           at == IF o.append THEN Len(io.text[i]) ELSE o.offset
           holds(k) == IF k = 0 THEN io'.text[i] = io.text[i]
                       ELSE io'.text[i] = Put(io.text[i], at, Until(meant(call'), k))
       IN IF ~writes
          THEN io'.text[i] # io.text[i] => call'.op = "open" /\ io'.text[i] = <<>>
          ELSE /\ ~disk_full => holds(Len(meant(call'))) /\ ~call'.error
               /\ disk_full => \E k \in 0..Len(meant(call')) : holds(k)]_files_vars

\* "Too many files open" is not the truth when file_open() says it first, but it is when the
\* next call says it again (file_allocate_next_handle()).
RefusedTwiceIsFull ==
  [][call.op = "open" /\ call'.op = "open" /\ call.refused /\ call'.refused =>
       \A h \in Handles : file_handle_valid(h)]_files_vars

\* What file_readline() and file_readlines() return are the lines of the file, without what
\* the type of the handle drops, in order, from where the stream is, however long they are
\* next to the buffer; the only one that is not is a last line without an end.  This is so
\* as long as there is no NUL: of a line that has one, nothing from the character before
\* the NUL on is returned (file_read_line()).
ReadsWholeLines ==
  [][/\ call'.op = "readline" =>
          LET d == Description(call'.handle)
              before == Rest(TextOf(io', d), call'.from)
              first == IF Lines(before) = <<>> THEN before ELSE Head(Lines(before))
              line == IF call'.line = NONE THEN <<>> ELSE call'.line
          IN IF HOLE \in Range(first)
             THEN /\ IsPrefix(line, in_filter(call'.handle, c_string(first)))
                  /\ HOLE \notin Range(line)
             ELSE IF Lines(before) = <<>> THEN Ahead(io', d) = <<>>
             ELSE /\ line = in_filter(call'.handle, first)
                  /\ Ahead(io', d) = Rest(before, Len(first) + 1)
     /\ call'.op = "readlines" /\ call'.lines # NONE =>
          LET h == call'.handle
              text == Rest(TextOf(io', Description(h)), call'.from)
              all == Lines(c_string(text))
              asked == SubSeq(all, call'.begin, Min({call'.end, Len(all)}))
          IN /\ IsPrefix([k \in DOMAIN asked |-> in_filter(h, asked[k])], call'.lines)
             /\ HOLE \notin Range(text) => Len(call'.lines) <= Len(asked) + 1]_files_vars

\* An edit keeps the complete lines before and after those it was asked to replace, as long
\* as they fit the buffer, and one that panics the server leaves the files as they were; to
\* read no line that filelength() does not count never panics it (bf_filewrite(),
\* bf_fileinsert(), bf_filecut(), bf_fileread()).  But on a full disk the lines at the end
\* are lost, and the call still answers that all is well.
EditsKeepTheRest ==
  [][\A n \in Names :
       /\ edit'.panic => fup'[n] = fup[n]
       /\ edit'.panic /\ edit'.op = "fileread" /\ edit'.name = n =>
            Max({edit'.start - 1, edit'.end}) > filelength(n)
       /\ edit'.op \in {"filewrite", "fileinsert", "filecut"} /\ edit'.name = n /\ ~edit'.panic
            /\ fup[n] # NONE =>
          LET old == Lines(fup[n])
              from == Max({edit'.start, 1})
              rest == Max({from, edit'.end + 1})
          IN (\A k \in DOMAIN old : Len(old[k]) < BUF_LEN - 1) /\ from <= Len(old) + 1 =>
               LET new == SubSeq(old, 1, from - 1) \o edit'.lines \o SubSeq(old, rest, Len(old))
               IN IF disk_full THEN IsPrefix(Lines(fup'[n]), new)
                  ELSE Lines(fup'[n]) = new]_files_vars
=============================================================================
