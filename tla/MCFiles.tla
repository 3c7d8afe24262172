------------------------------- MODULE MCFiles -------------------------------
(* Files with the values that MCFiles.cfg uses. *)
EXTENDS Files

CONSTANTS i1, i2

Mode(how, plus, type, flush) == [how |-> how, plus |-> plus, type |-> type, flush |-> flush]
MCModes == {Mode("r", FALSE, "text", FALSE), Mode("w", FALSE, "binary", TRUE),
            Mode("a", FALSE, "text", FALSE), Mode("r", TRUE, "binary", FALSE),
            Mode("r", TRUE, "text", TRUE)}

MCData == {<<>>, <<"a">>, <<HOLE, "a">>}
MCLists == {<<>>, <<<<"a">>>>}
MCLines == -1..4

Texts_(n, chars) == UNION {[1..k -> chars] : k \in 0..n}

NoCalls == [opens |-> 0, closes |-> 0, reads |-> 0, writes |-> 0, directory |-> 0, forks |-> 0,
            fills |-> 0, crashes |-> 0, edits |-> 0]
NoEdits == [n \in Names |-> NONE]
NoNames == [p \in Paths |-> NONE]
NoText == [i \in Inodes |-> <<>>]

\* Handles that are opened and closed
Opening == [names |-> NoNames, text |-> NoText, fup |-> NoEdits,
            left |-> [NoCalls EXCEPT !.opens = 5, !.closes = 2]]
\* Files that are written: shared with checkpointers and lost, moved, on a disk that fills
Writing(more) == [names |-> NoNames, text |-> NoText, fup |-> NoEdits,
                  left |-> more @@ [NoCalls EXCEPT !.opens = 2, !.closes = 1, !.writes = 2]]
MCWritings == {Writing([forks |-> 2, crashes |-> 1]),
               Writing([directory |-> 1, forks |-> 1]),
               Writing([fills |-> 1, forks |-> 1])}
\* A file of any text up to a length, read and, if it is short, written
Reading(text) == [names |-> [NoNames EXCEPT !["p"] = i1], text |-> [NoText EXCEPT ![i1] = text],
                  fup |-> NoEdits,
                  left |-> [NoCalls EXCEPT !.opens = 1, !.reads = 2,
                                           !.writes = IF Len(text) <= 3 THEN 1 ELSE 0]]
\* Files edited, while one is open and written
Editing(text, fills) == [names |-> NoNames, text |-> NoText, fup |-> [NoEdits EXCEPT !["f"] = text],
                         left |-> [NoCalls EXCEPT !.opens = 1 - fills, !.writes = 1 - fills,
                                                  !.fills = fills, !.edits = 1]]

\* The shorter texts have the other characters.
MCStarts ==
  {Opening} \cup MCWritings
    \cup {Reading(t) : t \in Texts_(5, {"a", NL}) \cup Texts_(4, {"a", NL, HOLE})
                              \cup Texts_(3, {"a", NL, CTRL})}
    \cup {Editing(t, fills) : t \in Texts_(5, {"a", NL}), fills \in 0..1}
=============================================================================
