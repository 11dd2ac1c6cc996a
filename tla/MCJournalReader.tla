-------------------------- MODULE MCJournalReader ---------------------------
(* Values for the constants of JournalReader.                              *)
EXTENDS JournalReader

\* f1 and f2 are written by one server, f3 by another.
MCSeqnumId(f) == IF f = "f3" THEN 2 ELSE 1

\* Three values of one field and one of another.
MCFieldOf(d) == IF d = 4 THEN "B" ELSE "A"
MCPayloads == {{1}, {2, 4, 8}}

Scope(walk, files, entries, boots, matches, data, damages) ==
    [walk |-> walk, files |-> files, entries |-> entries, boots |-> boots, matches |-> matches,
     data |-> data, damages |-> damages]

\* The files of two servers; those of one, of which one is damaged; two boots;
\* two matches and three; the values of a field in three files, and in two of which
\* one is damaged.
MCScopes ==
    {Scope(TRUE, {"f1", "f3"}, 3, 1, 0, {}, 0), Scope(TRUE, {"f1", "f2"}, 2, 1, 0, {}, 1),
     Scope(TRUE, {"f1", "f3"}, 2, 2, 0, {}, 0), Scope(TRUE, {"f1"}, 3, 1, 2, {1, 2, 4}, 0),
     Scope(TRUE, {"f1"}, 2, 1, 3, {1, 2, 4}, 0), Scope(FALSE, Files, 2, 1, 0, {1}, 0),
     Scope(FALSE, {"f1", "f2"}, 2, 1, 0, {1}, 1)}

\* No step depends on call, which only names the step that was taken, nor on
\* the direction in which a file was left whose place was given up.
MCView ==
    <<disk, damaged, now, scope, told, [journal EXCEPT !.place =
        [f \in Files |-> IF @[f].offset = 0 THEN NoPlace ELSE @[f]]]>>
=============================================================================
