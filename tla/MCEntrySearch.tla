--------------------------- MODULE MCEntrySearch ----------------------------
(* Values for the constants of EntryIndex and EntrySearch.                 *)
EXTENDS EntrySearch

\* Every entry of one or two fields, the same field twice included, in the
\* order in which qsort() leaves the items.
MCItems == {<<d>> : d \in Data} \cup
           {s \in Data \X Data : s[1] <= s[2]}

\* Entries of either field, or of both.
MCOverlap == {<<1>>, <<2>>, <<1, 2>>}

\* The writer, with every kind of entry; seeks along chains of three arrays;
\* steps and skips; the seek by boot and time, over entries of either field or
\* of both.
MCScopes ==
    {[items |-> MCItems, entries |-> 4, calls |-> {}, needles |-> {}],
     [items |-> {<<1>>}, entries |-> 5, calls |-> {"seek"}, needles |-> {3}],
     [items |-> {<<1>>}, entries |-> 4, calls |-> {"next", "skip"},
      needles |-> {}],
     [items |-> MCOverlap, entries |-> 3, calls |-> {"both"}, needles |-> {1, 2}]}
=============================================================================
