--------------------------- MODULE MCJournalFile ----------------------------
EXTENDS JournalFile

D(f, v) == [field |-> f, value |-> v]

MCPayloads == {D("A", 1), D("A", 2), D("B", 1)}
MCBuckets == [data |-> 2, field |-> 1]

\* A=1 and A=2 have the same hash; B=1 shares their bucket.
MCHash ==
    [x \in {<<"data", d>> : d \in MCPayloads} \union {<<"field", f>> : f \in {"A", "B"}} |->
       IF x[1] = "field" THEN (IF x[2] = "A" THEN 1 ELSE 2)
       ELSE IF x[2].field = "A" THEN 3 ELSE 5]

MCEntryLists ==
    {<<D("A", 1)>>, <<D("A", 1), D("B", 1)>>, <<D("B", 1), D("A", 2)>>, <<D("A", 2), D("A", 1)>>}

MCScopes ==
    { [entries |-> 3, full |-> 1, unmapped |-> 0, kills |-> 0, reads |-> 1],
      [entries |-> 3, full |-> 0, unmapped |-> 1, kills |-> 1, reads |-> 2] }
=============================================================================
