------------------------------ MODULE ListOps -------------------------------
(* Sums of sequences, and the removal of an element from a list.           *)
EXTENDS Naturals, Sequences

Total(v) ==
    LET upto[n \in 0..Len(v)] == IF n = 0 THEN 0 ELSE upto[n - 1] + v[n]
    IN  upto[Len(v)]

\* The list without its element w.
Unlinked(list, w) ==
    LET i == CHOOSE i \in DOMAIN list : list[i] = w
    IN  SubSeq(list, 1, i - 1) \o SubSeq(list, i + 1, Len(list))
=============================================================================
