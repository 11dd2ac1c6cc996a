----------------------------- MODULE MCHashmap ------------------------------
(* Values for the constants of Hashmap.                                    *)
EXTENDS Hashmap

\* In two buckets two of three keys collide, in more none does.
MCHash(k, r) == k * r

\* Every key with itself as its value, as in sets, and one with another value.
MCPairs == {<<1, 1>>, <<1, 2>>, <<2, 2>>, <<3, 3>>}

\* No step depends on call, which only names the step that was taken.
MCView == <<heap, loop>>
=============================================================================
