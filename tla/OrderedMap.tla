----------------------------- MODULE OrderedMap -----------------------------
(***************************************************************************)
(* What shared/hashmap.c promises its callers: a map of distinct keys that *)
(* remembers the order in which the keys came, and the result of each      *)
(* call.  Buckets, hash keys and tiles are out of sight.  A call may fail  *)
(* for lack of memory, and then changes nothing.                           *)
(***************************************************************************)
EXTENDS Integers, Sequences, SequencesExt

CONSTANTS Maps

VARIABLES
    map,       \* map[m]: the pairs [key, value] of m, the oldest first
    call       \* the last call, its arguments and what it returned

abstractVars == <<map, call>>

NULL == 0
ENOENT == -2
ENOMEM == -12
EEXIST == -17

KeysOf(s) == {s[i].key : i \in DOMAIN s}
At(s, k) == CHOOSE i \in DOMAIN s : s[i].key = k
Lookup(s, k) == IF k \in KeysOf(s) THEN s[At(s, k)].value ELSE NULL
Drop(s, k) == SelectSeq(s, LAMBDA p : p.key # k)
Pair(k, v) == [key |-> k, value |-> v]
Changed(s, k, v) == [s EXCEPT ![At(s, k)] = Pair(k, v)]

\* The call leaves t in m and returns r; or leaves everything as it was.
Gives(m, t, r) == map' = [map EXCEPT ![m] = t] /\ call'.ret = <<r>>
Stays(r) == UNCHANGED map /\ call'.ret = <<r>>

Put(m, k, v) ==
    IF k \in KeysOf(map[m])
    THEN Stays(IF Lookup(map[m], k) = v THEN 0 ELSE EEXIST)
    ELSE \/ Gives(m, Append(map[m], Pair(k, v)), 1)
         \/ Stays(ENOMEM)

Replace(m, k, v) ==
    IF k \in KeysOf(map[m]) THEN Gives(m, Changed(map[m], k, v), 0) ELSE Put(m, k, v)

Update(m, k, v) ==
    IF k \in KeysOf(map[m]) THEN Gives(m, Changed(map[m], k, v), 0) ELSE Stays(ENOENT)

Delete(m, k) == Gives(m, Drop(map[m], k), Lookup(map[m], k))

RemoveValue(m, k, v) ==
    IF Lookup(map[m], k) = v THEN Gives(m, Drop(map[m], k), v) ELSE Stays(NULL)

\* The pair of the old key goes to the end under its new key.
RemoveAndPut(m, old, new, v) ==
    IF old \notin KeysOf(map[m]) THEN Stays(ENOENT)
    ELSE IF new \in KeysOf(map[m]) THEN Stays(EEXIST)
    ELSE Gives(m, Append(Drop(map[m], old), Pair(new, v)), 0)

RemoveAndReplace(m, old, new, v) ==
    IF old \notin KeysOf(map[m]) THEN Stays(ENOENT)
    ELSE Gives(m, Append(Drop(Drop(map[m], new), old), Pair(new, v)), 0)

StealFirst(m) ==
    IF map[m] = <<>> THEN Stays(NULL) ELSE Gives(m, Tail(map[m]), Head(map[m]).value)

Clear(m) == Gives(m, <<>>, NULL)

\* The pairs of t whose keys s lacks.
Missing(s, t) == SelectSeq(t, LAMBDA p : p.key \notin KeysOf(s))

\* Merging may stop for lack of memory after some of the missing pairs.
Merge(m, n) ==
    \E i \in 0..Len(Missing(map[m], map[n])) :
       Gives(m, map[m] \o SubSeq(Missing(map[m], map[n]), 1, i),
             IF i = Len(Missing(map[m], map[n])) THEN 0 ELSE ENOMEM)

Move(m, n) ==
    /\ map' = [map EXCEPT ![m] = map[m] \o Missing(map[m], map[n]),
                          ![n] = SelectSeq(map[n], LAMBDA p : p.key \in KeysOf(map[m]))]
    /\ call'.ret = <<NULL>>

MoveOne(m, n, k) ==
    IF k \in KeysOf(map[m]) THEN Stays(EEXIST)
    ELSE IF k \notin KeysOf(map[n]) THEN Stays(ENOENT)
    ELSE /\ map' = [map EXCEPT ![m] = Append(@, Pair(k, Lookup(map[n], k))),
                            ![n] = Drop(@, k)]
         /\ call'.ret = <<0>>

\* The questions that change nothing: the value of k, the value behind k, the
\* first and the last value, the number of pairs.
Query(m, k) ==
    /\ UNCHANGED map
    /\ call'.ret =
         <<Lookup(map[m], k),
           IF k \in KeysOf(map[m]) /\ At(map[m], k) < Len(map[m])
           THEN map[m][At(map[m], k) + 1].value ELSE NULL,
           IF map[m] = <<>> THEN NULL ELSE map[m][1].value,
           IF map[m] = <<>> THEN NULL ELSE map[m][Len(map[m])].value, Len(map[m])>>

AbstractInit ==
    map = [m \in Maps |-> <<>>] /\ call = [op |-> "none", args |-> <<>>, ret |-> <<NULL>>]

AbstractNext ==
    LET op == call'.op
        a  == call'.args
    IN
    \/ op = "put" /\ Put(a[1], a[2], a[3])
    \/ op = "replace" /\ Replace(a[1], a[2], a[3])
    \/ op = "update" /\ Update(a[1], a[2], a[3])
    \/ op = "remove" /\ Delete(a[1], a[2])
    \/ op = "remove_value" /\ RemoveValue(a[1], a[2], a[3])
    \/ op = "remove_and_put" /\ RemoveAndPut(a[1], a[2], a[3], a[4])
    \/ op = "remove_and_replace" /\ RemoveAndReplace(a[1], a[2], a[3], a[4])
    \/ op = "steal_first" /\ StealFirst(a[1])
    \/ op = "clear" /\ Clear(a[1])
    \/ op = "merge" /\ Merge(a[1], a[2])
    \/ op = "move" /\ Move(a[1], a[2])
    \/ op = "move_one" /\ MoveOne(a[1], a[2], a[3])
    \/ op = "query" /\ Query(a[1], a[2])

AbstractSpec == AbstractInit /\ [][AbstractNext]_abstractVars
=============================================================================
