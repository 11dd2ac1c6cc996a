---------------------------- MODULE MCMMapCache -----------------------------
(* Values for the constants of MMapCache.                                  *)
EXTENDS MMapCache

\* The header of an object, and the object itself, which is larger than a window
\* and ends with the file: read through either context.
MCRegions == {[offset |-> 3, size |-> 1], [offset |-> 3, size |-> 4]}

\* A hash table at the begin of the file is asked for with keep_always.
MCRequests ==
    {[context |-> c, offset |-> r.offset, size |-> r.size, keep |-> FALSE] :
       c \in Contexts, r \in MCRegions}
    \cup {[context |-> 1, offset |-> 0, size |-> 1, keep |-> TRUE]}
=============================================================================
