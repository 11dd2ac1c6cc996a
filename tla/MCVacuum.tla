------------------------------ MODULE MCVacuum ------------------------------
(* Values for the constants of Vacuum.                                     *)
EXTENDS Vacuum

Found(dir, tilde, sid, head, mtime) ==
    [dir |-> dir, tilde |-> tilde, size |-> IF head = 0 THEN 1 ELSE 2, mtime |-> mtime, sid |-> sid,
     head |-> head, n |-> IF head = 0 THEN 0 ELSE 1]

Conf(use) == [max_use |-> use, max_size |-> 2, min_size |-> Unset, keep_free |-> Unset]

\* Two archives, a file that was renamed and the journal in use, all of them with
\* entries; the wall clock was set back before the second archive was closed.
Mixed == <<Found("system", FALSE, 1, 1, 3), Found("system", FALSE, 1, 2, 1),
           Found("system", TRUE, 3, 3, 2), Found("system", FALSE, 1, 4, 3)>>
Young == <<Found("system", FALSE, 1, 1, 2), Found("system", FALSE, 2, 2, 2),
           Found("system", FALSE, 1, 4, 3)>>
Both  == <<Found("system", TRUE, 1, 1, 1), Found("system", FALSE, 2, 0, 3),
           Found("runtime", TRUE, 3, 3, 2), Found("runtime", FALSE, 4, 0, 3)>>

Scope(here, found, active0, use, retention, time, messages, signals, restarts, busy, steps) ==
    [here |-> here, found |-> found, active |-> active0, conf |-> Conf(use),
     retention |-> retention, start |-> 3, seqnum |-> 4, time |-> time, messages |-> messages,
     signals |-> signals, restarts |-> restarts, busy |-> busy, steps |-> steps]

System(f) == [system |-> f]

MCScopes ==
    {Scope(TRUE, Mixed, System(4), 4, 2, 3, 1, 1, 0, 1, 1),
     Scope(TRUE, Young, System(3), 6, 1, 3, 1, 1, 1, 1, 0),
     Scope(FALSE, <<Found("system", FALSE, 1, 0, 3)>>, System(1), 4, 1, 5, 2, 0, 2, 1, 0),
     Scope(FALSE, Both, [system |-> 2, runtime |-> 4], Unset, 2, 4, 1, 1, 1, 0, 1),
     Scope(FALSE, <<Found("runtime", FALSE, 1, 0, 3)>>, [runtime |-> 1], Unset, 1, 4, 2, 0, 1, 0, 0)}

\* No step depends on step.
MCView == <<files, active, oldest, cache, clock, loop, scope, used, hist>>
=============================================================================
