----------------------------- MODULE MCJournald -----------------------------
(* Values for the constants of Journald.                                   *)
EXTENDS Journald, TLC

\* No step and no invariant tells two users apart.
UserSymmetry == Permutations(Users)

Scope(users, level, time, messages, signals, rotations, failures, crashes) ==
    [users |-> users, level |-> level, time |-> time, messages |-> messages,
     signals |-> signals, rotations |-> rotations, failures |-> failures,
     crashes |-> crashes]

MCScopes ==
    {\* Crashes while CRIT messages go to the system journal and those of users;
     \* while a user's journal is rotated; while a write rotates.
     Scope(Users, 2, 1, 2, 1, 0, 0, 1), Scope(Users, 2, 1, 1, 2, 0, 0, 1),
     Scope({}, 2, 1, 1, 1, 1, 0, 1),
     \* Two messages and two signals around a failing call.
     Scope({}, 6, 1, 2, 2, 0, 1, 0),
     \* Two failing calls around a restart.
     Scope({}, 6, 1, 0, 2, 0, 2, 0),
     \* Two failing calls, or one while the clock moves; a crash and a failure.
     Scope({}, 6, 1, 1, 1, 0, 2, 0), Scope({}, 6, 2, 1, 1, 0, 1, 0),
     Scope({}, 6, 1, 1, 1, 0, 1, 1)}
=============================================================================
