--------------------------- MODULE MCJournalWatch ---------------------------
(* Values for the constants of JournalWatch.                               *)
EXTENDS JournalWatch

Scope(ops, places, max, drops, fails) ==
    [ops |-> ops, queue |-> places, max |-> max, drops |-> drops, fails |-> fails]

MCScopes == {Scope(6, 9, 4, 0, 0), Scope(5, 9, 4, 0, 1), Scope(4, 2, 1, 0, 0), Scope(4, 9, 3, 1, 0)}
=============================================================================
