----------------------------- MODULE KernelLog ------------------------------
(***************************************************************************)
(* How the daemon follows the kernel's log (core/journald-kmsg.c) over its *)
(* own stops, kills and starts (journald/core/server, core/seqnum).        *)
(*                                                                         *)
(* The kernel numbers its messages from 0 and keeps the RingSize latest.   *)
(* The daemon counts with kseqnum, the number it expects next, and keeps   *)
(* that number in /run while it does not run.                              *)
(***************************************************************************)
EXTENDS Integers, Sequences, FiniteSets, ListOps

CONSTANTS Levels,          \* levels of kernel messages
          RingSize,        \* records the kernel keeps
          MaxLevelStore,   \* MaxLevelStore=
          Scopes           \* bounds: [printk, kills, stops, faults, sends]

ASSUME KernelLogAssumption ==
    /\ Levels \subseteq 0 .. 7
    /\ MaxLevelStore \in 0 .. 7
    /\ RingSize \in Nat \ {0}

VARIABLES klog,     \* the level of every message the kernel printed
          pos,      \* number of the message the open descriptor is at
          pc,       \* "down", "flush" (server_flush_dev_kmsg) or "loop"
          watched,  \* epoll watches the descriptor
          kseqnum,  \* server.kseqnum
          saved,    \* what /run/journal/kernel-seqnum holds; 0 if there is none
          journal,  \* what was stored of the kernel, each with the epoch it was stored in
          dropped,  \* numbers read in this epoch and not stored, for their level
          epoch,    \* how often the number has been lost: daemon killed, file not written
          base,     \* the number this epoch began with
          count,    \* stops, kills and faults so far
          scope     \* the bounds of this behaviour

kvars == <<klog, pos, pc, watched, kseqnum, saved, journal, dropped, epoch, base, count, scope>>

Printed == Len(klog)
Oldest == IF Printed > RingSize THEN Printed - RingSize ELSE 0
LevelOf(serial) == klog[serial + 1]

KernelInit ==
    /\ klog = <<>> /\ pos = 0 /\ pc = "down" /\ watched = FALSE
    /\ kseqnum = 0 /\ saved = 0 /\ base = 0 /\ epoch = 0
    /\ journal = <<>> /\ dropped = {}
    /\ count = [stops |-> 0, kills |-> 0, faults |-> 0]
    /\ scope \in Scopes

\* External: the kernel prints, and forgets the oldest record when the ring is full.
Printk ==
    /\ Printed < scope.printk
    /\ \E level \in Levels : klog' = Append(klog, level)
    /\ UNCHANGED <<pos, pc, watched, kseqnum, saved, journal, dropped, epoch, base, count, scope>>

\* server_start(), server_open_dev_kmsg(): a new descriptor is at the oldest record.
Start ==
    /\ pc = "down"
    /\ pc' = "flush"
    /\ pos' = Oldest
    /\ watched' = TRUE
    /\ kseqnum' = saved
    /\ UNCHANGED <<klog, saved, journal, dropped, epoch, base, count, scope>>

Missed(n) == [kind |-> "missed", n |-> n, epoch |-> epoch]
Stored(serial) == [kind |-> "kernel", n |-> serial, epoch |-> epoch]

\* Mutants: the number is that of the last message; the message expected is taken for an old one.
RecordedLast(serial) == serial
AlreadyReadOrLast(serial) == serial <= kseqnum

\* dev_kmsg_record(): what is expected after a message, and which messages are old
Expected(serial) == serial + 1
AlreadyRead(serial) == serial < kseqnum
MissedBefore(serial) == IF serial > kseqnum THEN <<Missed(serial - kseqnum)>> ELSE <<>>

DevKmsgRecord(serial) ==
    IF AlreadyRead(serial) THEN UNCHANGED <<kseqnum, journal, dropped>>
    ELSE /\ kseqnum' = Expected(serial)
         /\ IF LevelOf(serial) > MaxLevelStore
            THEN /\ journal' = journal \o MissedBefore(serial)
                 /\ dropped' = dropped \union {serial}
            ELSE /\ journal' = Append(journal \o MissedBefore(serial), Stored(serial))
                 /\ UNCHANGED dropped

\* What server_read_dev_kmsg() finds.  External: a reader that was overtaken gets EPIPE once.
Overtaken == pos < Oldest
Readable == pos < Printed

\* Mutant: EPIPE is taken for EINVAL.
ReadOverrunUnwatched ==
    /\ Overtaken
    /\ pos' = Oldest
    /\ watched' = FALSE
    /\ UNCHANGED <<kseqnum, journal, dropped>>

ReadOverrun ==
    /\ Overtaken
    /\ pos' = Oldest
    /\ UNCHANGED <<watched, kseqnum, journal, dropped>>

ReadRecord ==
    /\ ~Overtaken /\ Readable
    /\ pos' = pos + 1
    /\ DevKmsgRecord(pos)
    /\ UNCHANGED watched

\* The loop of server_flush_dev_kmsg() ends at an overrun and at the end of the log.
FlushDevKmsg ==
    /\ pc = "flush"
    /\ \/ ReadRecord /\ pc' = "flush"
       \/ ReadOverrun /\ pc' = "loop"
       \/ ~Readable /\ pc' = "loop" /\ UNCHANGED <<pos, watched, kseqnum, journal, dropped>>
    /\ UNCHANGED <<klog, saved, epoch, base, count, scope>>

\* dispatch_dev_kmsg(): one record for each event
DispatchDevKmsg ==
    /\ pc = "loop" /\ watched
    /\ ReadRecord \/ ReadOverrun
    /\ UNCHANGED <<klog, pc, saved, epoch, base, count, scope>>

NewEpoch == epoch' = epoch + 1 /\ base' = saved /\ dropped' = {}

\* server_stop(): seqnum_save() overwrites the number, or fails, and the number stays.
Stop ==
    /\ pc = "loop"
    /\ count.stops < scope.stops
    /\ pc' = "down"
    /\ \/ /\ saved' = kseqnum
          /\ count' = [count EXCEPT !.stops = @ + 1]
          /\ UNCHANGED <<epoch, base, dropped>>
       \/ /\ count.faults < scope.faults
          /\ count' = [count EXCEPT !.stops = @ + 1, !.faults = @ + 1]
          /\ UNCHANGED saved
          /\ NewEpoch
    /\ UNCHANGED <<klog, pos, watched, kseqnum, journal, scope>>

Kill ==
    /\ pc # "down"
    /\ count.kills < scope.kills
    /\ pc' = "down"
    /\ count' = [count EXCEPT !.kills = @ + 1]
    /\ NewEpoch
    /\ UNCHANGED <<klog, pos, watched, kseqnum, saved, journal, scope>>

-----------------------------------------------------------------------------
(* Properties                                                              *)

\* Between two losses of the number (a kill, a file that could not be written), and so over
\* clean restarts too, kernel messages are stored in the kernel's order and none twice.
KernelOnce ==
    \A i, j \in DOMAIN journal :
       (i < j /\ journal[i].epoch = journal[j].epoch
              /\ journal[i].kind = "kernel" /\ journal[j].kind = "kernel")
       => journal[i].n < journal[j].n

\* Every message between the number an epoch began with and the number expected now is accounted
\* for exactly: stored, left out for its level, or counted by a "Missed" entry; and what is
\* counted as missed is no longer in the kernel's ring.
Accounts(x) == IF x.epoch # epoch THEN 0 ELSE IF x.kind = "missed" THEN x.n ELSE 1
Known == IF pc = "down" THEN saved ELSE kseqnum
StoredNow ==
    {journal[i].n : i \in {j \in DOMAIN journal : journal[j].epoch = epoch
                                                /\ journal[j].kind = "kernel"}}
KernelMissesTold ==
    /\ base + Cardinality(dropped) + Total([i \in DOMAIN journal |-> Accounts(journal[i])]) = Known
    /\ \A n \in (base .. Known - 1) \ (StoredNow \union dropped) : n < Oldest
=============================================================================
