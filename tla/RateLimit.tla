----------------------------- MODULE RateLimit ------------------------------
(***************************************************************************)
(* The rate limiter of journald (core/journald-rate-limit.c), as           *)
(* server_dispatch_message() of core/journald-server.c calls it for each   *)
(* message that carries the credentials of its sender.                     *)
(*                                                                         *)
(* There is one pool of counters for each class of priorities.  A pool's   *)
(* window opens with a message that finds no open window; as long as it is *)
(* open the pool passes a number of messages that depends on the free disk *)
(* space at the time of each message, drops the others and counts them.    *)
(* The first message after the window reports the count and opens the next *)
(* one.                                                                    *)
(***************************************************************************)
EXTENDS Naturals, Sequences, FiniteSets, ListOps

CONSTANTS
    Priorities,         \* the priorities they use, of 0..7
    MaxLevelStore,      \* s->max_level_store
    RateLimitInterval,  \* the configuration, in ticks of the clock ...
    RateLimitBurst,     \* ... and in messages
    DEFAULT_INTERVAL,   \* 30 s in the source
    DEFAULT_BURST,      \* 1000 in the source
    Space,              \* the values of available_space(), by their log2
    MaxTime,            \* bound: the last tick of the clock
    MaxMessages         \* bound: messages sent

ASSUME RateLimitAssumption ==
    /\ Priorities \subseteq 0..7
    /\ MaxLevelStore \in 0..7
    /\ RateLimitInterval \in Nat
    /\ RateLimitBurst \in Nat
    /\ DEFAULT_INTERVAL \in Nat \ {0}
    /\ DEFAULT_BURST \in Nat \ {0}
    /\ Space \subseteq 0..63
    /\ MaxTime \in Nat
    /\ MaxMessages \in Nat

VARIABLES
    now,     \* the monotonic clock; it never reads 0
    pools,   \* r->pools
    log      \* history: every call of journal_rate_limit_test()

limitVars == <<now, pools, log>>

Pools == 0..4

\* LOG_EMERG, LOG_ALERT and LOG_CRIT share a pool, and so do LOG_NOTICE and
\* LOG_INFO.
priority_map == [pri \in 0..7 |->
    CASE pri \in 0..2 -> 0
      [] pri = 3      -> 1
      [] pri = 4      -> 2
      [] pri \in 5..6 -> 3
      [] pri = 7      -> 4]

\* server_init() clears both settings when one of them is 0, and
\* journal_rate_limit_new() takes the defaults for what is 0.
ZeroSetting == RateLimitInterval = 0 \/ RateLimitBurst = 0

Interval == IF ZeroSetting THEN DEFAULT_INTERVAL ELSE RateLimitInterval

Burst == IF ZeroSetting THEN DEFAULT_BURST ELSE RateLimitBurst

\* The messages a window passes after its first one, when 2^k bytes are
\* available.
BurstModulate(k) == IF k <= 20 THEN Burst ELSE (Burst * (k - 20)) \div 4

-----------------------------------------------------------------------------

NewWindow == [begin |-> now, num |-> 1, suppressed |-> 0]

RateLimitInit ==
    /\ now = 1
    /\ pools = [q \in Pools |-> [begin |-> 0, num |-> 0, suppressed |-> 0]]
    /\ log = <<>>

Called(q, k, rl) ==
    log' = Append(log, [at |-> now, pool |-> q,
                        space |-> k, rl |-> rl])

\* The pool's first message.
FirstMessage(q, k) ==
    /\ pools[q].begin = 0
    /\ pools' = [pools EXCEPT ![q] = NewWindow]
    /\ Called(q, k, 1)

\* Mutants of NextWindow: the count of dropped messages is not reset; the
\* window restarts without its message being counted.
NextWindowKeepsCount(q, k) ==
    /\ pools[q].begin # 0
    /\ pools[q].begin + Interval < now
    /\ pools' = [pools EXCEPT ![q].begin = now, ![q].num = 1]
    /\ Called(q, k, 1 + pools[q].suppressed)

NextWindowUncounted(q, k) ==
    /\ pools[q].begin # 0
    /\ pools[q].begin + Interval < now
    /\ pools' = [pools EXCEPT ![q] = [NewWindow EXCEPT !.num = 0]]
    /\ Called(q, k, 1 + pools[q].suppressed)

\* The window is over: the message passes and the result tells how many
\* messages were dropped.
NextWindow(q, k) ==
    /\ pools[q].begin # 0
    /\ pools[q].begin + Interval < now
    /\ pools' = [pools EXCEPT ![q] = NewWindow]
    /\ Called(q, k, 1 + pools[q].suppressed)

InWindow(q) == pools[q].begin # 0 /\ pools[q].begin + Interval >= now

\* Mutant of Pass: a message that passes opens the window anew.
PassExtendsWindow(q, k) ==
    /\ InWindow(q)
    /\ pools[q].num <= BurstModulate(k)
    /\ pools' = [pools EXCEPT ![q].num = @ + 1, ![q].begin = now]
    /\ Called(q, k, 1)

\* The window is open and has room.
Pass(q, k) ==
    /\ InWindow(q)
    /\ pools[q].num <= BurstModulate(k)
    /\ pools' = [pools EXCEPT ![q].num = @ + 1]
    /\ Called(q, k, 1)

\* The window is open and full.
Drop(q, k) ==
    /\ InWindow(q)
    /\ pools[q].num > BurstModulate(k)
    /\ pools' = [pools EXCEPT ![q].suppressed = @ + 1]
    /\ Called(q, k, 0)

\* journal_rate_limit_test(), for a message that is to be stored at all.
Dispatch(priority, k) ==
    /\ Len(log) < MaxMessages
    /\ priority <= MaxLevelStore
    /\ LET q == priority_map[priority] IN
         \/ FirstMessage(q, k)
         \/ NextWindow(q, k)
         \/ Pass(q, k)
         \/ Drop(q, k)
    /\ UNCHANGED now

Tick ==
    /\ now < MaxTime
    /\ now' = now + 1
    /\ UNCHANGED <<pools, log>>

RateLimitNext ==
    \/ \E priority \in Priorities, k \in Space :
          Dispatch(priority, k)
    \/ Tick

RateLimitSpec == RateLimitInit /\ [][RateLimitNext]_limitVars

-----------------------------------------------------------------------------
(* Properties                                                              *)

\* The messages of pool q that were passed in the ticks lo..hi, and those of
\* them that the pool dropped.
Passed(q, lo, hi) ==
    {i \in DOMAIN log : /\ log[i].pool = q /\ log[i].rl > 0
                        /\ lo <= log[i].at /\ log[i].at <= hi}

Dropped(q) == {i \in DOMAIN log : log[i].pool = q /\ log[i].rl = 0}

Pool == [begin : Nat, num : Nat, suppressed : Nat]

Call == [at : Nat, pool : Pools, space : Space, rl : Nat]

\* Every variable has its type, and no window begins in the future.
RateLimitTypeOK ==
    /\ now \in Nat \ {0}
    /\ pools \in [Pools -> Pool]
    /\ log \in Seq(Call)
    /\ \A q \in Pools : pools[q].begin <= now

\* Message i was dropped after its pool had passed more than limit messages
\* within one interval that ends with it; whatever happened before the window
\* is forgotten.
DroppedAfter(i, limit) ==
    \E lo \in 0..log[i].at :
        /\ log[i].at <= lo + Interval
        /\ limit < Cardinality(Passed(log[i].pool, lo, log[i].at))

\* From 2 MB to 16 MB of free space burst_modulate() makes the burst smaller
\* than the configured one, down to 0 for a burst below 4.
BurstReduced(k) == k \in 21..23

\* A message is dropped only if its pool passed more messages than the burst
\* granted at that moment, within the one interval that ends with the message,
\* and more than the configured RateLimitBurst= too.  The second half excepts
\* the messages that come while 2 MB to 16 MB are free: the code drops those
\* after fewer messages than configured, which BurstGranted is about.
DropsJustified ==
    \A i \in DOMAIN log : log[i].rl = 0 =>
        /\ DroppedAfter(i, BurstModulate(log[i].space))
        /\ BurstReduced(log[i].space) \/ DroppedAfter(i, Burst)

\* What the manual says of RateLimitBurst=, and the table in burst_modulate(),
\* whose factors are never below 1: whatever the free space, no message is
\* dropped before its pool passed more than the configured burst within the
\* interval.  The code breaks it from 2 MB to 16 MB of free space.
BurstGranted ==
    \A i \in DOMAIN log : log[i].rl = 0 => DroppedAfter(i, Burst)

\* The most messages a window passes.
WindowLimit(limit) == \A k \in Space : BurstModulate(k) + 1 <= limit

\* However the messages fall, a stretch of time as long as the interval sees
\* fewer than two windows' worth of a pool's messages pass: windows never
\* overlap, and a stretch that meets two misses the message that opened the
\* first.
RateBounded ==
    \A limit \in 1..(MaxMessages + 1) : WindowLimit(limit) =>
        \A q \in Pools, t \in 0..MaxTime :
            Cardinality(Passed(q, t, t + Interval)) < 2 * limit

\* What "Suppressed %u messages" reports adds up: every dropped message is
\* reported once or still counted in the pool.
Reported(q) ==
    Total([i \in DOMAIN log |->
           IF log[i].pool = q /\ log[i].rl > 1 THEN log[i].rl - 1 ELSE 0])

SuppressedReported ==
    \A q \in Pools :
        Cardinality(Dropped(q)) = Reported(q) + pools[q].suppressed
=============================================================================
