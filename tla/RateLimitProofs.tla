-------------------------- MODULE RateLimitProofs ---------------------------
(***************************************************************************)
(* Proofs about RateLimit, for every configuration, any number of messages *)
(* and any course of the clock and of the free disk space.                 *)
(***************************************************************************)
EXTENDS RateLimit, Recursion, FiniteSetTheorems, TLAPS

-----------------------------------------------------------------------------
(* Counting the messages of a log                                          *)

\* The messages of pool q in the log L that were passed from lo on, and those
\* of them before hi.
Since(L, q, lo) ==
    {i \in DOMAIN L : L[i].pool = q /\ L[i].rl > 0 /\ lo <= L[i].at}

Before(L, q, lo, hi) == {i \in Since(L, q, lo) : L[i].at < hi}

Within(L, q, lo, hi) == {i \in Since(L, q, lo) : L[i].at <= hi}

\* A call that is recorded has its type.
LEMMA CallTypes ==
    ASSUME NEW L \in Seq(Call), NEW i \in DOMAIN L
    PROVE  L[i].at \in Nat /\ L[i].rl \in Nat /\ L[i].space \in Space
<1>1. L[i] \in Call
  OBVIOUS
<1> QED
  BY <1>1 DEF Call

\* Any set of messages of a log is finite.
LEMMA LogFinite ==
    ASSUME NEW L \in Seq(Call), NEW S \in SUBSET (DOMAIN L)
    PROVE  IsFiniteSet(S) /\ Cardinality(S) \in Nat
<1>1. DOMAIN L = 1..Len(L) /\ Len(L) \in Int /\ 1 \in Int
  OBVIOUS
<1>2. IsFiniteSet(DOMAIN L)
  BY <1>1, FS_Interval
<1>3. IsFiniteSet(S)
  BY <1>2, FS_Subset
<1> QED
  BY <1>3, FS_CardinalityType

\* A larger set of messages has no fewer members.
LEMMA LogSubset ==
    ASSUME NEW L \in Seq(Call), NEW S \in SUBSET (DOMAIN L), NEW T \in SUBSET S
    PROVE  Cardinality(T) <= Cardinality(S)
BY LogFinite, FS_Subset

\* What one more call does to a log.
LEMMA LogAppend ==
    ASSUME NEW L \in Seq(Call), NEW e \in Call, NEW M, M = Append(L, e)
    PROVE  /\ M \in Seq(Call)
           /\ DOMAIN M = DOMAIN L \cup {Len(M)}
           /\ Len(M) \notin DOMAIN L
           /\ M[Len(M)] = e
           /\ \A i \in DOMAIN L : M[i] = L[i]
OBVIOUS

\* A call that is dropped or of another pool leaves the passed messages of
\* pool q alone; a call that passes adds itself.
LEMMA CountPassed ==
    ASSUME NEW L \in Seq(Call), NEW e \in Call, NEW q, NEW lo \in Nat,
           e.pool = q, e.rl > 0, lo <= e.at
    PROVE  Cardinality(Since(Append(L, e), q, lo)) =
             Cardinality(Since(L, q, lo)) + 1
<1> DEFINE M == Append(L, e)
<1>1. Since(L, q, lo) \subseteq DOMAIN L
  BY DEF Since
<1>2. IsFiniteSet(Since(L, q, lo))
  BY <1>1, LogFinite
<1>3. Len(M) \notin Since(L, q, lo)
  BY <1>1, LogAppend
<1>4. Since(M, q, lo) = Since(L, q, lo) \cup {Len(M)}
  BY LogAppend DEF Since
<1> QED
  BY <1>2, <1>3, <1>4, FS_AddElement

\* A call that is dropped does not count as passed.
LEMMA CountDropped ==
    ASSUME NEW L \in Seq(Call), NEW e \in Call, NEW q, NEW lo \in Nat, e.rl = 0
    PROVE  Since(Append(L, e), q, lo) = Since(L, q, lo)
BY LogAppend DEF Since

\* A call later than hi does not change what was passed up to hi, and what was
\* passed is never forgotten.
LEMMA WithinAppend ==
    ASSUME NEW L \in Seq(Call), NEW e \in Call, NEW q, NEW lo \in Nat,
           NEW hi \in Nat
    PROVE  /\ Within(L, q, lo, hi) \subseteq Within(Append(L, e), q, lo, hi)
           /\ Cardinality(Within(L, q, lo, hi)) <=
                Cardinality(Within(Append(L, e), q, lo, hi))
<1>0. PICK M : M = Append(L, e)
  OBVIOUS
<1>1. Within(L, q, lo, hi) \subseteq Within(M, q, lo, hi)
  BY <1>0, LogAppend DEF Within, Since
<1>2. Within(M, q, lo, hi) \subseteq DOMAIN M /\ M \in Seq(Call)
  BY <1>0, LogAppend DEF Within, Since
<1> QED
  BY <1>0, <1>1, <1>2, LogSubset

\* A later call, or one of another pool, is not within the interval.
LEMMA WithinStays ==
    ASSUME NEW L \in Seq(Call), NEW e \in Call, NEW q, NEW lo \in Nat,
           NEW hi \in Nat, e.at > hi \/ e.pool # q
    PROVE  Within(Append(L, e), q, lo, hi) = Within(L, q, lo, hi)
<1>1. e.at \in Nat
  BY DEF Call
<1> QED
  BY <1>1, LogAppend DEF Within, Since

-----------------------------------------------------------------------------
(* What a pool's counters say of the log                                   *)

\* The window w of pool q is open: no call of the pool is later than its end,
\* num counts the calls it passed and the one that opened it is among them;
\* neither it nor a stretch that reaches back before it has passed too many.
Open(L, q, w) ==
    /\ \A i \in DOMAIN L : L[i].pool = q => L[i].at <= w.begin + Interval
    /\ Cardinality(Since(L, q, w.begin)) = w.num
    /\ \E i \in Since(L, q, w.begin) : L[i].at = w.begin
    /\ \A limit \in Nat \ {0} : WindowLimit(limit) =>
          /\ w.num <= limit
          /\ \A t \in Nat : w.begin <= t + Interval =>
                Cardinality(Before(L, q, t, w.begin)) < limit

Window(L, q, w) ==
    IF w.begin = 0 THEN \A i \in DOMAIN L : L[i].pool # q ELSE Open(L, q, w)

\* The constants are numbers.
LEMMA Constants ==
    /\ Interval \in Nat /\ Burst \in Nat
    /\ \A k \in Space : BurstModulate(k) \in Nat
<1>1. Interval \in Nat /\ Burst \in Nat
  BY RateLimitAssumption DEF Interval, Burst
<1>2. ASSUME NEW k \in Space PROVE BurstModulate(k) \in Nat
  <2>1. k \in 0..63
    BY RateLimitAssumption
  <2>2. CASE k <= 20
    BY <1>1, <2>2 DEF BurstModulate
  <2>3. CASE k > 20
    <3>1. Burst * (k - 20) \in Nat
      BY <1>1, <2>1, <2>3
    <3>2. \A n \in Nat : n \div 4 \in Nat
      OBVIOUS
    <3> QED
      BY <2>1, <2>3, <3>1, <3>2 DEF BurstModulate
  <2> QED
    BY <2>1, <2>2, <2>3
<1> QED
  BY <1>1, <1>2

\* A call of another pool does not concern this one.
LEMMA OtherPool ==
    ASSUME NEW L \in Seq(Call), NEW e \in Call, NEW M, M = Append(L, e),
           NEW q, e.pool # q, NEW w \in Pool, Window(L, q, w)
    PROVE  Window(M, q, w)
<1>1. \A lo \in Nat : Since(M, q, lo) = Since(L, q, lo)
  BY LogAppend DEF Since
<1>2. \A lo \in Nat, hi \in Nat : Before(M, q, lo, hi) = Before(L, q, lo, hi)
  BY LogAppend DEF Before, Since
<1>3. w.begin \in Nat
  BY DEF Pool
<1>4. CASE w.begin = 0
  BY <1>4, LogAppend DEF Window
<1>5. CASE w.begin # 0
  <2>1. Open(L, q, w)
    BY <1>5 DEF Window
  <2>2. \A i \in DOMAIN M : M[i].pool = q => M[i].at <= w.begin + Interval
    BY <2>1, LogAppend DEF Open
  <2>3. \E i \in Since(M, q, w.begin) : M[i].at = w.begin
    BY <1>1, <1>3, <2>1, LogAppend DEF Open, Since
  <2>4. Open(M, q, w)
    BY <1>1, <1>2, <1>3, <2>1, <2>2, <2>3 DEF Open
  <2> QED
    BY <1>5, <2>4 DEF Window
<1> QED
  BY <1>4, <1>5

\* A call that opens a window, the first of the pool or one later than the end
\* of the last window.
LEMMA OpensWindow ==
    ASSUME NEW L \in Seq(Call), NEW e \in Call,
           NEW q, e.pool = q, e.rl > 0, e.at # 0, NEW w \in Pool,
           Window(L, q, w), w.begin # 0 => w.begin + Interval < e.at,
           NEW v \in Pool, v.begin = e.at, v.num = 1
    PROVE  Open(Append(L, e), q, v)
<1>0. PICK M : M = Append(L, e)
  OBVIOUS
<1>1. /\ e.at \in Nat /\ w.begin \in Nat /\ w.num \in Nat /\ Interval \in Nat
      /\ e.rl \in Nat
  BY Constants DEF Call, Pool
<1>2. \A i \in DOMAIN L : L[i].pool = q => L[i].at \in Nat /\ L[i].at < e.at
  <2> SUFFICES ASSUME NEW i \in DOMAIN L, L[i].pool = q
               PROVE  L[i].at \in Nat /\ L[i].at < e.at
    OBVIOUS
  <2>1. w.begin # 0 /\ L[i].at <= w.begin + Interval
    BY DEF Window, Open
  <2> QED
    BY <1>1, <2>1, CallTypes
<1>3. Since(M, q, e.at) = {Len(M)}
  BY <1>1, <1>2, <1>0, LogAppend DEF Since
<1>4. \A i \in DOMAIN M : M[i].pool = q => M[i].at <= v.begin + Interval
  BY <1>1, <1>2, <1>0, LogAppend
<1>5. Cardinality(Since(M, q, v.begin)) = v.num
  BY <1>3, FS_Singleton
<1>6. \E i \in Since(M, q, v.begin) : M[i].at = v.begin
  BY <1>3, <1>0, LogAppend
<1>7. ASSUME NEW limit \in Nat \ {0}, WindowLimit(limit),
             NEW t \in Nat, v.begin <= t + Interval
      PROVE  Cardinality(Before(M, q, t, v.begin)) < limit
  <2>1. Before(M, q, t, v.begin) \subseteq Before(L, q, t, v.begin)
    BY <1>1, <1>0, LogAppend DEF Before, Since
  <2>2. CASE w.begin = 0
    <3>1. Before(M, q, t, v.begin) = {}
      BY <2>1, <2>2 DEF Before, Since, Window
    <3> QED
      BY <3>1, FS_EmptySet
  <2>3. CASE w.begin # 0
    <3>1. Open(L, q, w) /\ w.begin < t
      BY <1>1, <1>7, <2>3 DEF Window
    <3>2. PICK i \in Since(L, q, w.begin) : L[i].at = w.begin
      BY <3>1 DEF Open
    <3>3. Before(M, q, t, v.begin) \subseteq Since(L, q, w.begin) \ {i}
      <4>1. Before(M, q, t, v.begin) \subseteq Since(L, q, t)
        BY <2>1 DEF Before
      <4>2. Since(L, q, t) \subseteq Since(L, q, w.begin) \ {i}
        BY <1>1, <3>1, <3>2, CallTypes DEF Since
      <4> QED
        BY <4>1, <4>2
    <3>4. /\ Since(L, q, w.begin) \subseteq DOMAIN L
          /\ IsFiniteSet(Since(L, q, w.begin))
      BY LogFinite DEF Since
    <3>5. Cardinality(Since(L, q, w.begin) \ {i}) = w.num - 1
      <4>1. Cardinality(Since(L, q, w.begin)) = w.num
        BY <3>1 DEF Open
      <4>2. Cardinality(Since(L, q, w.begin) \ {i}) =
              Cardinality(Since(L, q, w.begin)) - 1
        BY <3>2, <3>4, FS_RemoveElement
      <4> QED
        BY <4>1, <4>2
    <3>6. Since(L, q, w.begin) \ {i} \subseteq DOMAIN L
      BY <3>4
    <3>7. Cardinality(Before(M, q, t, v.begin)) <= w.num - 1
      <4> DEFINE S == Since(L, q, w.begin) \ {i}
                 T == Before(M, q, t, v.begin)
      <4>1. IsFiniteSet(S) /\ T \in SUBSET S
        BY <3>3, <3>4, FS_RemoveElement
      <4> HIDE DEF S, T
      <4>2. Cardinality(T) <= Cardinality(S)
        BY <4>1, FS_Subset
      <4> QED
        BY <3>5, <4>2 DEF S, T
    <3>8. w.num <= limit
      BY <1>7, <3>1 DEF Open
    <3>9. Cardinality(Before(M, q, t, v.begin)) \in Nat
      BY <3>3, <3>6, LogFinite
    <3> QED
      BY <1>1, <3>7, <3>8, <3>9
  <2> QED
    BY <2>2, <2>3
<1>8. \A limit \in Nat \ {0} : v.num <= limit
  OBVIOUS
<1> QED
  BY <1>0, <1>4, <1>5, <1>6, <1>7, <1>8 DEF Open

\* A call in an open window, passed and counted or dropped.
LEMMA StaysOpen ==
    ASSUME NEW L \in Seq(Call), NEW e \in Call,
           NEW q, e.pool = q, NEW w \in Pool, Open(L, q, w),
           w.begin <= e.at, e.at <= w.begin + Interval,
           NEW v \in Pool, v.begin = w.begin,
           \/ e.rl = 0 /\ v.num = w.num
           \/ e.rl > 0 /\ v.num = w.num + 1 /\ w.num <= BurstModulate(e.space)
    PROVE  Open(Append(L, e), q, v)
<1>0. PICK M : M = Append(L, e)
  OBVIOUS
<1>1. /\ e.at \in Nat /\ w.begin \in Nat /\ w.num \in Nat /\ Interval \in Nat
      /\ e.rl \in Nat /\ e.space \in Space /\ BurstModulate(e.space) \in Nat
  BY Constants DEF Call, Pool
<1>2. \A i \in DOMAIN M : M[i].pool = q => M[i].at <= v.begin + Interval
  BY <1>0, LogAppend DEF Open
<1>3. Cardinality(Since(M, q, w.begin)) = v.num
  <2>1. Cardinality(Since(L, q, w.begin)) = w.num
    BY DEF Open
  <2>2. CASE e.rl = 0
    BY <1>1, <2>1, <2>2, <1>0, CountDropped
  <2>3. CASE e.rl > 0
    BY <1>1, <2>1, <2>3, <1>0, CountPassed
  <2> QED
    BY <2>2, <2>3
<1>4. \E i \in Since(M, q, v.begin) : M[i].at = v.begin
  <2>1. PICK i \in Since(L, q, w.begin) : L[i].at = w.begin
    BY DEF Open
  <2>2. i \in Since(M, q, w.begin) /\ M[i] = L[i]
    BY <2>1, <1>0, LogAppend DEF Since
  <2> QED
    BY <2>1, <2>2
<1>5. ASSUME NEW limit \in Nat \ {0}, WindowLimit(limit) PROVE v.num <= limit
  <2>1. w.num <= limit /\ BurstModulate(e.space) + 1 <= limit
    BY <1>1, <1>5 DEF Open, WindowLimit
  <2> QED
    BY <1>1, <2>1
<1>6. ASSUME NEW limit \in Nat \ {0}, WindowLimit(limit),
             NEW t \in Nat, v.begin <= t + Interval
      PROVE  Cardinality(Before(M, q, t, v.begin)) < limit
  <2>1. Before(M, q, t, v.begin) = Before(L, q, t, w.begin)
    BY <1>1, <1>0, LogAppend, CallTypes DEF Before, Since
  <2> QED
    BY <1>6, <2>1 DEF Open
<1> QED
  BY <1>0, <1>2, <1>3, <1>4, <1>5, <1>6 DEF Open

\* A stretch of time that ends in an open window or later.
LEMMA StretchBound ==
    ASSUME NEW L \in Seq(Call), NEW q, NEW w \in Pool, Open(L, q, w),
           NEW limit \in Nat \ {0}, WindowLimit(limit),
           NEW t \in Nat, w.begin <= t + Interval
    PROVE  Cardinality(Within(L, q, t, t + Interval)) < 2 * limit
<1> DEFINE S == Before(L, q, t, w.begin)
           T == Since(L, q, w.begin)
           U == Within(L, q, t, t + Interval)
<1>1. w.begin \in Nat /\ w.num \in Nat /\ Interval \in Nat
  BY Constants DEF Pool
<1>2. S \subseteq DOMAIN L /\ T \subseteq DOMAIN L /\ U \subseteq S \cup T
  BY <1>1, CallTypes DEF Before, Since, Within
<1>3. Cardinality(S) < limit /\ Cardinality(T) = w.num /\ w.num <= limit
  BY DEF Open
<1> HIDE DEF S, T, U
<1>4. IsFiniteSet(S) /\ IsFiniteSet(T) /\ Cardinality(S) \in Nat
  BY <1>2, LogFinite
<1>5. /\ IsFiniteSet(S \cup T) /\ Cardinality(S \cap T) \in Nat
      /\ Cardinality(S \cup T) =
           Cardinality(S) + Cardinality(T) - Cardinality(S \cap T)
  <2>1. S \cap T \subseteq DOMAIN L
    BY <1>2
  <2> QED
    BY <1>4, <2>1, FS_Union, LogFinite
<1>6. Cardinality(U) <= Cardinality(S \cup T) /\ Cardinality(U) \in Nat
  BY <1>2, <1>5, FS_Subset, FS_CardinalityType
<1>7. Cardinality(U) < 2 * limit
  BY <1>1, <1>3, <1>4, <1>5, <1>6
<1> QED
  BY <1>7 DEF U

-----------------------------------------------------------------------------
(* The invariant                                                           *)

\* Whatever was dropped met a window that had passed more than the burst of
\* that moment.
WindowsFull ==
    \A i \in DOMAIN log : log[i].rl = 0 =>
        DroppedAfter(i, BurstModulate(log[i].space))

\* The counters of every pool describe the log, and so far nothing was dropped
\* or passed that should not have been.
LimitInv ==
    /\ RateLimitTypeOK
    /\ \A i \in DOMAIN log : log[i].at <= now
    /\ \A q \in Pools : Window(log, q, pools[q])
    /\ WindowsFull
    /\ RateBounded

\* The step logs the call e and leaves v as the counters of its pool q.
Recorded(e, v, q) ==
    /\ log' = Append(log, e)
    /\ pools' = [pools EXCEPT ![q] = v]
    /\ e.pool = q /\ e.at = now
    /\ v.begin # 0 /\ v.begin <= now
    /\ Open(Append(log, e), q, v)
    /\ e.rl = 0 => BurstModulate(e.space) < v.num /\ now <= v.begin + Interval

\* Every call is logged, leaves its pool with an open window, and is dropped
\* only if the window is full.
LEMMA CallStep ==
    ASSUME LimitInv, NEW priority \in Priorities,
           NEW k \in Space, Dispatch(priority, k)
    PROVE  \E e \in Call, v \in Pool, q \in Pools : Recorded(e, v, q)
<1>1. PICK q \in Pools : /\ \/ FirstMessage(q, k)
                            \/ NextWindow(q, k)
                            \/ Pass(q, k)
                            \/ Drop(q, k)
  <2>1. priority \in 0..7
    BY RateLimitAssumption
  <2>2. priority_map[priority] \in Pools
    BY <2>1 DEF priority_map, Pools
  <2> QED
    BY <2>2 DEF Dispatch
<1> DEFINE e(rl) == [at |-> now, pool |-> q,
                     space |-> k, rl |-> rl]
<1>2. /\ now \in Nat \ {0} /\ log \in Seq(Call) /\ pools \in [Pools -> Pool]
      /\ pools[q] \in Pool /\ pools[q].begin <= now /\ Window(log, q, pools[q])
      /\ pools[q].begin \in Nat /\ pools[q].num \in Nat
      /\ pools[q].suppressed \in Nat
  BY DEF LimitInv, RateLimitTypeOK, Pool
<1>3. \A rl \in Nat : /\ e(rl) \in Call /\ e(rl).pool = q /\ e(rl).at = now
                      /\ e(rl).rl = rl /\ e(rl).space = k
  BY <1>2 DEF Call
<1>4. NewWindow \in Pool /\ NewWindow.begin = now /\ NewWindow.num = 1
  BY <1>2 DEF NewWindow, Pool
<1> HIDE DEF e
<1>5. CASE FirstMessage(q, k)
  <2>1. log' = Append(log, e(1)) /\ pools' = [pools EXCEPT ![q] = NewWindow]
    BY <1>5 DEF FirstMessage, Called, e
  <2>2. pools[q].begin = 0
    BY <1>5 DEF FirstMessage
  <2>3. Open(Append(log, e(1)), q, NewWindow)
    BY <1>2, <1>3, <1>4, <2>2, OpensWindow
  <2>4. Recorded(e(1), NewWindow, q)
    BY <1>2, <1>3, <1>4, <2>1, <2>3 DEF Recorded
  <2> QED
    BY <1>3, <1>4, <2>4
<1>6. CASE NextWindow(q, k)
  <2> DEFINE rl == 1 + pools[q].suppressed
  <2>1. log' = Append(log, e(rl)) /\ pools' = [pools EXCEPT ![q] = NewWindow]
    BY <1>6 DEF NextWindow, Called, e
  <2>2. pools[q].begin + Interval < now /\ rl \in Nat /\ rl > 0
    BY <1>2, <1>6 DEF NextWindow
  <2> HIDE DEF rl
  <2>3. Open(Append(log, e(rl)), q, NewWindow)
    BY <1>2, <1>3, <1>4, <2>2, OpensWindow
  <2>4. Recorded(e(rl), NewWindow, q)
    BY <1>2, <1>3, <1>4, <2>1, <2>2, <2>3 DEF Recorded
  <2> QED
    BY <1>3, <1>4, <2>2, <2>4
<1>7. CASE Pass(q, k)
  <2> DEFINE v == [pools[q] EXCEPT !.num = @ + 1]
  <2>1. log' = Append(log, e(1)) /\ pools' = [pools EXCEPT ![q] = v]
    BY <1>2, <1>7 DEF Pass, Called, e
  <2>2. /\ pools[q].begin # 0 /\ now <= pools[q].begin + Interval
        /\ pools[q].num <= BurstModulate(k)
    BY <1>2, <1>7, Constants DEF Pass, InWindow
  <2>3. v \in Pool /\ v.begin = pools[q].begin /\ v.num = pools[q].num + 1
    BY <1>2, SMTT(20) DEF Pool
  <2>4. Open(log, q, pools[q])
    BY <1>2, <2>2 DEF Window
  <2> HIDE DEF v
  <2>a. /\ e(1) \in Call /\ e(1).pool = q /\ e(1).at = now
        /\ e(1).rl > 0 /\ e(1).space = k
    BY <1>3
  <2>b. /\ pools[q].begin <= e(1).at /\ e(1).at <= pools[q].begin + Interval
        /\ pools[q].num <= BurstModulate(e(1).space)
    BY <1>2, <2>2, <2>a
  <2>5. Open(Append(log, e(1)), q, v)
    BY <1>2, <2>3, <2>4, <2>a, <2>b, StaysOpen
  <2>6. Recorded(e(1), v, q)
    BY <1>2, <1>3, <2>1, <2>2, <2>3, <2>5 DEF Recorded
  <2> QED
    BY <1>3, <2>3, <2>6
<1>8. CASE Drop(q, k)
  <2> DEFINE v == [pools[q] EXCEPT !.suppressed = @ + 1]
  <2>1. log' = Append(log, e(0)) /\ pools' = [pools EXCEPT ![q] = v]
    BY <1>2, <1>8 DEF Drop, Called, e
  <2>2. /\ pools[q].begin # 0 /\ now <= pools[q].begin + Interval
        /\ BurstModulate(k) < pools[q].num
    BY <1>2, <1>8, Constants DEF Drop, InWindow
  <2>3. v \in Pool /\ v.begin = pools[q].begin /\ v.num = pools[q].num
    BY <1>2 DEF Pool
  <2>4. Open(log, q, pools[q])
    BY <1>2, <2>2 DEF Window
  <2> HIDE DEF v
  <2>5. Open(Append(log, e(0)), q, v)
    BY <1>2, <1>3, <2>2, <2>3, <2>4, StaysOpen
  <2>6. Recorded(e(0), v, q)
    BY <1>2, <1>3, <2>1, <2>2, <2>3, <2>5 DEF Recorded
  <2> QED
    BY <1>3, <2>3, <2>6
<1> QED
  BY <1>1, <1>5, <1>6, <1>7, <1>8

\* The properties, in terms of a log.
Justified(L, i) ==
    \E lo \in 0..L[i].at :
        /\ L[i].at <= lo + Interval
        /\ BurstModulate(L[i].space) <
             Cardinality(Within(L, L[i].pool, lo, L[i].at))

\* The properties, as facts about the log.
LEMMA PropertiesOfLog ==
    /\ WindowsFull <=> \A i \in DOMAIN log : log[i].rl = 0 => Justified(log, i)
    /\ \A q, lo, hi : Passed(q, lo, hi) = Within(log, q, lo, hi)
<1>1. \A q, lo, hi : Passed(q, lo, hi) = Within(log, q, lo, hi)
  BY DEF Passed, Within, Since
<1> QED
  BY <1>1 DEF WindowsFull, DroppedAfter, Justified

\* A call that is recorded with its outcome keeps the invariant.
LEMMA CallKeepsInv ==
    ASSUME LimitInv, now' = now, NEW e \in Call, NEW v \in Pool, NEW q \in Pools,
           Recorded(e, v, q)
    PROVE  LimitInv'
<1>1. /\ now \in Nat \ {0} /\ log \in Seq(Call) /\ pools \in [Pools -> Pool]
      /\ \A r \in Pools : pools[r].begin <= now
      /\ \A i \in DOMAIN log : log[i].at <= now
  BY DEF LimitInv, RateLimitTypeOK
<1>2. PICK M : M = Append(log, e)
  OBVIOUS
<1>3. /\ log' = M /\ pools' = [pools EXCEPT ![q] = v] /\ Open(M, q, v)
      /\ e.pool = q /\ e.at = now /\ v.begin \in Nat /\ v.begin <= now
      /\ v.begin # 0
  BY <1>2 DEF Recorded, Pool
<1>4. M \in Seq(Call) /\ \A i \in DOMAIN M : M[i].at <= now
  BY <1>1, <1>2, <1>3, LogAppend
<1>5. RateLimitTypeOK'
  BY <1>1, <1>3, <1>4 DEF RateLimitTypeOK
<1>6. \A r \in Pools : Window(M, r, pools'[r])
  <2>1. Window(M, q, pools'[q])
    BY <1>1, <1>3 DEF Window
  <2>2. ASSUME NEW r \in Pools, r # q PROVE Window(M, r, pools'[r])
    <3>1. pools'[r] = pools[r] /\ pools[r] \in Pool /\ Window(log, r, pools[r])
      BY <1>1, <1>3, <2>2 DEF LimitInv
    <3> QED
      BY <1>1, <1>2, <1>3, <2>2, <3>1, OtherPool
  <2> QED
    BY <2>1, <2>2
<1>7. WindowsFull'
  <2>1. ASSUME NEW i \in DOMAIN log, log[i].rl = 0 PROVE Justified(M, i)
    <3>1. PICK lo \in 0..log[i].at :
            /\ log[i].at <= lo + Interval
            /\ BurstModulate(log[i].space) <
                 Cardinality(Within(log, log[i].pool, lo, log[i].at))
      BY <2>1, PropertiesOfLog DEF LimitInv, Justified
    <3>2. /\ M[i] = log[i] /\ log[i].at \in Nat /\ lo \in Nat
          /\ BurstModulate(log[i].space) \in Nat
      BY <1>1, <1>2, CallTypes, LogAppend, Constants
    <3>3. /\ Cardinality(Within(log, log[i].pool, lo, log[i].at)) <=
               Cardinality(Within(M, log[i].pool, lo, log[i].at))
          /\ Within(M, log[i].pool, lo, log[i].at) \subseteq DOMAIN M
          /\ Within(log, log[i].pool, lo, log[i].at) \subseteq DOMAIN log
      <4>1. Cardinality(Within(log, log[i].pool, lo, log[i].at)) <=
              Cardinality(Within(M, log[i].pool, lo, log[i].at))
        BY <1>1, <1>2, <3>2, WithinAppend
      <4> QED
        BY <4>1 DEF Within, Since
    <3>4. /\ Cardinality(Within(log, log[i].pool, lo, log[i].at)) \in Nat
          /\ Cardinality(Within(M, log[i].pool, lo, log[i].at)) \in Nat
      BY <1>1, <1>4, <3>3, LogFinite
    <3> QED
      BY <3>1, <3>2, <3>3, <3>4 DEF Justified
  <2>2. ASSUME e.rl = 0 PROVE Justified(M, Len(M))
    <3>1. /\ M[Len(M)] = e
          /\ BurstModulate(e.space) < v.num /\ e.at <= v.begin + Interval
      BY <1>1, <1>2, <1>3, <2>2, LogAppend DEF Recorded
    <3>2. Within(M, q, v.begin, e.at) = Since(M, q, v.begin)
      BY <1>3, <1>4 DEF Within, Since
    <3>3. Cardinality(Within(M, q, v.begin, e.at)) = v.num
      BY <1>3, <3>2 DEF Open
    <3>4. v.begin \in 0..e.at
      BY <1>1, <1>3
    <3> QED
      BY <1>3, <3>1, <3>3, <3>4 DEF Justified
  <2>3. \A i \in DOMAIN M : M[i].rl = 0 => Justified(M, i)
    BY <1>1, <1>2, <2>1, <2>2, LogAppend
  <2>4. (WindowsFull <=> \A i \in DOMAIN log :
                              log[i].rl = 0 => Justified(log, i))'
    BY PropertiesOfLog, PTL
  <2> QED
    BY <1>3, <2>3, <2>4
<1>8. RateBounded'
  <2> SUFFICES ASSUME NEW limit \in 1..(MaxMessages + 1), WindowLimit(limit),
                      NEW r \in Pools, NEW t \in 0..MaxTime
               PROVE  Cardinality(Within(M, r, t, t + Interval)) < 2 * limit
    BY <1>3 DEF RateBounded, Passed, Within, Since
  <2>1. /\ limit \in Nat \ {0} /\ t \in Nat /\ t + Interval \in Nat
        /\ Interval \in Nat
    BY Constants, RateLimitAssumption
  <2>2. CASE r = q /\ v.begin <= t + Interval
    BY <1>3, <1>4, <2>1, <2>2, StretchBound
  <2>3. CASE ~(r = q /\ v.begin <= t + Interval)
    <3>1. e.at > t + Interval \/ e.pool # r
      BY <1>1, <1>3, <2>1, <2>3
    <3>2. Within(M, r, t, t + Interval) = Within(log, r, t, t + Interval)
      BY <1>1, <1>2, <2>1, <3>1, WithinStays
    <3>3. Cardinality(Within(log, r, t, t + Interval)) < 2 * limit
      BY PropertiesOfLog DEF LimitInv, RateBounded
    <3> QED
      BY <3>2, <3>3
  <2> QED
    BY <2>2, <2>3
<1> QED
  BY <1>3, <1>4, <1>5, <1>6, <1>7, <1>8 DEF LimitInv

\* The invariant of the rate limiter.
THEOREM LimitInvariant == RateLimitSpec => []LimitInv
<1>1. RateLimitInit => LimitInv
  <2> SUFFICES ASSUME RateLimitInit PROVE LimitInv
    OBVIOUS
  <2>1. log = <<>> /\ DOMAIN log = {} /\ now = 1
    BY DEF RateLimitInit
  <2>2. RateLimitTypeOK
    BY DEF RateLimitInit, RateLimitTypeOK, Pool
  <2>3. \A q \in Pools : Window(log, q, pools[q])
    BY <2>1 DEF RateLimitInit, Window
  <2>4. WindowsFull
    BY <2>1 DEF WindowsFull
  <2>5. \A q, lo, hi : Passed(q, lo, hi) = {}
    BY <2>1 DEF Passed
  <2>6. RateBounded
    BY <2>5, FS_EmptySet, RateLimitAssumption DEF RateBounded
  <2> QED
    BY <2>1, <2>2, <2>3, <2>4, <2>6 DEF LimitInv
<1>2. LimitInv /\ [RateLimitNext]_limitVars => LimitInv'
  <2> SUFFICES ASSUME LimitInv, [RateLimitNext]_limitVars PROVE LimitInv'
    OBVIOUS
  <2>1. ASSUME NEW priority \in Priorities,
               NEW k \in Space, Dispatch(priority, k)
        PROVE  LimitInv'
    <3>1. now' = now
      BY <2>1 DEF Dispatch
    <3>2. \E e \in Call, v \in Pool, q \in Pools : Recorded(e, v, q)
      BY <2>1, CallStep
    <3> QED
      BY <3>1, <3>2, CallKeepsInv
  <2>2. CASE Tick \/ UNCHANGED limitVars
    <3>1. /\ log' = log /\ pools' = pools /\ now' \in Nat \ {0} /\ now <= now'
          /\ log \in Seq(Call) /\ now \in Nat
      BY <2>2 DEF Tick, limitVars, LimitInv, RateLimitTypeOK
    <3>2. RateLimitTypeOK'
      BY <3>1 DEF LimitInv, RateLimitTypeOK, Pool
    <3>3. \A i \in DOMAIN log : log[i].at <= now'
      BY <3>1, CallTypes DEF LimitInv
    <3>4. WindowsFull' /\ RateBounded'
      BY <3>1 DEF LimitInv, WindowsFull, DroppedAfter, RateBounded, Passed
    <3> QED
      BY <3>1, <3>2, <3>3, <3>4 DEF LimitInv
  <2> QED
    BY <2>1, <2>2 DEF RateLimitNext
<1> QED
  BY <1>1, <1>2, PTL DEF RateLimitSpec

\* From 16 MB of free space on, and up to 2 MB, the granted burst is at least
\* the configured one.
LEMMA GrantedBurst ==
    ASSUME NEW k \in Space, ~BurstReduced(k)
    PROVE  Burst <= BurstModulate(k)
<1>1. Burst \in Nat /\ k \in Nat /\ BurstModulate(k) \in Nat
  BY Constants, RateLimitAssumption
<1>2. CASE k <= 20
  BY <1>1, <1>2 DEF BurstModulate
<1>3. CASE k >= 24
  <2>1. ~(k <= 20) /\ k - 20 \in Nat /\ k - 20 >= 4
    BY <1>1, <1>3
  <2>2. PICK d \in Nat : d = k - 20
    BY <2>1
  <2>3. Burst * d >= Burst * 4 /\ Burst * d \in Nat
    BY <1>1, <2>1, <2>2
  <2>4. PICK p \in Nat : p = Burst * d
    BY <2>3
  <2>5. p \div 4 >= Burst
    BY <1>1, <2>3, <2>4
  <2> QED
    BY <2>1, <2>2, <2>4, <2>5 DEF BurstModulate
<1> QED
  BY <1>1, <1>2, <1>3 DEF BurstReduced

\* journal_rate_limit_test() drops a message only in a window that has passed
\* more than the burst granted at that moment, and more than RateLimitBurst=
\* too unless 2 MB to 16 MB are free.
THEOREM DropsAreJustified == RateLimitSpec => []DropsJustified
<1>1. LimitInv => DropsJustified
  <2> SUFFICES ASSUME LimitInv, NEW i \in DOMAIN log, log[i].rl = 0
               PROVE  /\ DroppedAfter(i, BurstModulate(log[i].space))
                      /\ BurstReduced(log[i].space) \/ DroppedAfter(i, Burst)
    BY DEF DropsJustified
  <2>1. DroppedAfter(i, BurstModulate(log[i].space))
    BY DEF LimitInv, WindowsFull
  <2>2. ASSUME ~BurstReduced(log[i].space) PROVE DroppedAfter(i, Burst)
    <3>1. log \in Seq(Call) /\ log[i].space \in Space
      BY CallTypes DEF LimitInv, RateLimitTypeOK, Call
    <3>2. /\ Burst <= BurstModulate(log[i].space)
          /\ Burst \in Nat /\ BurstModulate(log[i].space) \in Nat
      BY <2>2, <3>1, GrantedBurst, Constants
    <3>3. PICK lo \in 0..log[i].at :
            /\ log[i].at <= lo + Interval
            /\ BurstModulate(log[i].space) <
                 Cardinality(Passed(log[i].pool, lo, log[i].at))
      BY <2>1 DEF DroppedAfter
    <3>4. Passed(log[i].pool, lo, log[i].at) \subseteq DOMAIN log
      BY DEF Passed
    <3>5. Cardinality(Passed(log[i].pool, lo, log[i].at)) \in Nat
      BY <3>1, <3>4, LogFinite
    <3>6. Burst < Cardinality(Passed(log[i].pool, lo, log[i].at))
      BY <3>2, <3>3, <3>5
    <3> QED
      BY <3>3, <3>6 DEF DroppedAfter
  <2> QED
    BY <2>1, <2>2
<1> QED
  BY <1>1, LimitInvariant, PTL

\* journal_rate_limit_test() keeps every stretch of one interval below two
\* bursts, however the clock and the disk space change between its calls.
THEOREM RateIsBounded == RateLimitSpec => []RateBounded
BY LimitInvariant, PTL DEF LimitInv

-----------------------------------------------------------------------------
(* What is reported of the dropped messages                                *)

\* What the call c reports to pool q, and the reports and the dropped messages
\* of a log.
Report(c, q) == IF c.pool = q /\ c.rl > 1 THEN c.rl - 1 ELSE 0

Reports(L, q) == [i \in DOMAIN L |-> Report(L[i], q)]

Drops(L, q) == {i \in DOMAIN L : L[i].pool = q /\ L[i].rl = 0}

\* One more call, and what it adds to the reports and to the dropped messages.
LEMMA ReportsAppend ==
    ASSUME NEW L \in Seq(Call), NEW e \in Call, NEW q
    PROVE  /\ Report(e, q) \in Nat
           /\ Total(Reports(L, q)) \in Nat
           /\ Total(Reports(Append(L, e), q)) = Total(Reports(L, q)) + Report(e, q)
<1>0. PICK M : M = Append(L, e)
  OBVIOUS
<1>1. \A c \in Call : Report(c, q) \in Nat
  BY DEF Report, Call
<1>2. Reports(L, q) \in Seq(Nat)
  BY <1>1 DEF Reports
<1>3. Reports(M, q) = Append(Reports(L, q), Report(e, q))
  BY <1>0, LogAppend DEF Reports
<1> HIDE DEF Reports, Report
<1> QED
  BY <1>0, <1>1, <1>2, <1>3, SumAppend

\* One more call is one more drop, if it was dropped.
LEMMA DropsAppend ==
    ASSUME NEW L \in Seq(Call), NEW e \in Call, NEW q
    PROVE  /\ Cardinality(Drops(L, q)) \in Nat
           /\ e.pool = q /\ e.rl = 0 =>
                Cardinality(Drops(Append(L, e), q)) = Cardinality(Drops(L, q)) + 1
           /\ ~(e.pool = q /\ e.rl = 0) => Drops(Append(L, e), q) = Drops(L, q)
<1>0. PICK M : M = Append(L, e)
  OBVIOUS
<1>1. Drops(L, q) \subseteq DOMAIN L
  BY DEF Drops
<1>2. IsFiniteSet(Drops(L, q)) /\ Cardinality(Drops(L, q)) \in Nat
  BY <1>1, LogFinite
<1>3. Len(M) \notin Drops(L, q)
  BY <1>0, <1>1, LogAppend
<1>4. CASE e.pool = q /\ e.rl = 0
  <2>1. Drops(M, q) = Drops(L, q) \cup {Len(M)}
    BY <1>0, <1>4, LogAppend DEF Drops
  <2>2. Cardinality(Drops(M, q)) = Cardinality(Drops(L, q)) + 1
    BY <1>2, <1>3, <2>1, FS_AddElement
  <2> QED
    BY <1>0, <1>2, <1>4, <2>2
<1>5. CASE ~(e.pool = q /\ e.rl = 0)
  <2>1. Drops(M, q) = Drops(L, q)
    BY <1>0, <1>5, LogAppend DEF Drops
  <2> QED
    BY <1>0, <1>2, <1>5, <2>1
<1> QED
  BY <1>4, <1>5

\* The count of pool q agrees with the log.
Counted(L, q, w) == Cardinality(Drops(L, q)) = Total(Reports(L, q)) + w.suppressed

\* The property, as a fact about each pool.
LEMMA SuppressedByPool ==
    /\ SuppressedReported <=> \A r \in Pools : Counted(log, r, pools[r])
    /\ SuppressedReported' <=> \A r \in Pools : Counted(log', r, pools'[r])
BY DEF SuppressedReported, Counted, Dropped, Drops, Reported, Reports, Report

\* A call keeps the count: a dropped one is counted, and what is reported is
\* no longer counted.
LEMMA CountedAfter ==
    ASSUME NEW L \in Seq(Call), NEW e \in Call, NEW q, NEW w \in Pool, NEW v \in Pool,
           Counted(L, q, w),
           \/ e.pool # q /\ v.suppressed = w.suppressed
           \/ e.pool = q /\ e.rl = 0 /\ v.suppressed = w.suppressed + 1
           \/ e.pool = q /\ e.rl = 1 /\ v.suppressed = w.suppressed
           \/ e.pool = q /\ e.rl = 1 + w.suppressed /\ v.suppressed = 0
    PROVE  Counted(Append(L, e), q, v)
<1>1. w.suppressed \in Nat /\ v.suppressed \in Nat /\ e.rl \in Nat
  BY DEF Pool, Call
<1>2. PICK M : M = Append(L, e)
  OBVIOUS
<1>3. PICK d, s, dM, sM :
        /\ d = Cardinality(Drops(L, q)) /\ s = Total(Reports(L, q))
        /\ dM = Cardinality(Drops(M, q)) /\ sM = Total(Reports(M, q))
  OBVIOUS
<1>4. d \in Nat /\ s \in Nat /\ sM = s + Report(e, q) /\ d = s + w.suppressed
  BY <1>2, <1>3, ReportsAppend, DropsAppend DEF Counted
<1>5. dM = IF e.pool = q /\ e.rl = 0 THEN d + 1 ELSE d
  BY <1>2, <1>3, DropsAppend
<1>6. dM = sM + v.suppressed
  <2>1. CASE e.pool # q
    <3>1. Report(e, q) = 0 /\ dM = d /\ v.suppressed = w.suppressed
      BY <1>5, <2>1 DEF Report
    <3> QED
      BY <1>1, <1>4, <3>1
  <2>2. CASE e.pool = q
    <3>1. Report(e, q) = IF e.rl > 1 THEN e.rl - 1 ELSE 0
      BY <2>2 DEF Report
    <3>2. dM = IF e.rl = 0 THEN d + 1 ELSE d
      BY <1>5, <2>2
    <3> QED
      BY <1>1, <1>4, <2>2, <3>1, <3>2, SMTT(20)
  <2> QED
    BY <2>1, <2>2
<1> QED
  BY <1>2, <1>3, <1>6 DEF Counted

\* What "Suppressed %u messages" reports adds up: every message that
\* journal_rate_limit_test() drops is reported once, or still counted.
THEOREM SuppressedAreReported == RateLimitSpec => []SuppressedReported
<1>1. RateLimitInit => SuppressedReported
  <2> SUFFICES ASSUME RateLimitInit, NEW q \in Pools PROVE Counted(log, q, pools[q])
    BY SuppressedByPool
  <2>1. log = <<>> /\ DOMAIN log = {} /\ pools[q].suppressed = 0
    BY DEF RateLimitInit
  <2>2. Drops(log, q) = {} /\ Reports(log, q) = <<>>
    BY <2>1 DEF Drops, Reports
  <2>3. Reports(log, q) \in Seq(Nat) /\ Len(Reports(log, q)) = 0
    BY <2>2
  <2>4. Total(Reports(log, q)) = 0
    <3> HIDE DEF Reports
    <3>1. \A i \in 1..Len(Reports(log, q)) : Reports(log, q)[i] = 0
      BY <2>3
    <3> QED
      BY <2>3, <3>1, SumZero
  <2>5. Cardinality(Drops(log, q)) = 0
    BY <2>2, FS_EmptySet
  <2> QED
    BY <2>1, <2>4, <2>5 DEF Counted
<1>2. LimitInv /\ SuppressedReported /\ [RateLimitNext]_limitVars => SuppressedReported'
  <2> SUFFICES ASSUME LimitInv, SuppressedReported, [RateLimitNext]_limitVars
               PROVE  SuppressedReported'
    OBVIOUS
  <2>1. log \in Seq(Call) /\ pools \in [Pools -> Pool] /\ now \in Nat
    BY DEF LimitInv, RateLimitTypeOK
  <2>2. ASSUME NEW priority \in Priorities, NEW k \in Space, Dispatch(priority, k)
        PROVE  SuppressedReported'
    <3>1. priority_map[priority] \in Pools
      <4>1. priority \in 0..7
        BY RateLimitAssumption
      <4> QED
        BY <4>1 DEF priority_map, Pools
    <3>2. PICK q \in Pools : FirstMessage(q, k) \/ NextWindow(q, k) \/ Pass(q, k) \/ Drop(q, k)
      BY <2>2, <3>1 DEF Dispatch
    <3>3. PICK e : /\ e \in Call /\ e.pool = q /\ log' = Append(log, e)
                   /\ \/ e.rl = 0 /\ pools'[q].suppressed = pools[q].suppressed + 1
                      \/ e.rl = 1 /\ pools'[q].suppressed = pools[q].suppressed
                      \/ e.rl = 1 + pools[q].suppressed /\ pools'[q].suppressed = 0
                   /\ pools' \in [Pools -> Pool]
                   /\ \A r \in Pools : r # q => pools'[r] = pools[r]
      <4> DEFINE c(rl) == [at |-> now, pool |-> q, space |-> k, rl |-> rl]
      <4>1. \A rl \in Nat : c(rl) \in Call /\ c(rl).pool = q /\ c(rl).rl = rl
        BY <2>1 DEF Call
      <4>2. pools[q] \in Pool /\ pools[q].suppressed \in Nat /\ NewWindow \in Pool
            /\ NewWindow.suppressed = 0
        BY <2>1 DEF Pool, NewWindow
      <4>3. CASE FirstMessage(q, k)
        <5>1. log' = Append(log, c(1)) /\ pools' = [pools EXCEPT ![q] = NewWindow]
              /\ pools[q].begin = 0
          BY <4>3 DEF FirstMessage, Called
        <5>2. pools[q].suppressed = 0
          <6>1. \A i \in DOMAIN log : log[i].pool # q
            BY <5>1 DEF LimitInv, Window
          <6>2. Drops(log, q) = {}
            BY <6>1 DEF Drops
          <6>3. /\ Reports(log, q) \in Seq(Nat)
                /\ \A i \in 1..Len(Reports(log, q)) : Reports(log, q)[i] = 0
            BY <2>1, <6>1 DEF Reports, Report
          <6>4. Total(Reports(log, q)) = 0
            BY <6>3, SumZero
          <6>5. Cardinality(Drops(log, q)) = 0
            BY <6>2, FS_EmptySet
          <6>6. Counted(log, q, pools[q])
            BY SuppressedByPool
          <6> QED
            BY <4>2, <6>4, <6>5, <6>6 DEF Counted
        <5> QED
          BY <2>1, <4>1, <4>2, <5>1, <5>2
      <4>4. CASE NextWindow(q, k)
        <5>1. log' = Append(log, c(1 + pools[q].suppressed))
              /\ pools' = [pools EXCEPT ![q] = NewWindow]
          BY <4>4 DEF NextWindow, Called
        <5> QED
          BY <2>1, <4>1, <4>2, <5>1
      <4>5. CASE Pass(q, k)
        <5> DEFINE v == [pools[q] EXCEPT !.num = @ + 1]
        <5>1. log' = Append(log, c(1)) /\ pools' = [pools EXCEPT ![q] = v]
          BY <2>1, <4>5 DEF Pass, Called
        <5>2. v \in Pool /\ v.suppressed = pools[q].suppressed
          BY <4>2 DEF Pool
        <5> QED
          BY <2>1, <4>1, <5>1, <5>2
      <4>6. CASE Drop(q, k)
        <5> DEFINE v == [pools[q] EXCEPT !.suppressed = @ + 1]
        <5>1. log' = Append(log, c(0)) /\ pools' = [pools EXCEPT ![q] = v]
          BY <2>1, <4>6 DEF Drop, Called
        <5>2. v \in Pool /\ v.suppressed = pools[q].suppressed + 1
          BY <4>2 DEF Pool
        <5> QED
          BY <2>1, <4>1, <5>1, <5>2
      <4> QED
        BY <3>2, <4>3, <4>4, <4>5, <4>6
    <3>4. ASSUME NEW r \in Pools PROVE Counted(log', r, pools'[r])
      <4>1. Counted(log, r, pools[r]) /\ pools[r] \in Pool /\ pools'[r] \in Pool
        BY <2>1, <3>3, SuppressedByPool
      <4>2. \/ e.pool # r /\ pools'[r].suppressed = pools[r].suppressed
            \/ e.pool = r /\ e.rl = 0 /\ pools'[r].suppressed = pools[r].suppressed + 1
            \/ e.pool = r /\ e.rl = 1 /\ pools'[r].suppressed = pools[r].suppressed
            \/ e.pool = r /\ e.rl = 1 + pools[r].suppressed /\ pools'[r].suppressed = 0
        BY <3>3
      <4> QED
        BY <2>1, <3>3, <4>1, <4>2, CountedAfter
    <3> QED
      BY <3>4, SuppressedByPool
  <2>3. CASE Tick \/ UNCHANGED limitVars
    <3>1. log' = log /\ pools' = pools
      BY <2>3 DEF Tick, limitVars
    <3> QED
      BY <3>1 DEF SuppressedReported, Dropped, Reported
  <2> QED
    BY <2>2, <2>3 DEF RateLimitNext
<1> QED
  BY <1>1, <1>2, LimitInvariant, PTL DEF RateLimitSpec
=============================================================================
