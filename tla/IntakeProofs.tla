---------------------------- MODULE IntakeProofs ----------------------------
(***************************************************************************)
(* Proofs about the intake of kernel messages, for any log of the kernel,  *)
(* any size of its ring, and any number of stops, kills and failed saves.  *)
(***************************************************************************)
EXTENDS Intake, Recursion, FiniteSetTheorems, TLAPS

-----------------------------------------------------------------------------
(* What a journal tells of the kernel's messages                           *)

Record == [kind : {"missed", "kernel"}, n : Nat, epoch : Nat]

\* What the records of epoch e in the journal J account for.
Account(x, e) == IF x.epoch # e THEN 0 ELSE IF x.kind = "missed" THEN x.n ELSE 1

Accounted(J, e) == [i \in DOMAIN J |-> Account(J[i], e)]

Numbers(J, e) ==
    {J[i].n : i \in {j \in DOMAIN J : J[j].epoch = e /\ J[j].kind = "kernel"}}

Below(D, k) == \A n \in D : n \in Nat /\ n < k

Latest(J, e) == \A i \in DOMAIN J : J[i].epoch <= e

InOrder(J) ==
    \A i, j \in DOMAIN J :
       (i < j /\ J[i].epoch = J[j].epoch /\ J[i].kind = "kernel" /\ J[j].kind = "kernel")
       => J[i].n < J[j].n

\* The journal J, with the numbers D left out, accounts for the numbers from b,
\* where the epoch e began, up to k, the one expected next.
Told(J, D, e, b, k) ==
    /\ J \in Seq(Record) /\ e \in Nat /\ b \in Nat /\ k \in Nat
    /\ IsFiniteSet(D) /\ Below(D, k)
    /\ Latest(J, e) /\ Below(Numbers(J, e), k)
    /\ InOrder(J)
    /\ b + Cardinality(D) + Total(Accounted(J, e)) = k

\* What is neither in J nor in D is older than the number o.
Gone(J, D, e, b, k, o) == \A n \in (b .. k - 1) \ (Numbers(J, e) \union D) : n < o

\* The invariant: the journal and the daemon's number agree, and the reader is
\* not ahead of the number unless the kernel has forgotten what is between.
KernelInv ==
    /\ klog \in Seq(Levels)
    /\ pos \in Nat /\ kseqnum \in Nat /\ saved \in Nat
    /\ pc \in {"down", "flush", "loop"}
    /\ Told(journal, dropped, epoch, base, Known)
    /\ Gone(journal, dropped, epoch, base, Known, Oldest)
    /\ pc # "down" => pos <= kseqnum \/ pos <= Oldest

-----------------------------------------------------------------------------
(* How a journal grows                                                     *)

\* What one more record does to a journal.
LEMMA JournalAppend ==
    ASSUME NEW J \in Seq(Record), NEW x \in Record, NEW K, K = Append(J, x)
    PROVE  /\ K \in Seq(Record)
           /\ DOMAIN K = DOMAIN J \cup {Len(K)}
           /\ Len(K) \notin DOMAIN J
           /\ \A i \in DOMAIN J : i < Len(K)
           /\ \A i \in DOMAIN K : i \in Nat /\ i <= Len(K)
           /\ K[Len(K)] = x
           /\ \A i \in DOMAIN J : K[i] = J[i]
OBVIOUS

\* A record in a journal has its type.
LEMMA RecordTypes ==
    ASSUME NEW J \in Seq(Record), NEW i \in DOMAIN J
    PROVE  J[i].n \in Nat /\ J[i].epoch \in Nat /\ J[i].kind \in {"missed", "kernel"}
<1>1. J[i] \in Record
  OBVIOUS
<1> QED
  BY <1>1 DEF Record

\* One more record adds what it accounts for.
LEMMA AccountedAppend ==
    ASSUME NEW J \in Seq(Record), NEW x \in Record, NEW e \in Nat
    PROVE  /\ Account(x, e) \in Nat
           /\ Total(Accounted(J, e)) \in Nat
           /\ Total(Accounted(Append(J, x), e)) = Total(Accounted(J, e)) + Account(x, e)
<1>0. PICK K : K = Append(J, x)
  OBVIOUS
<1>1. \A y \in Record : Account(y, e) \in Nat
  BY DEF Account, Record
<1>2. Accounted(J, e) \in Seq(Nat)
  BY <1>1 DEF Accounted
<1>3. Accounted(K, e) = Append(Accounted(J, e), Account(x, e))
  BY <1>0, JournalAppend DEF Accounted
<1> HIDE DEF Accounted, Account
<1> QED
  BY <1>0, <1>1, <1>2, <1>3, SumAppend

\* One more record adds its number, if it is one of the kernel.
LEMMA NumbersAppend ==
    ASSUME NEW J \in Seq(Record), NEW x \in Record, NEW e \in Nat, x.epoch = e
    PROVE  Numbers(Append(J, x), e) =
             IF x.kind = "kernel" THEN Numbers(J, e) \union {x.n} ELSE Numbers(J, e)
<1>1. PICK K : K = Append(J, x)
  OBVIOUS
<1>2. /\ DOMAIN K = DOMAIN J \cup {Len(K)} /\ K[Len(K)] = x
      /\ \A i \in DOMAIN J : K[i] = J[i]
  BY <1>1, JournalAppend
<1>3. CASE x.kind = "kernel"
  <2>1. Numbers(K, e) \subseteq Numbers(J, e) \union {x.n}
    BY <1>2 DEF Numbers
  <2>2. Numbers(J, e) \subseteq Numbers(K, e) /\ x.n \in Numbers(K, e)
    BY <1>2, <1>3 DEF Numbers
  <2> QED
    BY <1>1, <1>3, <2>1, <2>2
<1>4. CASE x.kind # "kernel"
  <2>1. Numbers(K, e) = Numbers(J, e)
    BY <1>2, <1>4 DEF Numbers
  <2> QED
    BY <1>1, <1>4, <2>1
<1> QED
  BY <1>3, <1>4

\* A record of the last epoch, with the number expected if it is a message's.
LEMMA TellRecord ==
    ASSUME NEW J, NEW D, NEW e, NEW b, NEW k, Told(J, D, e, b, k),
           NEW x \in Record, x.epoch = e, x.kind = "kernel" => x.n = k,
           NEW l \in Nat, l = k + Account(x, e)
    PROVE  Told(Append(J, x), D, e, b, l)
<1>1. PICK K : K = Append(J, x)
  OBVIOUS
<1>2. /\ J \in Seq(Record) /\ e \in Nat /\ b \in Nat /\ k \in Nat
      /\ IsFiniteSet(D) /\ Below(D, k) /\ Latest(J, e) /\ Below(Numbers(J, e), k)
      /\ InOrder(J)
      /\ b + Cardinality(D) + Total(Accounted(J, e)) = k
  BY DEF Told
<1>3. /\ K \in Seq(Record) /\ DOMAIN K = DOMAIN J \cup {Len(K)} /\ K[Len(K)] = x
      /\ \A i \in DOMAIN J : K[i] = J[i] /\ i < Len(K)
      /\ Len(K) \in Nat /\ DOMAIN J \subseteq Nat
  BY <1>1, <1>2, JournalAppend
<1>4. k <= l /\ (x.kind = "kernel" => l = k + 1)
  <2>1. Account(x, e) \in Nat
    BY <1>2, AccountedAppend
  <2>2. x.kind = "kernel" => Account(x, e) = 1
    BY DEF Account
  <2> QED
    BY <1>2, <2>1, <2>2
<1>5. Below(D, l)
  BY <1>2, <1>4 DEF Below
<1>6. Latest(K, e)
  <2> SUFFICES ASSUME NEW i \in DOMAIN K PROVE K[i].epoch <= e
    BY DEF Latest
  <2>1. CASE i \in DOMAIN J
    <3>1. J[i].epoch <= e /\ K[i] = J[i]
      BY <1>2, <1>3, <2>1 DEF Latest
    <3> QED
      BY <3>1
  <2>2. CASE i = Len(K)
    BY <1>2, <1>3, <2>2
  <2> QED
    BY <1>3, <2>1, <2>2
<1>7. Below(Numbers(K, e), l)
  BY <1>1, <1>2, <1>4, NumbersAppend DEF Below
<1>8. InOrder(K)
  <2> SUFFICES ASSUME NEW i \in DOMAIN K, NEW j \in DOMAIN K, i < j,
                      K[i].epoch = K[j].epoch, K[i].kind = "kernel", K[j].kind = "kernel"
               PROVE  K[i].n < K[j].n
    BY DEF InOrder
  <2>1. i # Len(K)
    <3>1. i \in Nat /\ j \in Nat /\ j <= Len(K)
      BY <1>1, <1>2, JournalAppend
    <3>2. Len(K) \in Nat
      BY <1>3
    <3> QED
      BY <3>1, <3>2
  <2>2. i \in DOMAIN J
    BY <1>3, <2>1
  <2>3. CASE j \in DOMAIN J
    <3>1. K[i] = J[i] /\ K[j] = J[j]
      BY <1>3, <2>2, <2>3
    <3> QED
      BY <1>2, <2>2, <2>3, <3>1 DEF InOrder
  <2>4. CASE j = Len(K)
    <3>1. K[i] = J[i] /\ K[j] = x
      BY <1>3, <2>2, <2>4
    <3>2. J[i].n \in Numbers(J, e)
      BY <2>2, <3>1 DEF Numbers
    <3> QED
      BY <1>2, <3>1, <3>2 DEF Below
  <2> QED
    BY <1>3, <2>3, <2>4
<1>9. b + Cardinality(D) + Total(Accounted(K, e)) = l
  <2>1. Cardinality(D) \in Nat
    BY <1>2, FS_CardinalityType
  <2>2. /\ Total(Accounted(K, e)) = Total(Accounted(J, e)) + Account(x, e)
        /\ Total(Accounted(J, e)) \in Nat /\ Account(x, e) \in Nat
    BY <1>1, <1>2, AccountedAppend
  <2> QED
    BY <1>2, <2>1, <2>2
<1>10. Told(K, D, e, b, l)
  BY <1>2, <1>3, <1>5, <1>6, <1>7, <1>8, <1>9 DEF Told
<1> QED
  BY <1>1, <1>10

\* Messages are missed.
LEMMA TellMissed ==
    ASSUME NEW J, NEW D, NEW e, NEW b, NEW k, NEW m \in Nat, NEW o \in Nat,
           Told(J, D, e, b, k), Gone(J, D, e, b, k, o), k + m <= o
    PROVE  LET K == Append(J, [kind |-> "missed", n |-> m, epoch |-> e])
           IN  Told(K, D, e, b, k + m) /\ Gone(K, D, e, b, k + m, o)
<1>1. PICK x : x = [kind |-> "missed", n |-> m, epoch |-> e]
  OBVIOUS
<1>2. PICK K : K = Append(J, x)
  OBVIOUS
<1>3. J \in Seq(Record) /\ e \in Nat /\ b \in Nat /\ k \in Nat
  BY DEF Told
<1>4. /\ x \in Record /\ x.kind # "kernel" /\ x.epoch = e /\ Account(x, e) = m
      /\ k + m \in Nat
  BY <1>1, <1>3 DEF Record, Account
<1>5. Told(K, D, e, b, k + m)
  BY <1>2, <1>4, TellRecord
<1>6. Numbers(K, e) = Numbers(J, e)
  BY <1>2, <1>3, <1>4, NumbersAppend
<1>7. Gone(K, D, e, b, k + m, o)
  <2> SUFFICES ASSUME NEW n \in (b .. (k + m) - 1) \ (Numbers(K, e) \union D) PROVE n < o
    BY DEF Gone
  <2>1. CASE n < k
    BY <1>3, <1>6, <2>1 DEF Gone
  <2>2. CASE ~(n < k)
    BY <1>3, <2>2
  <2> QED
    BY <2>1, <2>2
<1> QED
  BY <1>1, <1>2, <1>5, <1>7

\* The message expected is stored.
LEMMA TellStored ==
    ASSUME NEW J, NEW D, NEW e, NEW b, NEW k, NEW o \in Nat,
           Told(J, D, e, b, k), Gone(J, D, e, b, k, o)
    PROVE  LET K == Append(J, [kind |-> "kernel", n |-> k, epoch |-> e])
           IN  Told(K, D, e, b, k + 1) /\ Gone(K, D, e, b, k + 1, o)
<1>1. PICK x : x = [kind |-> "kernel", n |-> k, epoch |-> e]
  OBVIOUS
<1>2. PICK K : K = Append(J, x)
  OBVIOUS
<1>3. J \in Seq(Record) /\ e \in Nat /\ b \in Nat /\ k \in Nat
  BY DEF Told
<1>4. /\ x \in Record /\ x.kind = "kernel" /\ x.epoch = e /\ x.n = k /\ Account(x, e) = 1
      /\ k + 1 \in Nat
  BY <1>1, <1>3 DEF Record, Account
<1>5. Told(K, D, e, b, k + 1)
  BY <1>2, <1>4, TellRecord
<1>6. Numbers(K, e) = Numbers(J, e) \union {k}
  BY <1>2, <1>3, <1>4, NumbersAppend
<1>7. Gone(K, D, e, b, k + 1, o)
  <2> SUFFICES ASSUME NEW n \in (b .. (k + 1) - 1) \ (Numbers(K, e) \union D) PROVE n < o
    BY DEF Gone
  <2>1. n \in b .. k - 1
    BY <1>3, <1>6
  <2> QED
    BY <1>6, <2>1 DEF Gone
<1> QED
  BY <1>1, <1>2, <1>5, <1>7

\* The message expected is left out.
LEMMA TellLeftOut ==
    ASSUME NEW J, NEW D, NEW e, NEW b, NEW k, NEW o \in Nat,
           Told(J, D, e, b, k), Gone(J, D, e, b, k, o)
    PROVE  Told(J, D \union {k}, e, b, k + 1) /\ Gone(J, D \union {k}, e, b, k + 1, o)
<1>1. /\ J \in Seq(Record) /\ e \in Nat /\ b \in Nat /\ k \in Nat
      /\ IsFiniteSet(D) /\ Below(D, k) /\ Latest(J, e) /\ Below(Numbers(J, e), k)
      /\ InOrder(J)
      /\ b + Cardinality(D) + Total(Accounted(J, e)) = k
  BY DEF Told
<1>2. k \notin D
  BY <1>1 DEF Below
<1>3. /\ IsFiniteSet(D \union {k}) /\ Cardinality(D \union {k}) = Cardinality(D) + 1
      /\ Cardinality(D) \in Nat
  BY <1>1, <1>2, FS_AddElement, FS_CardinalityType
<1>4. Below(D \union {k}, k + 1) /\ Below(Numbers(J, e), k + 1)
  BY <1>1 DEF Below
<1>5. Total(Accounted(J, e)) \in Nat
  <2>1. [kind |-> "missed", n |-> 0, epoch |-> 0] \in Record
    BY DEF Record
  <2> QED
    BY <1>1, <2>1, AccountedAppend
<1>6. b + Cardinality(D \union {k}) + Total(Accounted(J, e)) = k + 1
  BY <1>1, <1>3, <1>5
<1>7. Told(J, D \union {k}, e, b, k + 1)
  BY <1>1, <1>3, <1>4, <1>6 DEF Told
<1>8. Gone(J, D \union {k}, e, b, k + 1, o)
  BY <1>1 DEF Gone
<1> QED
  BY <1>7, <1>8

\* The number is lost, and counting begins again at s.
LEMMA TellAgain ==
    ASSUME NEW J, NEW D, NEW e, NEW b, NEW k, NEW o, Told(J, D, e, b, k), NEW s \in Nat
    PROVE  Told(J, {}, e + 1, s, s) /\ Gone(J, {}, e + 1, s, s, o)
<1>1. J \in Seq(Record) /\ e \in Nat /\ e + 1 \in Nat /\ InOrder(J)
  BY DEF Told
<1>2. \A i \in DOMAIN J : J[i].epoch \in Nat /\ J[i].epoch <= e
  BY <1>1, RecordTypes DEF Told, Latest
<1>3. \A i \in DOMAIN J : J[i].epoch <= e + 1 /\ J[i].epoch # e + 1
  BY <1>1, <1>2
<1>4. /\ Accounted(J, e + 1) \in Seq(Nat)
      /\ \A i \in 1..Len(Accounted(J, e + 1)) : Accounted(J, e + 1)[i] = 0
  BY <1>1, <1>3 DEF Accounted, Account
<1>5. Total(Accounted(J, e + 1)) = 0
  BY <1>4, SumZero
<1>6. IsFiniteSet({}) /\ Cardinality({}) = 0
  BY FS_EmptySet
<1>7. Latest(J, e + 1) /\ Numbers(J, e + 1) = {}
  BY <1>3 DEF Latest, Numbers
<1>8. Below({}, s)
  BY DEF Below
<1>9. Told(J, {}, e + 1, s, s)
  BY <1>1, <1>5, <1>6, <1>7, <1>8, SMTT(20) DEF Told
<1>10. Gone(J, {}, e + 1, s, s, o)
  BY DEF Gone
<1> QED
  BY <1>9, <1>10

-----------------------------------------------------------------------------
(* The daemon's steps                                                      *)

\* The kernel forgets, and never remembers again.
LEMMA OldestGrows ==
    ASSUME klog \in Seq(Levels), klog' \in Seq(Levels), Len(klog) <= Len(klog')
    PROVE  Oldest \in Nat /\ Oldest' \in Nat /\ Oldest <= Oldest'
BY KernelLogAssumption DEF Oldest, Printed

\* What the kernel has overwritten stays overwritten.
LEMMA GoneLater ==
    ASSUME NEW J, NEW D, NEW e, NEW b, NEW k, NEW o \in Nat, NEW p \in Nat, o <= p,
           Told(J, D, e, b, k), Gone(J, D, e, b, k, o)
    PROVE  Gone(J, D, e, b, k, p)
<1>1. b \in Nat /\ k \in Nat
  BY DEF Told
<1> QED
  BY <1>1 DEF Gone

\* A message is read that is not behind the kernel's oldest.
LEMMA RecordTold ==
    ASSUME KernelInv, pc # "down", ReadRecord
    PROVE  /\ kseqnum' \in Nat /\ pos' \in Nat /\ pos' <= kseqnum'
           /\ Told(journal', dropped', epoch, base, kseqnum')
           /\ Gone(journal', dropped', epoch, base, kseqnum', Oldest)
<1>1. /\ klog \in Seq(Levels) /\ pos \in Nat /\ kseqnum \in Nat
      /\ Told(journal, dropped, epoch, base, kseqnum)
      /\ Gone(journal, dropped, epoch, base, kseqnum, Oldest)
      /\ pos <= kseqnum \/ pos <= Oldest
  BY DEF KernelInv, Known
<1>2. Oldest \in Nat /\ Oldest <= pos /\ pos' = pos + 1
  BY <1>1, KernelLogAssumption DEF Oldest, Printed, ReadRecord, Overtaken
<1>3. journal \in Seq(Record) /\ epoch \in Nat
  BY <1>1 DEF Told
<1>4. CASE pos < kseqnum
  <2>1. UNCHANGED <<kseqnum, journal, dropped>>
    BY <1>4 DEF ReadRecord, DevKmsgRecord, AlreadyRead
  <2> QED
    BY <1>1, <1>2, <1>4, <2>1
<1>5. CASE ~(pos < kseqnum)
  <2>1. /\ kseqnum' = pos + 1
        /\ IF LevelOf(pos) > MaxLevelStore
           THEN /\ journal' = journal \o MissedBefore(pos)
                /\ dropped' = dropped \union {pos}
           ELSE /\ journal' = Append(journal \o MissedBefore(pos), Stored(pos))
                /\ UNCHANGED dropped
    BY <1>5 DEF ReadRecord, DevKmsgRecord, AlreadyRead, Expected
  <2>2. PICK J : J = journal \o MissedBefore(pos)
    OBVIOUS
  <2>3. Told(J, dropped, epoch, base, pos) /\ Gone(J, dropped, epoch, base, pos, Oldest)
    <3>1. CASE pos = kseqnum
      <4>1. MissedBefore(pos) = <<>>
        BY <1>1, <3>1 DEF MissedBefore
      <4>2. J = journal
        BY <1>3, <2>2, <4>1
      <4> QED
        BY <1>1, <3>1, <4>2
    <3>2. CASE pos # kseqnum
      <4>1. /\ pos = Oldest /\ pos - kseqnum \in Nat /\ kseqnum + (pos - kseqnum) = pos
            /\ pos > kseqnum
        BY <1>1, <1>2, <1>5, <3>2
      <4>2. PICK m \in Nat : m = pos - kseqnum
        BY <4>1
      <4>3. MissedBefore(pos) = <<[kind |-> "missed", n |-> m, epoch |-> epoch]>>
        BY <4>1, <4>2 DEF MissedBefore, Missed
      <4>4. J = Append(journal, [kind |-> "missed", n |-> m, epoch |-> epoch])
        <5>1. PICK x : x = [kind |-> "missed", n |-> m, epoch |-> epoch]
          OBVIOUS
        <5>2. journal \o <<x>> = Append(journal, x)
          BY <1>3
        <5> QED
          BY <2>2, <4>3, <5>1, <5>2
      <4>5. kseqnum + m = pos /\ kseqnum + m <= Oldest
        BY <1>1, <4>1, <4>2
      <4>6. /\ Told(J, dropped, epoch, base, kseqnum + m)
            /\ Gone(J, dropped, epoch, base, kseqnum + m, Oldest)
        BY <1>1, <1>2, <4>4, <4>5, TellMissed
      <4> QED
        BY <4>5, <4>6
    <3> QED
      BY <3>1, <3>2
  <2>4. CASE LevelOf(pos) > MaxLevelStore
    <3>1. journal' = J /\ dropped' = dropped \union {pos}
      BY <2>1, <2>2, <2>4
    <3>2. /\ Told(J, dropped \union {pos}, epoch, base, pos + 1)
          /\ Gone(J, dropped \union {pos}, epoch, base, pos + 1, Oldest)
      BY <1>2, <2>3, TellLeftOut
    <3> QED
      BY <1>1, <1>2, <2>1, <3>1, <3>2
  <2>5. CASE ~(LevelOf(pos) > MaxLevelStore)
    <3>1. /\ journal' = Append(J, [kind |-> "kernel", n |-> pos, epoch |-> epoch])
          /\ dropped' = dropped
      BY <2>1, <2>2, <2>5 DEF Stored
    <3>2. /\ Told(journal', dropped, epoch, base, pos + 1)
          /\ Gone(journal', dropped, epoch, base, pos + 1, Oldest)
      BY <1>2, <2>3, <3>1, TellStored
    <3> QED
      BY <1>1, <1>2, <2>1, <3>1, <3>2
  <2> QED
    BY <2>4, <2>5
<1> QED
  BY <1>1, <1>4, <1>5

\* The steps that concern the kernel's log.
KernelStep == Printk \/ Start \/ FlushDevKmsg \/ DispatchDevKmsg \/ Stop \/ Kill

\* Every step of the kernel and of the reader keeps the invariant.
LEMMA KernelStepKeepsInv ==
    ASSUME KernelInv, KernelStep
    PROVE  KernelInv'
<1>1. /\ klog \in Seq(Levels) /\ pos \in Nat /\ kseqnum \in Nat /\ saved \in Nat
      /\ pc \in {"down", "flush", "loop"}
      /\ Told(journal, dropped, epoch, base, Known)
      /\ Gone(journal, dropped, epoch, base, Known, Oldest)
      /\ pc # "down" => pos <= kseqnum \/ pos <= Oldest
  BY DEF KernelInv
<1>2. Oldest \in Nat
  BY <1>1, KernelLogAssumption DEF Oldest, Printed
<1>3. CASE Printk
  <2>1. PICK level \in Levels : klog' = Append(klog, level)
    BY <1>3 DEF Printk
  <2>2. klog' \in Seq(Levels) /\ Len(klog) <= Len(klog')
    BY <1>1, <2>1
  <2>3. UNCHANGED <<pos, pc, kseqnum, saved, journal, dropped, epoch, base>>
    BY <1>3 DEF Printk
  <2>4. Known' = Known
    BY <2>3 DEF Known
  <2>5. Oldest' \in Nat /\ Oldest <= Oldest'
    BY <1>1, <2>2, OldestGrows
  <2>6. Gone(journal, dropped, epoch, base, Known, Oldest')
    BY <1>1, <1>2, <2>5, GoneLater
  <2>7. pc # "down" => pos <= kseqnum \/ pos <= Oldest'
    BY <1>1, <1>2, <2>5
  <2> QED
    BY <1>1, <2>2, <2>3, <2>4, <2>6, <2>7 DEF KernelInv
<1>4. CASE Start
  <2>1. /\ pc = "down" /\ pc' = "flush" /\ pos' = Oldest /\ kseqnum' = saved
        /\ UNCHANGED <<klog, saved, journal, dropped, epoch, base>>
    BY <1>4 DEF Start
  <2>2. Known' = Known /\ Oldest' = Oldest
    BY <2>1 DEF Known, Oldest, Printed
  <2>3. pos' <= Oldest'
    BY <1>2, <2>1, <2>2
  <2> QED
    BY <1>1, <1>2, <2>1, <2>2, <2>3 DEF KernelInv
<1>5. CASE FlushDevKmsg \/ DispatchDevKmsg
  <2>1. /\ pc \in {"flush", "loop"} /\ pc' \in {"flush", "loop"}
        /\ UNCHANGED <<klog, saved, epoch, base>>
        /\ ReadRecord \/ ReadOverrun \/ UNCHANGED <<pos, kseqnum, journal, dropped>>
    BY <1>5 DEF FlushDevKmsg, DispatchDevKmsg
  <2>2. Known = kseqnum /\ Known' = kseqnum' /\ Oldest' = Oldest
    BY <2>1 DEF Known, Oldest, Printed
  <2>3. CASE ReadRecord
    <3>1. /\ kseqnum' \in Nat /\ pos' \in Nat /\ pos' <= kseqnum'
          /\ Told(journal', dropped', epoch, base, kseqnum')
          /\ Gone(journal', dropped', epoch, base, kseqnum', Oldest)
      BY <2>1, <2>3, RecordTold
    <3> QED
      BY <1>1, <2>1, <2>2, <3>1 DEF KernelInv
  <2>4. CASE ReadOverrun
    <3>1. pos' = Oldest /\ UNCHANGED <<kseqnum, journal, dropped>>
      BY <2>4 DEF ReadOverrun
    <3>2. pos' \in Nat /\ pos' <= Oldest'
      BY <1>2, <2>2, <3>1
    <3> QED
      BY <1>1, <2>1, <2>2, <3>1, <3>2 DEF KernelInv
  <2>5. CASE UNCHANGED <<pos, kseqnum, journal, dropped>>
    BY <1>1, <2>1, <2>2, <2>5 DEF KernelInv
  <2> QED
    BY <2>1, <2>3, <2>4, <2>5
<1>6. CASE Stop \/ Kill
  <2>1. /\ pc # "down" /\ pc' = "down" /\ UNCHANGED <<klog, pos, kseqnum, journal>>
        /\ \/ saved' = kseqnum /\ UNCHANGED <<epoch, base, dropped>>
           \/ UNCHANGED saved /\ NewEpoch
    BY <1>6 DEF Stop, Kill
  <2>2. Known = kseqnum /\ Known' = saved' /\ Oldest' = Oldest
    BY <2>1 DEF Known, Oldest, Printed
  <2>3. CASE saved' = kseqnum /\ UNCHANGED <<epoch, base, dropped>>
    BY <1>1, <2>1, <2>2, <2>3 DEF KernelInv
  <2>4. CASE UNCHANGED saved /\ NewEpoch
    <3>1. saved' = saved /\ epoch' = epoch + 1 /\ base' = saved /\ dropped' = {}
      BY <2>4 DEF NewEpoch
    <3>2. /\ Told(journal, {}, epoch + 1, saved, saved)
          /\ Gone(journal, {}, epoch + 1, saved, saved, Oldest)
      BY <1>1, TellAgain
    <3> QED
      BY <1>1, <2>1, <2>2, <3>1, <3>2 DEF KernelInv
  <2> QED
    BY <2>1, <2>3, <2>4
<1> QED
  BY <1>3, <1>4, <1>5, <1>6 DEF KernelStep

\* The invariant holds, whatever clients do meanwhile.
THEOREM KernelInvariant == Spec => []KernelInv
<1>1. Init => KernelInv
  <2> SUFFICES ASSUME Init PROVE KernelInv
    OBVIOUS
  <2>1. /\ klog = <<>> /\ pos = 0 /\ pc = "down" /\ kseqnum = 0 /\ saved = 0
        /\ base = 0 /\ epoch = 0 /\ journal = <<>> /\ dropped = {}
    BY DEF Init, KernelInit
  <2>2. Known = 0 /\ klog \in Seq(Levels) /\ journal \in Seq(Record) /\ DOMAIN journal = {}
    BY <2>1 DEF Known
  <2>3. Latest(journal, 0) /\ InOrder(journal) /\ Numbers(journal, 0) = {} /\ Below({}, 0)
    BY <2>2 DEF Latest, InOrder, Numbers, Below
  <2>4. Total(Accounted(journal, 0)) = 0
    <3>1. Accounted(journal, 0) = <<>>
      BY <2>2 DEF Accounted
    <3>2. PICK v : v = Accounted(journal, 0)
      OBVIOUS
    <3>0. v = <<>>
      BY <3>1, <3>2
    <3>3. v \in Seq(Nat) /\ Len(v) = 0
      BY <3>0
    <3>4. \A i \in 1..Len(v) : v[i] = 0
      BY <3>3
    <3> QED
      BY <3>2, <3>3, <3>4, SumZero
  <2>5. IsFiniteSet({}) /\ Cardinality({}) = 0
    BY FS_EmptySet
  <2>6. Told(journal, {}, 0, 0, 0)
    <3>1. Below(Numbers(journal, 0), 0)
      BY <2>3
    <3>2. 0 + Cardinality({}) + Total(Accounted(journal, 0)) = 0
      BY <2>4, <2>5
    <3> QED
      BY <2>2, <2>3, <2>5, <3>1, <3>2 DEF Told
  <2>7. Gone(journal, {}, 0, 0, 0, Oldest)
    BY DEF Gone
  <2> QED
    BY <2>1, <2>2, <2>6, <2>7 DEF KernelInv
<1>2. KernelInv /\ [Next]_vars => KernelInv'
  <2> SUFFICES ASSUME KernelInv, [Next]_vars PROVE KernelInv'
    OBVIOUS
  <2>1. KernelStep \/ UNCHANGED kvars
    BY DEF Next, vars, DaemonStep, DaemonStart, Flush, EpollWait, DispatchKernel,
           ProcessDatagram, Receive, Again, KernelPrints, DaemonStop, DaemonKilled,
           Send, KernelStep
  <2>2. CASE UNCHANGED kvars
    <3>1. UNCHANGED <<klog, pos, pc, kseqnum, saved, journal, dropped, epoch, base>>
      BY <2>2 DEF kvars
    <3>2. Known' = Known /\ Oldest' = Oldest
      BY <3>1 DEF Known, Oldest, Printed
    <3> QED
      BY <3>1, <3>2 DEF KernelInv
  <2> QED
    BY <2>1, <2>2, KernelStepKeepsInv
<1> QED
  BY <1>1, <1>2, PTL DEF Spec

\* dev_kmsg_record() stores the kernel's messages in their order and none twice, between two
\* losses of the daemon's number.
THEOREM KernelStoredOnce == Spec => []KernelOnce
<1>1. KernelInv => KernelOnce
  BY DEF KernelInv, Told, InOrder, KernelOnce
<1> QED
  BY <1>1, KernelInvariant, PTL

\* Of the kernel's messages dev_kmsg_record() stores, leaves out or reports as missed each one,
\* and reports only what the kernel has forgotten, over any stops, kills and overruns.
THEOREM KernelMissesAreTold == Spec => []KernelMissesTold
<1>1. KernelInv => KernelMissesTold
  <2> SUFFICES ASSUME KernelInv PROVE KernelMissesTold
    OBVIOUS
  <2>1. [i \in DOMAIN journal |-> Accounts(journal[i])] = Accounted(journal, epoch)
    BY DEF Accounts, Accounted, Account
  <2>2. StoredNow = Numbers(journal, epoch)
    BY DEF StoredNow, Numbers
  <2>3. base + Cardinality(dropped) + Total(Accounted(journal, epoch)) = Known
    BY DEF KernelInv, Told
  <2>4. \A n \in (base .. Known - 1) \ (Numbers(journal, epoch) \union dropped) : n < Oldest
    BY DEF KernelInv, Gone
  <2> QED
    BY <2>1, <2>2, <2>3, <2>4 DEF KernelMissesTold
<1> QED
  BY <1>1, KernelInvariant, PTL
=============================================================================
