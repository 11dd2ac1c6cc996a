------------------------- MODULE JournalFileProofs --------------------------
(***************************************************************************)
(* Proofs about the objects of a journal file and its hash tables, for any *)
(* payloads, hashes with any collisions, sizes of the tables, number of    *)
(* entries, failures and deaths of the writer, and for a reader that walks *)
(* the tables without a lock at the same time.                             *)
(***************************************************************************)
EXTENDS JournalFile, Recursion, FiniteSetTheorems, TLAPS

-----------------------------------------------------------------------------
(* The invariant                                                           *)

Keys(t) == IF t = "data" THEN Payloads ELSE Fields
Names == Payloads \union Fields
Objects == [type : Types, key : Names, hash : Nat, next : Nat, list : Nat]
Items == [head : Nat, tail : Nat]
Steps == {"idle", "data", "link_data", "tail_data", "field", "link_field", "tail_field",
          "next_field", "head_data", "dead"}
Writers == [pc : Steps, todo : Seq(Payloads), want : Seq(Payloads), done : Seq(Nat), p : Nat, fp : Nat]
Bounds == [entries : Nat, full : Nat, unmapped : Nat, reads : Nat, kills : Nat]
Entries == [want : Seq(Payloads), items : Seq(Nat)]
Readers == [pc : {"walk", "list", "end"}, type : Types, key : Names, p : Nat,
            before : SUBSET Payloads, seen : Seq(Payloads)]

Offset == DOMAIN objects
Slots(t) == 0 .. Buckets[t] - 1

TypesOK ==
    /\ objects \in Seq(Objects)
    /\ table = [t \in Types |-> table[t]] /\ \A t \in Types : table[t] \in [Slots(t) -> Items]
    /\ header \in [objects : Nat, data : Nat, field : Nat]
    /\ entries \subseteq Entries /\ writer \in Writers /\ used \in Bounds
    /\ reader = [pc |-> "idle"] \/ reader \in Readers

ObjectsOK ==
    \A p \in Offset : /\ objects[p].key \in Keys(objects[p].type)
                      /\ objects[p].hash = Hash[<<objects[p].type, objects[p].key>>]

\* The object is in the chain of its bucket: something points to it.
BucketOf(p) == Bucket(objects[p].type, objects[p].key)
IsLinked(p) ==
    /\ p \in Offset
    /\ \/ table[objects[p].type][BucketOf(p)].head = p
       \/ \E q \in Offset : objects[q].next = p
InChain(p, t, b) == IsLinked(p) /\ objects[p].type = t /\ BucketOf(p) = b
SameChain(p, q) == IsLinked(q) /\ objects[q].type = objects[p].type /\ BucketOf(q) = BucketOf(p)

\* A chain has the linked objects of its bucket, in the order of the file.
HeadsOK ==
    \A t \in Types : \A b \in Slots(t) :
       IF table[t][b].head = 0 THEN \A p \in Offset : ~InChain(p, t, b)
       ELSE /\ InChain(table[t][b].head, t, b)
            /\ \A p \in Offset : InChain(p, t, b) => table[t][b].head <= p
NextOK ==
    \A p \in Offset :
       IF objects[p].next = 0 THEN IsLinked(p) => \A q \in Offset : SameChain(p, q) => q <= p
       ELSE /\ IsLinked(p) /\ p < objects[p].next /\ SameChain(p, objects[p].next)
            /\ \A q \in Offset : SameChain(p, q) /\ p < q => objects[p].next <= q

\* The tail is the last of them, except between the two stores that link an object.
Linking == IF writer.pc = "tail_data" THEN writer.p ELSE IF writer.pc = "tail_field" THEN writer.fp ELSE 0
IsLast(p, t, b) ==
    IF p = 0 THEN \A q \in Offset : ~InChain(q, t, b)
    ELSE InChain(p, t, b) /\ \A q \in Offset : InChain(q, t, b) => q <= p
TailsOK ==
    writer.pc # "dead" =>
      \A t \in Types : \A b \in Slots(t) :
         (Linking # 0 /\ InChain(Linking, t, b)) \/ IsLast(table[t][b].tail, t, b)

\* No two linked objects are the same.
UniqueOK ==
    \A p, q \in Offset :
       IsLinked(p) /\ IsLinked(q) /\ objects[p].type = objects[q].type /\ objects[p].key = objects[q].key
       => p = q

\* A data object is in the list of its field: something points to it.
IsListed(p) == p \in Offset /\ \E q \in Offset : objects[q].list = p
FieldName(p) == IF objects[p].type = "field" THEN objects[p].key ELSE objects[p].key.field
IsField(fp, name) == IsLinked(fp) /\ objects[fp].type = "field" /\ objects[fp].key = name

\* The list of a field has the listed objects with its name, the last one first.
ListsOK ==
    /\ \A q \in Offset : objects[q].list # 0 =>
          /\ IsLinked(objects[q].list) /\ objects[objects[q].list].type = "data"
          /\ FieldName(objects[q].list) = FieldName(q)
          /\ objects[q].type = "data" => objects[q].list < q
    /\ \A p \in Offset : IsListed(p) => \E fp \in Offset : IsField(fp, FieldName(p))
    /\ \A q \in Offset : (IsListed(q) \/ (IsLinked(q) /\ objects[q].type = "field")) =>
          \A p \in Offset : (IsListed(p) /\ FieldName(p) = FieldName(q) /\ (objects[q].type = "data" => p < q))
             => p <= objects[q].list

\* An object just appended: it will be the last of its chain and has no equal.
Fresh(p) ==
    /\ p = Len(objects) /\ ~IsLinked(p) /\ objects[p].next = 0 /\ objects[p].list = 0
    /\ \A q \in Offset : ~(IsLinked(q) /\ objects[q].type = objects[p].type /\ objects[q].key = objects[p].key)

\* An item of an entry: the object of payload d.
ItemOK(p, d) ==
    /\ IsLinked(p) /\ objects[p].type = "data" /\ objects[p].key = d
    /\ p \notin orphans => IsListed(p)

NewData == {"link_data", "tail_data", "field", "link_field", "tail_field", "next_field", "head_data"}
NewField == {"link_field", "tail_field", "next_field", "head_data"}

\* What is done of the entry, and what is to do
ProgressOK ==
    writer.pc \notin {"idle", "dead"} =>
      /\ Len(writer.want) = Len(writer.done) + Len(writer.todo)
      /\ \A k \in DOMAIN writer.todo : writer.todo[k] = writer.want[Len(writer.done) + k]
      /\ \A i \in DOMAIN writer.done : ItemOK(writer.done[i], writer.want[i])

DataOK ==
    writer.pc \in NewData =>
      /\ writer.todo # <<>> /\ writer.p \in Offset
      /\ objects[writer.p].type = "data" /\ objects[writer.p].key = writer.todo[1]
      /\ \A q \in Offset : IsListed(q) => q < writer.p
      /\ IF writer.pc = "link_data" THEN Fresh(writer.p) ELSE IsLinked(writer.p)
      /\ writer.pc = "tail_data" => IsLast(writer.p, "data", BucketOf(writer.p))
      /\ writer.pc # "head_data" => objects[writer.p].list = 0
FieldOK ==
    writer.pc \in NewField =>
      /\ writer.fp \in Offset
      /\ objects[writer.fp].type = "field" /\ objects[writer.fp].key = FieldName(writer.p)
      /\ IF writer.pc = "link_field" THEN Fresh(writer.fp) ELSE IsLinked(writer.fp)
      /\ writer.pc = "tail_field" => IsLast(writer.fp, "field", BucketOf(writer.fp))
      /\ writer.pc = "head_data" => objects[writer.p].list = objects[writer.fp].list

\* Every linked data object is listed, or an orphan, or at work.
ListedOK ==
    writer.pc # "dead" =>
      \A p \in Offset : IsLinked(p) /\ objects[p].type = "data" =>
         IsListed(p) \/ p \in orphans \/ (writer.pc \in NewData /\ p = writer.p)

EntriesOK ==
    \A e \in entries : /\ Len(e.items) = Len(e.want)
                       /\ \A i \in DOMAIN e.items : ItemOK(e.items[i], e.want[i])

\* What the header counts
HeaderOK ==
    /\ header.objects = Len(objects) + 2
    /\ (used.unmapped = 0 /\ writer.pc # "dead") =>
         /\ header.data + (IF writer.pc \in {"link_data", "tail_data"} THEN 1 ELSE 0) = Cardinality(Of("data"))
         /\ header.field + (IF writer.pc \in {"link_field", "tail_field"} THEN 1 ELSE 0) = Cardinality(Of("field"))

\* What the reader looks for is still before it.
Value(x, d, name) == IsListed(x) /\ objects[x].key = d /\ d.field = name
Ahead(p) == \E x \in Offset : /\ IsLinked(x) /\ objects[x].type = reader.type /\ objects[x].key = reader.key
                              /\ p # 0 /\ p <= x
WalkOK ==
    reader.pc = "walk" =>
      /\ reader.key \in Keys(reader.type)
      /\ reader.p # 0 => InChain(reader.p, reader.type, Bucket(reader.type, reader.key))
      /\ reader.before # {} => Ahead(reader.p)
      /\ reader.type = "data" => reader.before \subseteq {reader.key}
      /\ reader.type = "field" => \A d \in reader.before : \E x \in Offset : Value(x, d, reader.key)
      /\ reader.seen = <<>>
ListOK ==
    reader.pc = "list" =>
      /\ reader.type = "field"
      /\ reader.p # 0 => IsListed(reader.p) /\ FieldName(reader.p) = reader.key
      /\ \A d \in reader.before : \/ \E i \in DOMAIN reader.seen : reader.seen[i] = d
                                  \/ \E x \in Offset : Value(x, d, reader.key) /\ x <= reader.p
      /\ \A i \in DOMAIN reader.seen : \E x \in Offset : Value(x, reader.seen[i], reader.key) /\ reader.p < x
      /\ \A i, k \in DOMAIN reader.seen : reader.seen[i] = reader.seen[k] => i = k

\* The objects and tables; the append under way; the reader
TablesOK == ObjectsOK /\ HeadsOK /\ NextOK /\ UniqueOK /\ ListsOK
WriterOK == TailsOK /\ ProgressOK /\ DataOK /\ FieldOK /\ ListedOK /\ HeaderOK
ReaderOK == WalkOK /\ ListOK /\ LookupExact /\ EnumerateExact

FileInv == TypesOK /\ TablesOK /\ WriterOK /\ EntriesOK /\ ReaderOK

-----------------------------------------------------------------------------
(* Chains                                                                  *)

\* What the recursive function of Chain is.
LEMMA ChainSteps ==
    ASSUME NEW n \in Nat, n = Len(objects), NEW link \in [0..n -> 0..n], NEW p \in 0..n
    PROVE  /\ Chain(p, link) \in [0..n -> 0..n] /\ Chain(p, link)[0] = p
           /\ \A i \in 1..n : Chain(p, link)[i] = link[Chain(p, link)[i - 1]]
<1> DEFINE at == CHOOSE f : f = [i \in 0..n |-> IF i = 0 THEN p ELSE link[f[i - 1]]]
           g == [x \in Nat \X (0..n) |-> link[x[2]]]
<1>1. g \in [Nat \X (0..n) -> 0..n]
  OBVIOUS
<1>2. \E f : Iterates(f, 0..n, g, p, n)
  <2> HIDE DEF g, at
  <2> QED
    BY <1>1, Iteration
<1>3. PICK f : Iterates(f, 0..n, g, p, n)
  BY <1>2
<1>4. f \in [0..n -> 0..n] /\ f[0] = p /\ \A k \in 1..n : f[k] = g[<<k, f[k - 1]>>]
  <2> HIDE DEF g, at
  <2> QED
    BY <1>3 DEF Iterates
<1>5. ASSUME NEW k \in 1..n PROVE f[k] = link[f[k - 1]]
  <2>1. k \in Nat /\ k - 1 \in 0..n
    OBVIOUS
  <2>2. f[k - 1] \in 0..n
    BY <1>4, <2>1, SMTT(20)
  <2>3. <<k, f[k - 1]>> \in Nat \X (0..n)
    BY <2>1, <2>2
  <2> QED
    BY <1>4, <2>3
<1>6. f = [i \in 0..n |-> IF i = 0 THEN p ELSE link[f[i - 1]]]
  BY <1>4, <1>5
<1>7. at = [i \in 0..n |-> IF i = 0 THEN p ELSE link[at[i - 1]]]
  BY <1>6
<1>8. Chain(p, link) = at
  BY DEF Chain
<1>9. at[0] = p /\ \A i \in 1..n : at[i] = link[at[i - 1]]
  <2> HIDE DEF at, g
  <2>1. 0 \in 0..n /\ \A i \in 1..n : i \in 0..n /\ i # 0
    OBVIOUS
  <2> QED
    BY <1>7, <2>1
<1>10. \A k \in 0..n : at[k] \in 0..n
  <2> DEFINE S == {k \in 0..n : at[k] \in 0..n}
  <2> HIDE DEF at, g
  <2>1. 0 \in S
    BY <1>9
  <2>2. ASSUME NEW k \in 1..n, k - 1 \in S PROVE k \in S
    BY <1>9, <2>2
  <2>3. \A k \in 0..n : k \in S
    <3> HIDE DEF S
    <3> QED
      BY <2>1, <2>2, IntervalInduction
  <2> QED
    BY <2>3
<1>11. at \in [0..n -> 0..n]
  <2> HIDE DEF at, g
  <2>1. DOMAIN at = 0..n /\ at = [i \in 0..n |-> at[i]]
    BY <1>7
  <2> QED
    BY <1>10, <2>1
<1> QED
  BY <1>8, <1>9, <1>11

\* In the order of rank: p is the first element of S, or 0; link leads from each element
\* to the next one, or to 0.
First(S, rank, p) ==
    IF p = 0 THEN S = {} ELSE p \in S /\ \A x \in S : x = p \/ rank[p] < rank[x]
Leads(S, rank, link) ==
    \A p \in S :
      IF link[p] = 0 THEN \A x \in S : x = p \/ rank[x] < rank[p]
      ELSE /\ link[p] \in S /\ rank[p] < rank[link[p]]
           /\ \A x \in S : rank[p] < rank[x] => x = link[p] \/ rank[link[p]] < rank[x]

\* A walk along such links from the first element visits all of S and nothing else.
LEMMA WalkVisits ==
    ASSUME NEW n \in Nat, NEW S, S \subseteq 1..n, NEW rank \in [1..n -> 1..n],
           NEW link \in [0..n -> 0..n], link[0] = 0, NEW p \in 0..n, n = Len(objects),
           First(S, rank, p), Leads(S, rank, link)
    PROVE  DOMAIN Chain(p, link) = 0..n /\ Chain(p, link)[0] = p /\ Offsets(Chain(p, link)) = S
<1>0. PICK at : at = Chain(p, link)
  OBVIOUS
<1>a. at \in [0..n -> 0..n] /\ at[0] = p /\ \A i \in 1..n : at[i] = link[at[i - 1]]
  BY <1>0, ChainSteps
<1>r. \A x \in S : x \in 1..n /\ rank[x] \in 1..n /\ rank[x] \in Nat
  OBVIOUS
<1>1. \A i \in 0..n : at[i] # 0 => at[i] \in S /\ rank[at[i]] > i
  <2> DEFINE T == {i \in 0..n : at[i] # 0 => at[i] \in S /\ rank[at[i]] > i}
  <2>1. 0 \in T
    BY <1>a, <1>r DEF First
  <2>2. ASSUME NEW k \in 1..n, k - 1 \in T PROVE k \in T
    <3>0. k - 1 \in 0..n
      OBVIOUS
    <3>1. PICK q \in 0..n : q = at[k - 1]
      BY <1>a, <3>0
    <3>2. at[k] = link[q] /\ k \in 0..n
      BY <1>a, <3>1
    <3>3. CASE q = 0
      BY <3>2, <3>3
    <3>4. CASE q # 0
      <4>1. q \in S /\ rank[q] > k - 1
        BY <2>2, <3>1, <3>4
      <4>2. SUFFICES ASSUME link[q] # 0 PROVE link[q] \in S /\ rank[link[q]] > k
        BY <3>2
      <4>3. link[q] \in S /\ rank[q] < rank[link[q]]
        BY <4>1, <4>2 DEF Leads
      <4>4. rank[q] \in Nat /\ rank[link[q]] \in Nat
        BY <4>1, <4>3, <1>r
      <4> QED
        BY <4>1, <4>3, <4>4
    <3> QED
      BY <3>3, <3>4
  <2>3. \A k \in 0..n : k \in T
    <3> HIDE DEF T
    <3> QED
      BY <2>1, <2>2, IntervalInduction
  <2> QED
    BY <2>3
<1>2. ASSUME NEW x \in S PROVE \E i \in 0..n : at[i] = x
  <2>1. SUFFICES ASSUME \A i \in 0..n : at[i] # x PROVE FALSE
    OBVIOUS
  <2> DEFINE T == {i \in 0..n : at[i] # 0 /\ rank[at[i]] < rank[x]}
  <2>2. 0 \in T
    <3>1. p # x /\ p # 0
      BY <2>1, <1>2, <1>a DEF First
    <3> QED
      BY <1>a, <1>2, <3>1 DEF First
  <2>3. ASSUME NEW k \in 1..n, k - 1 \in T PROVE k \in T
    <3>0. k - 1 \in 0..n
      OBVIOUS
    <3>1. PICK q \in 0..n : q = at[k - 1]
      BY <1>a, <3>0
    <3>2. at[k] = link[q] /\ k - 1 \in 0..n /\ k \in 0..n
      BY <1>a, <3>1
    <3>3. q # 0 /\ rank[q] < rank[x] /\ q \in S
      BY <2>3, <3>1, <3>2, <1>1
    <3>4. x # link[q] /\ x # q
      BY <2>1, <3>1, <3>2
    <3>5. rank[q] \in Nat /\ rank[x] \in Nat
      BY <3>3, <1>r, <1>2
    <3>6. link[q] # 0
      <4>1. ASSUME link[q] = 0 PROVE rank[x] < rank[q]
        BY <4>1, <3>3, <3>4, <1>2 DEF Leads
      <4> QED
        BY <4>1, <3>3, <3>5
    <3>7. rank[link[q]] < rank[x]
      BY <3>3, <3>4, <3>6, <1>2 DEF Leads
    <3> QED
      BY <3>2, <3>6, <3>7
  <2>4. \A k \in 0..n : k \in T
    <3> HIDE DEF T
    <3> QED
      BY <2>2, <2>3, IntervalInduction
  <2>5. n \in 0..n /\ at[n] # 0
    BY <2>4
  <2>6. at[n] \in S /\ rank[at[n]] > n
    BY <1>1, <2>5
  <2>7. rank[at[n]] \in 1..n
    BY <2>6, <1>r
  <2> QED
    BY <2>6, <2>7
<1>3. DOMAIN at = 0..n /\ 0 \notin S
  BY <1>a
<1>4. {at[i] : i \in 0..n} \ {0} = S
  BY <1>1, <1>2, <1>3
<1> QED
  BY <1>0, <1>a, <1>3, <1>4 DEF Offsets

\* The bucket of a key is one of the table.
LEMMA BucketInTable ==
    ASSUME NEW t \in Types, NEW key \in Keys(t)
    PROVE  /\ Bucket(t, key) \in Slots(t) /\ Hash[<<t, key>>] \in Nat
           /\ Buckets[t] \in Nat /\ Buckets[t] > 0
<1>1. <<t, key>> \in ({"data"} \X Payloads) \union ({"field"} \X Fields)
  BY DEF Types, Keys
<1>2. PICK h \in Nat : h = Hash[<<t, key>>]
  BY <1>1, JournalFileAssumption
<1>3. PICK n \in Nat : n = Buckets[t] /\ n > 0
  BY JournalFileAssumption
<1>4. h % n \in 0 .. n - 1
  BY <1>3
<1> QED
  BY <1>2, <1>3, <1>4 DEF Bucket, Slots

\* The offsets of a file.
LEMMA OffsetFacts ==
    ASSUME TypesOK
    PROVE  /\ Len(objects) \in Nat /\ Offset = 1 .. Len(objects)
           /\ \A p \in Offset : /\ p \in Nat /\ p > 0 /\ p <= Len(objects)
                                /\ objects[p] \in Objects
                                /\ objects[p].type \in Types /\ objects[p].next \in Nat
                                /\ objects[p].list \in Nat
<1>1. objects \in Seq(Objects)
  BY DEF TypesOK
<1>2. Len(objects) \in Nat /\ Offset = 1 .. Len(objects) /\ \A p \in Offset : objects[p] \in Objects
  BY <1>1 DEF Offset
<1> QED
  BY <1>2 DEF Objects

\* Of a bucket: the offsets that head and tail have.
LEMMA ItemFacts ==
    ASSUME TypesOK, NEW t \in Types, NEW b \in Slots(t)
    PROVE  /\ table[t] \in [Slots(t) -> Items] /\ table[t][b] \in Items
           /\ table[t][b].head \in Nat /\ table[t][b].tail \in Nat
<1>1. table[t] \in [Slots(t) -> Items]
  BY DEF TypesOK
<1>2. table[t][b] \in Items
  BY <1>1
<1> QED
  BY <1>1, <1>2 DEF Items

\* The chain of a bucket has the linked objects of the bucket.
LEMMA HashChainFacts ==
    ASSUME TypesOK, HeadsOK, NextOK, NEW t \in Types, NEW b \in Slots(t)
    PROVE  /\ Offsets(HashChain(t, b)) = {p \in Offset : InChain(p, t, b)}
           /\ HashChain(t, b)[0] = table[t][b].head
           /\ DOMAIN HashChain(t, b) = 0 .. Len(objects)
<1>1. PICK n \in Nat : n = Len(objects) /\ Offset = 1..n
  BY OffsetFacts
<1>2. PICK S : S = {p \in Offset : InChain(p, t, b)}
  OBVIOUS
<1>3. PICK head : head = table[t][b].head
  OBVIOUS
<1>4. PICK link : link = NextHash
  OBVIOUS
<1> DEFINE rank == [x \in 1..n |-> x]
<1>5. rank \in [1..n -> 1..n] /\ \A x \in 1..n : rank[x] = x
  OBVIOUS
<1>6. S \subseteq 1..n /\ \A x \in S : x \in Offset /\ x \in Nat /\ rank[x] = x /\ InChain(x, t, b)
  BY <1>1, <1>2
<1>7. head \in 0..n /\ First(S, rank, head)
  <2>1. CASE head = 0
    <3>1. S = {}
      BY <1>2, <1>3, <2>1 DEF HeadsOK
    <3> QED
      BY <2>1, <3>1 DEF First
  <2>2. CASE head # 0
    <3>1. InChain(head, t, b) /\ \A x \in Offset : InChain(x, t, b) => head <= x
      BY <1>3, <2>2 DEF HeadsOK
    <3>2. head \in Offset /\ head \in S /\ head \in 1..n
      BY <3>1, <1>1, <1>2 DEF InChain, IsLinked
    <3>3. ASSUME NEW x \in S PROVE x = head \/ rank[head] < rank[x]
      <4>1. head <= x /\ head \in Nat /\ x \in Nat /\ rank[x] = x /\ rank[head] = head
        BY <1>6, <3>1, <3>2, <3>3
      <4> HIDE DEF rank
      <4> QED
        BY <4>1
    <3> QED
      BY <2>2, <3>2, <3>3 DEF First
  <2> QED
    BY <2>1, <2>2
<1>8. link \in [0..n -> 0..n] /\ link[0] = 0 /\ \A p \in Offset : link[p] = objects[p].next
  <2>1. ASSUME NEW p \in Offset PROVE objects[p].next \in 0..n
    <3>1. CASE objects[p].next = 0
      BY <3>1
    <3>2. CASE objects[p].next # 0
      <4>1. objects[p].next \in Offset
        BY <3>2 DEF NextOK, SameChain, IsLinked
      <4> QED
        BY <4>1, <1>1
    <3> QED
      BY <3>1, <3>2
  <2> QED
    BY <1>1, <1>4, <2>1 DEF NextHash
<1>9. Leads(S, rank, link)
  <2>1. SUFFICES ASSUME NEW p \in S
                 PROVE  IF link[p] = 0 THEN \A x \in S : x = p \/ rank[x] < rank[p]
                        ELSE /\ link[p] \in S /\ rank[p] < rank[link[p]]
                             /\ \A x \in S : rank[p] < rank[x] => x = link[p] \/ rank[link[p]] < rank[x]
    BY DEF Leads
  <2>2. p \in Offset /\ p \in Nat /\ rank[p] = p /\ InChain(p, t, b)
    BY <1>6, <2>1
  <2>3. PICK m : m = link[p] /\ m = objects[p].next
    BY <1>8, <2>2
  <2>4. \A x \in S : SameChain(p, x) /\ x \in Offset
    BY <1>6, <2>2 DEF InChain, SameChain
  <2>5. CASE m = 0
    <3>1. \A x \in S : x <= p
      BY <2>2, <2>3, <2>4, <2>5 DEF NextOK, InChain
    <3>2. ASSUME NEW x \in S PROVE x = p \/ rank[x] < rank[p]
      <4>1. x <= p /\ x \in Nat /\ rank[x] = x
        BY <3>1, <3>2, <1>6
      <4> HIDE DEF rank
      <4> QED
        BY <4>1, <2>2
    <3> QED
      BY <2>3, <2>5, <3>2
  <2>6. CASE m # 0
    <3>1. p < m /\ SameChain(p, m) /\ \A x \in Offset : SameChain(p, x) /\ p < x => m <= x
      BY <2>2, <2>3, <2>6 DEF NextOK
    <3>2. m \in Offset /\ InChain(m, t, b)
      BY <2>2, <3>1 DEF SameChain, InChain, IsLinked
    <3>3. m \in S /\ m \in Nat /\ rank[m] = m
      BY <1>2, <1>6, <3>2
    <3>4. ASSUME NEW x \in S, rank[p] < rank[x] PROVE x = m \/ rank[m] < rank[x]
      <4>1. x \in Nat /\ rank[x] = x /\ p < x
        BY <1>6, <2>2, <3>4
      <4>2. m <= x
        BY <2>4, <3>1, <3>4, <4>1
      <4> HIDE DEF rank
      <4> QED
        BY <3>3, <4>1, <4>2
    <3>5. rank[p] < rank[m]
      BY <2>2, <3>1, <3>3
    <3> QED
      BY <2>3, <2>6, <3>3, <3>4, <3>5
  <2> QED
    BY <2>5, <2>6
<1>10. DOMAIN Chain(head, link) = 0..n /\ Chain(head, link)[0] = head /\ Offsets(Chain(head, link)) = S
  <2> HIDE DEF rank
  <2> QED
    BY <1>1, <1>5, <1>6, <1>7, <1>8, <1>9, WalkVisits
<1> QED
  BY <1>1, <1>2, <1>3, <1>4, <1>10 DEF HashChain

\* What a search for a key by the writer finds: the linked object, or that there is none.
Found(p, t, key) ==
    IF p = 0 THEN \A q \in Offset : ~(IsLinked(q) /\ objects[q].type = t /\ objects[q].key = key)
    ELSE IsLinked(p) /\ objects[p].type = t /\ objects[p].key = key

\* That is what FindObject() returns.
LEMMA FindFacts ==
    ASSUME TypesOK, ObjectsOK, HeadsOK, NextOK, NEW t \in Types, NEW key \in Keys(t)
    PROVE  Found(FindObject(t, key), t, key)
<1>1. PICK b \in Slots(t) : b = Bucket(t, key)
  BY BucketInTable
<1>2. PICK c : c = HashChain(t, b)
  OBVIOUS
<1>3. PICK n \in Nat : n = Len(objects) /\ DOMAIN c = 0..n
  BY <1>1, <1>2, HashChainFacts, OffsetFacts
<1>4. {c[i] : i \in DOMAIN c} \ {0} = {p \in Offset : InChain(p, t, b)}
  BY <1>1, <1>2, HashChainFacts DEF Offsets
<1>5. PICK found : found = {i \in DOMAIN c : c[i] # 0 /\ Matches(c[i], t, key)}
  OBVIOUS
<1>6. FindObject(t, key) = IF found = {} THEN 0 ELSE c[CHOOSE i \in found : \A k \in found : i <= k]
  BY <1>1, <1>2, <1>5 DEF FindObject
<1>7. CASE found = {}
  <2>1. ASSUME NEW q \in Offset, IsLinked(q), objects[q].type = t, objects[q].key = key PROVE FALSE
    <3>1. InChain(q, t, b)
      BY <2>1, <1>1 DEF InChain, BucketOf
    <3>2. PICK i \in DOMAIN c : c[i] = q /\ q # 0
      BY <1>4, <2>1, <3>1
    <3>3. Matches(q, t, key)
      BY <2>1 DEF Matches, ObjectsOK
    <3> QED
      BY <1>5, <1>7, <3>2, <3>3
  <2> QED
    BY <1>6, <1>7, <2>1 DEF Found
<1>8. CASE found # {}
  <2>1. found \subseteq Nat
    BY <1>3, <1>5
  <2>2. \E i \in found : \A k \in found : i <= k
    BY <1>8, <2>1, LeastElement
  <2>3. PICK i \in found : FindObject(t, key) = c[i]
    BY <1>6, <1>8, <2>2
  <2>4. i \in DOMAIN c /\ c[i] # 0 /\ Matches(c[i], t, key)
    BY <1>5, <2>3
  <2>5. InChain(c[i], t, b) /\ objects[c[i]].key = key
    BY <1>4, <2>4 DEF Matches
  <2> QED
    BY <2>3, <2>4, <2>5 DEF Found, InChain
<1> QED
  BY <1>7, <1>8

\* The list of a field has the listed objects with its name.
LEMMA FieldListFacts ==
    ASSUME TypesOK, ListsOK, NEW name, NEW fp \in Offset, IsField(fp, name)
    PROVE  Offsets(FieldList(fp)) = {p \in Offset : IsListed(p) /\ FieldName(p) = name}
<1>1. PICK n \in Nat : n = Len(objects) /\ Offset = 1..n
  BY OffsetFacts
<1>2. PICK S : S = {p \in Offset : IsListed(p) /\ FieldName(p) = name}
  OBVIOUS
<1>3. PICK head : head = objects[fp].list
  OBVIOUS
<1>4. PICK link : link = NextField
  OBVIOUS
<1> DEFINE rank == [x \in 1..n |-> n + 1 - x]
<1>5. rank \in [1..n -> 1..n] /\ \A x \in 1..n : rank[x] = n + 1 - x
  OBVIOUS
<1>6. \A x, y \in 1..n : rank[x] < rank[y] <=> y < x
  OBVIOUS
<1> HIDE DEF rank
<1>7. S \subseteq 1..n /\ \A x \in S : x \in Offset /\ x \in Nat /\ x > 0 /\ IsListed(x) /\ FieldName(x) = name
  BY <1>1, <1>2
<1>8. \A q \in Offset : objects[q].list # 0 =>
          /\ objects[q].list \in Offset /\ IsListed(objects[q].list)
          /\ objects[objects[q].list].type = "data" /\ FieldName(objects[q].list) = FieldName(q)
          /\ objects[q].type = "data" => objects[q].list < q
  BY DEF ListsOK, IsLinked, IsListed
<1>9. objects[fp].type = "field" /\ FieldName(fp) = name /\ IsLinked(fp)
  BY DEF IsField, FieldName
<1>10. \A x \in S : x <= head /\ objects[x].type = "data"
  <2>1. \A x \in S : x <= head
    BY <1>3, <1>7, <1>9 DEF ListsOK
  <2>2. \A x \in S : objects[x].type = "data"
    BY <1>7, <1>8 DEF IsListed
  <2> QED
    BY <2>1, <2>2
<1>11. head \in 0..n /\ First(S, rank, head)
  <2>1. CASE head = 0
    <3>1. S = {}
      BY <1>7, <1>10, <2>1
    <3> QED
      BY <2>1, <3>1 DEF First
  <2>2. CASE head # 0
    <3>1. head \in Offset /\ IsListed(head) /\ FieldName(head) = name
      BY <1>3, <1>8, <1>9, <2>2
    <3>2. head \in S /\ head \in 1..n
      BY <1>2, <1>7, <3>1
    <3>3. ASSUME NEW x \in S PROVE x = head \/ rank[head] < rank[x]
      BY <1>6, <1>7, <1>10, <3>2, <3>3
    <3> QED
      BY <2>2, <3>2, <3>3 DEF First
  <2> QED
    BY <2>1, <2>2
<1>12. link \in [0..n -> 0..n] /\ link[0] = 0 /\ \A p \in Offset : link[p] = objects[p].list
  <2>1. ASSUME NEW p \in Offset PROVE objects[p].list \in 0..n
    BY <1>1, <1>8
  <2> QED
    BY <1>1, <1>4, <2>1 DEF NextField
<1>13. Leads(S, rank, link)
  <2>1. SUFFICES ASSUME NEW p \in S
                 PROVE  IF link[p] = 0 THEN \A x \in S : x = p \/ rank[x] < rank[p]
                        ELSE /\ link[p] \in S /\ rank[p] < rank[link[p]]
                             /\ \A x \in S : rank[p] < rank[x] => x = link[p] \/ rank[link[p]] < rank[x]
    BY DEF Leads
  <2>2. p \in Offset /\ p \in 1..n /\ IsListed(p) /\ FieldName(p) = name /\ objects[p].type = "data"
    BY <1>7, <1>10, <2>1
  <2>3. PICK m : m = link[p] /\ m = objects[p].list
    BY <1>12, <2>2
  <2>4. \A x \in S : x < p => x <= m
    BY <1>7, <2>2, <2>3 DEF ListsOK
  <2>5. CASE m = 0
    <3>1. ASSUME NEW x \in S PROVE x = p \/ rank[x] < rank[p]
      <4>1. ~(x < p) /\ x \in 1..n
        BY <1>7, <2>4, <2>5, <3>1
      <4> QED
        BY <1>6, <2>2, <4>1
    <3> QED
      BY <2>3, <2>5, <3>1
  <2>6. CASE m # 0
    <3>1. m \in Offset /\ IsListed(m) /\ FieldName(m) = name /\ m < p
      BY <1>8, <2>2, <2>3, <2>6
    <3>2. m \in S /\ m \in 1..n
      BY <1>2, <1>7, <3>1
    <3>3. ASSUME NEW x \in S, rank[p] < rank[x] PROVE x = m \/ rank[m] < rank[x]
      <4>1. x \in 1..n /\ x < p
        BY <1>6, <1>7, <2>2, <3>3
      <4>2. x <= m
        BY <2>4, <3>3, <4>1
      <4> QED
        BY <1>6, <3>2, <4>1, <4>2
    <3>4. rank[p] < rank[m]
      BY <1>6, <2>2, <3>1, <3>2
    <3> QED
      BY <2>3, <2>6, <3>2, <3>3, <3>4
  <2> QED
    BY <2>5, <2>6
<1>14. DOMAIN Chain(head, link) = 0..n /\ Chain(head, link)[0] = head /\ Offsets(Chain(head, link)) = S
  <2>1. S \subseteq 1..n /\ n = Len(objects) /\ rank \in [1..n -> 1..n]
    BY <1>1, <1>5, <1>7
  <2>2. link \in [0..n -> 0..n] /\ link[0] = 0 /\ head \in 0..n
    BY <1>11, <1>12
  <2>3. First(S, rank, head) /\ Leads(S, rank, link)
    BY <1>11, <1>13
  <2> QED
    BY <2>1, <2>2, <2>3, WalkVisits
<1> QED
  BY <1>2, <1>3, <1>4, <1>14 DEF FieldList

\* What a field lists: the keys of the listed objects with its name.
LEMMA ListedFacts ==
    ASSUME TypesOK, ObjectsOK, HeadsOK, NextOK, ListsOK, NEW name \in Fields, NEW d
    PROVE  d \in Listed(name) <=> \E x \in Offset : IsListed(x) /\ FieldName(x) = name /\ objects[x].key = d
<1>1. PICK fp : fp = FindObject("field", name)
  OBVIOUS
<1>2. Found(fp, "field", name)
  BY <1>1, FindFacts DEF Types, Keys
<1>3. CASE fp = 0
  <2>1. Listed(name) = {}
    BY <1>1, <1>3 DEF Listed
  <2>2. ASSUME NEW x \in Offset, IsListed(x), FieldName(x) = name PROVE FALSE
    <3>1. PICK q \in Offset : IsField(q, name)
      BY <2>2 DEF ListsOK
    <3> QED
      BY <1>2, <1>3, <3>1 DEF Found, IsField
  <2> QED
    BY <2>1, <2>2
<1>4. CASE fp # 0
  <2>1. fp \in Offset /\ IsField(fp, name)
    BY <1>2, <1>4 DEF Found, IsField, IsLinked
  <2>2. Offsets(FieldList(fp)) = {p \in Offset : IsListed(p) /\ FieldName(p) = name}
    BY <2>1, FieldListFacts
  <2>3. Listed(name) = {objects[p].key : p \in Offsets(FieldList(fp))}
    BY <1>1, <1>4 DEF Listed
  <2> QED
    BY <2>2, <2>3
<1> QED
  BY <1>3, <1>4

-----------------------------------------------------------------------------
(* What a step leaves alone                                                *)

\* Objects keep what they are, and are not unlinked, taken from a list or forgotten as
\* orphans.
Grows ==
    /\ \A q \in Offset : /\ q \in Offset' /\ objects'[q].type = objects[q].type
                         /\ objects'[q].key = objects[q].key
    /\ \A q \in Offset : IsLinked(q) => IsLinked(q)'
    /\ \A q \in Offset : IsListed(q) => IsListed(q)'
    /\ orphans \subseteq orphans'

\* Nothing points elsewhere: the file is as it was.
LEMMA SameFile ==
    ASSUME UNCHANGED <<objects, table>>
    PROVE  /\ Offset' = Offset
           /\ \A q : IsLinked(q)' <=> IsLinked(q)
           /\ \A q : IsListed(q)' <=> IsListed(q)
           /\ \A q : BucketOf(q)' = BucketOf(q) /\ FieldName(q)' = FieldName(q)
           /\ \A q, t, b : InChain(q, t, b)' <=> InChain(q, t, b)
           /\ \A q, t, b : IsLast(q, t, b)' <=> IsLast(q, t, b)
           /\ \A q : Fresh(q)' <=> Fresh(q)
           /\ orphans \subseteq orphans' => Grows
           /\ TablesOK => TablesOK'
<1>1. objects' = objects /\ table' = table /\ Offset' = Offset
  BY DEF Offset
<1>2. /\ \A q : IsLinked(q)' <=> IsLinked(q)
      /\ \A q : IsListed(q)' <=> IsListed(q)
      /\ \A q : BucketOf(q)' = BucketOf(q) /\ FieldName(q)' = FieldName(q)
  BY <1>1 DEF IsLinked, IsListed, BucketOf, FieldName
<1>3. /\ \A q, t, b : InChain(q, t, b)' <=> InChain(q, t, b)
      /\ \A p, q : SameChain(p, q)' <=> SameChain(p, q)
  BY <1>1, <1>2 DEF InChain, SameChain
<1>4. /\ \A q, t, b : IsLast(q, t, b)' <=> IsLast(q, t, b)
      /\ \A q : Fresh(q)' <=> Fresh(q)
  BY <1>1, <1>2, <1>3 DEF IsLast, Fresh
<1>5. orphans \subseteq orphans' => Grows
  BY <1>1, <1>2 DEF Grows
<1>6. TablesOK => ObjectsOK' /\ UniqueOK'
  BY <1>1, <1>2 DEF TablesOK, ObjectsOK, UniqueOK
<1>7. TablesOK => HeadsOK' /\ NextOK'
  BY <1>1, <1>2, <1>3 DEF TablesOK, HeadsOK, NextOK
<1>8. TablesOK => ListsOK'
  BY <1>1, <1>2 DEF TablesOK, ListsOK, IsField
<1> QED
  BY <1>1, <1>2, <1>3, <1>4, <1>5, <1>6, <1>7, <1>8 DEF TablesOK

\* An item of an entry stays one.
LEMMA GrowsItem ==
    ASSUME Grows, NEW p, NEW d, ItemOK(p, d)
    PROVE  ItemOK(p, d)'
<1>1. p \in Offset /\ IsLinked(p)
  BY DEF ItemOK, IsLinked
<1> QED
  BY <1>1 DEF ItemOK, Grows

\* The entries stay as they are.
LEMMA GrowsEntries ==
    ASSUME Grows, EntriesOK, UNCHANGED entries
    PROVE  EntriesOK'
<1>1. ASSUME NEW e \in entries PROVE /\ Len(e.items) = Len(e.want)
                                    /\ \A i \in DOMAIN e.items : ItemOK(e.items[i], e.want[i])'
  BY <1>1, GrowsItem DEF EntriesOK
<1> QED
  BY <1>1 DEF EntriesOK

\* What the writer has done of an entry stays done.
LEMMA GrowsProgress ==
    ASSUME Grows, ProgressOK, writer.pc \notin {"idle", "dead"}, writer'.want = writer.want,
           writer'.done = writer.done, writer'.todo = writer.todo
    PROVE  ProgressOK'
<1>1. \A i \in DOMAIN writer.done : ItemOK(writer.done[i], writer.want[i])'
  BY GrowsItem DEF ProgressOK
<1> QED
  BY <1>1 DEF ProgressOK

\* What the reader has found and has before it stays.
LEMMA GrowsReader ==
    ASSUME Grows, ReaderOK, UNCHANGED reader
    PROVE  ReaderOK'
<1>1. \A q \in Offset : IsLinked(q) => /\ q \in Offset' /\ IsLinked(q)' /\ BucketOf(q)' = BucketOf(q)
                                       /\ objects'[q].type = objects[q].type
                                       /\ objects'[q].key = objects[q].key
  BY DEF Grows, BucketOf
<1>2. \A q, t, b : InChain(q, t, b) => InChain(q, t, b)'
  BY <1>1 DEF InChain, IsLinked
<1>3. \A p : Ahead(p) => Ahead(p)'
  BY <1>1 DEF Ahead
<1>4. \A x, d, name : Value(x, d, name) => Value(x, d, name)' /\ x \in Offset'
  BY DEF Value, Grows, IsListed
<1>5. \A q : IsListed(q) => IsListed(q)' /\ FieldName(q)' = FieldName(q)
  BY DEF Grows, FieldName, IsListed
<1>6. WalkOK'
  <2>1. WalkOK /\ reader' = reader
    BY DEF ReaderOK
  <2> QED
    BY <2>1, <1>2, <1>3, <1>4 DEF WalkOK, Value, IsListed
<1>7. ListOK'
  <2>1. ListOK /\ reader' = reader
    BY DEF ReaderOK
  <2> QED
    BY <2>1, <1>4, <1>5 DEF ListOK
<1>8. LookupExact' /\ EnumerateExact'
  <2>1. LookupExact /\ EnumerateExact /\ reader' = reader
    BY DEF ReaderOK
  <2> QED
    BY <2>1 DEF LookupExact, EnumerateExact
<1> QED
  BY <1>6, <1>7, <1>8 DEF ReaderOK

\* Use() counts.
LEMMA UseFacts ==
    ASSUME used \in Bounds, NEW what \in {"entries", "full", "unmapped", "reads", "kills"}, Use(what)
    PROVE  /\ used' \in Bounds
           /\ what # "unmapped" => used'.unmapped = used.unmapped
           /\ what = "unmapped" => used'.unmapped # 0
BY DEF Use, Bounds

-----------------------------------------------------------------------------
(* The reader's steps                                                      *)

\* A step of the reader leaves the file and the writer alone.
LEMMA ReaderStep ==
    ASSUME FileInv, UNCHANGED <<objects, table, header, entries, writer, orphans>>,
           used' \in Bounds, used'.unmapped = used.unmapped,
           reader' = [pc |-> "idle"] \/ reader' \in Readers, ReaderOK'
    PROVE  FileInv'
<1>1. objects' = objects /\ table' = table /\ header' = header /\ entries' = entries
      /\ writer' = writer /\ orphans' = orphans
  OBVIOUS
<1>2. TypesOK'
  BY <1>1 DEF FileInv, TypesOK, Slots
<1>3. /\ Offset' = Offset
      /\ \A q : IsLinked(q)' <=> IsLinked(q)
      /\ \A q : IsListed(q)' <=> IsListed(q)
      /\ \A q : BucketOf(q)' = BucketOf(q) /\ FieldName(q)' = FieldName(q)
      /\ \A q, t, b : InChain(q, t, b)' <=> InChain(q, t, b)
      /\ \A q, t, b : IsLast(q, t, b)' <=> IsLast(q, t, b)
      /\ \A q : Fresh(q)' <=> Fresh(q)
      /\ Grows /\ TablesOK'
  BY <1>1, SameFile DEF FileInv
<1>4. EntriesOK'
  BY <1>1, <1>3, GrowsEntries DEF FileInv
<1>5. ProgressOK'
  <2>1. \A p, d : ItemOK(p, d) => ItemOK(p, d)'
    BY <1>3, GrowsItem
  <2>2. ProgressOK
    BY DEF FileInv, WriterOK
  <2> QED
    BY <1>1, <2>1, <2>2 DEF ProgressOK
<1>6. TailsOK'
  <2>1. TailsOK
    BY DEF FileInv, WriterOK
  <2> QED
    BY <1>1, <1>3, <2>1 DEF TailsOK, Linking, Slots
<1>7. DataOK' /\ FieldOK'
  <2>1. DataOK /\ FieldOK
    BY DEF FileInv, WriterOK
  <2> QED
    BY <1>1, <1>3, <2>1 DEF DataOK, FieldOK
<1>8. ListedOK' /\ HeaderOK'
  <2>1. ListedOK /\ HeaderOK
    BY DEF FileInv, WriterOK
  <2> QED
    BY <1>1, <1>3, <2>1 DEF ListedOK, HeaderOK, Of
<1> QED
  BY <1>2, <1>3, <1>4, <1>5, <1>6, <1>7, <1>8 DEF FileInv, WriterOK

\* The call returns.
LEMMA ReturnPreserves ==
    ASSUME FileInv, Return
    PROVE  FileInv'
<1>1. reader' = [pc |-> "idle"] /\ UNCHANGED <<objects, table, header, entries, writer, orphans, used>>
  BY DEF Return
<1>2. used' \in Bounds /\ used'.unmapped = used.unmapped
  BY <1>1 DEF FileInv, TypesOK
<1>3. reader'.pc = "idle"
  BY <1>1
<1>4. ReaderOK'
  BY <1>3 DEF ReaderOK, WalkOK, ListOK, LookupExact, EnumerateExact
<1> QED
  BY <1>1, <1>2, <1>4, ReaderStep

\* A reader that does something is one with all its variables.
LEMMA ReaderFacts ==
    ASSUME TypesOK, reader.pc # "idle"
    PROVE  /\ reader \in Readers /\ reader.p \in Nat /\ reader.seen \in Seq(Payloads)
           /\ reader.before \subseteq Payloads /\ reader.type \in Types /\ reader.key \in Names
<1>1. reader \in Readers
  <2>1. [pc |-> "idle"].pc = "idle"
    OBVIOUS
  <2> QED
    BY <2>1 DEF TypesOK
<1> QED
  BY <1>1 DEF Readers

\* One object of the field's list.
LEMMA EnumeratePreserves ==
    ASSUME FileInv, Enumerate
    PROVE  FileInv'
<1>1. reader.pc = "list" /\ UNCHANGED <<objects, table, header, entries, writer, orphans, used>>
  BY DEF Enumerate
<1>2. PICK p \in Nat : p = reader.p
  BY <1>1, ReaderFacts DEF FileInv
<1>3. reader' = IF p = 0 THEN [reader EXCEPT !.pc = "end"]
         ELSE IF objects[p].type # "data" THEN [reader EXCEPT !.pc = "EBADMSG"]
         ELSE [reader EXCEPT !.p = NextField[p], !.seen = Append(@, objects[p].key)]
  BY <1>2 DEF Enumerate
<1>4. TypesOK /\ ListsOK /\ ObjectsOK /\ UniqueOK /\ ListOK
  BY DEF FileInv, TablesOK, ReaderOK
<1>5. reader \in Readers /\ reader.seen \in Seq(Payloads)
  BY <1>1, <1>4, ReaderFacts
<1>6. used' \in Bounds /\ used'.unmapped = used.unmapped
  BY <1>1 DEF FileInv, TypesOK
<1>7. /\ Offset' = Offset /\ objects' = objects
      /\ \A q : IsListed(q)' <=> IsListed(q)
      /\ \A q : FieldName(q)' = FieldName(q)
      /\ \A x, d, name : Value(x, d, name)' <=> Value(x, d, name)
  BY <1>1, SameFile DEF Value
<1>8. /\ reader.type = "field"
      /\ reader.p # 0 => IsListed(reader.p) /\ FieldName(reader.p) = reader.key
      /\ \A d \in reader.before : \/ \E i \in DOMAIN reader.seen : reader.seen[i] = d
                                  \/ \E x \in Offset : Value(x, d, reader.key) /\ x <= reader.p
      /\ \A i \in DOMAIN reader.seen : \E x \in Offset : Value(x, reader.seen[i], reader.key) /\ reader.p < x
      /\ \A i, k \in DOMAIN reader.seen : reader.seen[i] = reader.seen[k] => i = k
  BY <1>1, <1>4 DEF ListOK
<1>9. \A x \in Offset : x \in Nat /\ x > 0
  BY <1>4, OffsetFacts
<1>10. CASE p = 0
  <2>1. reader' = [reader EXCEPT !.pc = "end"]
    BY <1>3, <1>10
  <2>2. /\ reader'.pc = "end" /\ reader'.type = "field" /\ reader'.key = reader.key
        /\ reader'.before = reader.before /\ reader'.seen = reader.seen /\ reader' \in Readers
    BY <1>5, <1>8, <2>1 DEF Readers
  <2>3. EnumerateExact'
    <3>1. \A d \in reader.before : \E i \in DOMAIN reader.seen : reader.seen[i] = d
      BY <1>2, <1>8, <1>9, <1>10
    <3>2. \A i \in DOMAIN reader.seen : reader.seen[i].field = reader.key
      BY <1>8 DEF Value
    <3> QED
      BY <1>8, <2>2, <3>1, <3>2 DEF EnumerateExact
  <2>4. WalkOK' /\ ListOK' /\ LookupExact'
    BY <2>2 DEF WalkOK, ListOK, LookupExact
  <2> QED
    BY <1>1, <1>6, <2>2, <2>3, <2>4, ReaderStep DEF ReaderOK
<1>11. CASE p # 0
  <2>1. p \in Offset /\ IsListed(p) /\ FieldName(p) = reader.key
    BY <1>2, <1>8, <1>11 DEF IsListed
  <2>2. PICK q \in Offset : objects[q].list = p
    BY <2>1 DEF IsListed
  <2>3. objects[p].type = "data" /\ IsLinked(p)
    BY <1>4, <1>11, <2>2 DEF ListsOK
  <2>4. PICK d : d = objects[p].key
    OBVIOUS
  <2>5. d \in Payloads /\ d.field = reader.key
    BY <1>4, <2>1, <2>3, <2>4 DEF ObjectsOK, Keys, FieldName
  <2>6. PICK m : m = objects[p].list
    OBVIOUS
  <2>7. NextField[p] = m /\ m \in Nat
    BY <1>4, <2>1, <2>6, OffsetFacts, <1>11 DEF NextField
  <2>8. reader' = [reader EXCEPT !.p = m, !.seen = Append(@, d)]
    BY <1>3, <1>11, <2>3, <2>4, <2>7
  <2>9. PICK seen : seen = reader.seen
    OBVIOUS
  <2>10. PICK more : more = Append(seen, d)
    OBVIOUS
  <2>11. seen \in Seq(Payloads) /\ more \in Seq(Payloads)
    BY <1>5, <2>5, <2>9, <2>10
  <2>12. PICK n \in Nat : n = Len(seen) /\ DOMAIN seen = 1..n /\ DOMAIN more = 1..(n + 1)
            /\ more[n + 1] = d /\ \A i \in 1..n : more[i] = seen[i]
    BY <2>11, <2>10
  <2>13. /\ reader'.pc = "list" /\ reader'.type = "field" /\ reader'.key = reader.key
         /\ reader'.before = reader.before /\ reader'.seen = more /\ reader'.p = m /\ reader' \in Readers
    BY <1>1, <1>5, <1>8, <2>7, <2>8, <2>9, <2>10, <2>11 DEF Readers
  <2>14. Value(p, d, reader.key)
    BY <2>1, <2>4, <2>5 DEF Value
  <2>15. m < p
    BY <1>4, <2>1, <2>3, <2>6, <2>7, <1>9 DEF ListsOK
  <2>16. m # 0 => IsListed(m) /\ FieldName(m) = reader.key
    <3>1. m # 0 => m \in Offset /\ FieldName(m) = FieldName(p)
      BY <1>4, <2>1, <2>6 DEF ListsOK, IsLinked
    <3> QED
      BY <3>1, <2>1, <2>6 DEF IsListed
  <2>17. ASSUME NEW v \in reader.before
         PROVE  \/ \E i \in DOMAIN more : more[i] = v
                \/ \E x \in Offset : Value(x, v, reader.key) /\ x <= m
    <3>1. CASE \E i \in DOMAIN seen : seen[i] = v
      BY <2>12, <3>1
    <3>2. CASE v = d
      BY <2>12, <3>2
    <3>3. CASE v # d /\ \E x \in Offset : Value(x, v, reader.key) /\ x <= p
      <4>1. PICK x \in Offset : Value(x, v, reader.key) /\ x <= p
        BY <3>3
      <4>2. x < p
        BY <4>1, <3>3, <2>4, <1>9 DEF Value
      <4>3. IsListed(x) /\ FieldName(x) = FieldName(p)
        <5>1. IsListed(x) /\ objects[x].key = v /\ v.field = reader.key
          BY <4>1 DEF Value
        <5>2. PICK y \in Offset : objects[y].list = x
          BY <5>1 DEF IsListed
        <5>3. objects[x].type = "data"
          BY <1>4, <1>9, <5>2 DEF ListsOK
        <5> QED
          BY <2>1, <5>1, <5>3 DEF FieldName
      <4>4. x <= m
        BY <1>4, <2>1, <2>6, <4>2, <4>3 DEF ListsOK
      <4> QED
        BY <4>1, <4>4
    <3> QED
      BY <1>2, <1>8, <2>9, <3>1, <3>2, <3>3
  <2>18. ASSUME NEW i \in DOMAIN more PROVE \E x \in Offset : Value(x, more[i], reader.key) /\ m < x
    <3>1. CASE i = n + 1
      BY <2>1, <2>12, <2>14, <2>15, <3>1
    <3>2. CASE i # n + 1
      <4>1. i \in DOMAIN seen /\ more[i] = seen[i]
        BY <2>12, <2>18, <3>2
      <4>2. PICK x \in Offset : Value(x, seen[i], reader.key) /\ p < x
        BY <1>2, <1>8, <2>9, <4>1
      <4>3. m < x
        BY <1>9, <2>7, <2>15, <4>2
      <4> QED
        BY <4>1, <4>2, <4>3
    <3> QED
      BY <3>1, <3>2
  <2>19. ASSUME NEW i \in DOMAIN seen PROVE seen[i] # d
    <3>1. PICK x \in Offset : Value(x, seen[i], reader.key) /\ p < x
      BY <1>2, <1>8, <2>9, <2>19
    <3>2. IsListed(x) /\ objects[x].key = seen[i] /\ x # p
      BY <1>9, <3>1 DEF Value
    <3>3. PICK y \in Offset : objects[y].list = x
      BY <3>2 DEF IsListed
    <3>4. objects[x].type = "data" /\ IsLinked(x)
      BY <1>4, <1>9, <3>3 DEF ListsOK
    <3> QED
      BY <1>4, <2>1, <2>3, <2>4, <3>2, <3>4 DEF UniqueOK
  <2>20. \A i, k \in DOMAIN more : more[i] = more[k] => i = k
    <3>1. \A i, k \in DOMAIN seen : seen[i] = seen[k] => i = k
      BY <1>8, <2>9
    <3> QED
      BY <2>12, <2>19, <3>1
  <2>21. ListOK'
    BY <1>7, <2>13, <2>16, <2>17, <2>18, <2>20 DEF ListOK
  <2>22. WalkOK' /\ LookupExact' /\ EnumerateExact'
    BY <2>13 DEF WalkOK, LookupExact, EnumerateExact
  <2> QED
    BY <1>1, <1>6, <2>13, <2>21, <2>22, ReaderStep DEF ReaderOK
<1> QED
  BY <1>10, <1>11

\* A listed object is a linked data object.
LEMMA ListedIsData ==
    ASSUME TypesOK, ObjectsOK, ListsOK, NEW x, IsListed(x)
    PROVE  /\ x \in Offset /\ IsLinked(x) /\ objects[x].type = "data" /\ objects[x].key \in Payloads
           /\ FieldName(x) = objects[x].key.field
<1>1. x \in Offset /\ x # 0
  BY OffsetFacts DEF IsListed
<1>2. PICK q \in Offset : objects[q].list = x
  BY DEF IsListed
<1>3. IsLinked(x) /\ objects[x].type = "data"
  BY <1>1, <1>2 DEF ListsOK
<1> QED
  BY <1>1, <1>3 DEF ObjectsOK, Keys, FieldName

\* One object of the bucket.
LEMMA WalkPreserves ==
    ASSUME FileInv, Walk
    PROVE  FileInv'
<1>1. reader.pc = "walk" /\ UNCHANGED <<objects, table, header, entries, writer, orphans, used>>
  BY DEF Walk
<1>2. TypesOK /\ ObjectsOK /\ HeadsOK /\ NextOK /\ ListsOK /\ WalkOK
  BY DEF FileInv, TablesOK, ReaderOK
<1>3. PICK p, t, key : p = reader.p /\ t = reader.type /\ key = reader.key
  OBVIOUS
<1>4. p \in Nat /\ t \in Types /\ reader \in Readers
  BY <1>1, <1>2, <1>3, ReaderFacts
<1>5. reader' = IF p = 0 THEN [reader EXCEPT !.pc = "end"]
         ELSE IF objects[p].type # t THEN [reader EXCEPT !.pc = "EBADMSG"]
         ELSE IF ~Matches(p, t, key) THEN [reader EXCEPT !.p = NextHash[p]]
         ELSE IF t = "data" THEN [reader EXCEPT !.pc = "end", !.seen = <<objects[p].key>>]
         ELSE [reader EXCEPT !.pc = "list", !.p = objects[p].list]
  BY <1>3 DEF Walk
<1>6. /\ key \in Keys(t)
      /\ p # 0 => InChain(p, t, Bucket(t, key))
      /\ reader.before # {} => Ahead(p)
      /\ t = "data" => reader.before \subseteq {key}
      /\ t = "field" => \A d \in reader.before : \E x \in Offset : Value(x, d, key)
      /\ reader.seen = <<>>
  BY <1>1, <1>2, <1>3 DEF WalkOK
<1>7. used' \in Bounds /\ used'.unmapped = used.unmapped
  BY <1>1 DEF FileInv, TypesOK
<1>8. /\ Offset' = Offset /\ objects' = objects
      /\ \A q : IsListed(q)' <=> IsListed(q)
      /\ \A q : IsLinked(q)' <=> IsLinked(q)
      /\ \A q : FieldName(q)' = FieldName(q)
      /\ \A q, s, b : InChain(q, s, b)' <=> InChain(q, s, b)
      /\ \A x, d, name : Value(x, d, name)' <=> Value(x, d, name)
  BY <1>1, SameFile DEF Value
<1>9. \A x \in Offset : x \in Nat /\ x > 0
  BY <1>2, OffsetFacts
<1>10. DOMAIN reader.seen = {}
  BY <1>6
<1>11. CASE p = 0
  <2>1. reader' = [reader EXCEPT !.pc = "end"]
    BY <1>5, <1>11
  <2>2. /\ reader'.pc = "end" /\ reader'.type = t /\ reader'.key = key
        /\ reader'.before = reader.before /\ reader'.seen = reader.seen /\ reader' \in Readers
    BY <1>3, <1>4, <2>1 DEF Readers
  <2>3. reader.before = {}
    BY <1>6, <1>11 DEF Ahead
  <2>4. LookupExact' /\ EnumerateExact'
    BY <1>10, <2>2, <2>3 DEF LookupExact, EnumerateExact
  <2>5. WalkOK' /\ ListOK'
    BY <2>2 DEF WalkOK, ListOK
  <2> QED
    BY <1>1, <1>7, <2>2, <2>4, <2>5, ReaderStep DEF ReaderOK
<1>12. CASE p # 0
  <2>1. InChain(p, t, Bucket(t, key)) /\ p \in Offset /\ IsLinked(p) /\ objects[p].type = t
    BY <1>6, <1>12 DEF InChain, IsLinked
  <2>2. CASE ~Matches(p, t, key)
    <3>1. PICK m : m = objects[p].next
      OBVIOUS
    <3>2. NextHash[p] = m /\ m \in Nat
      BY <1>2, <1>12, <2>1, <3>1, OffsetFacts DEF NextHash
    <3>3. reader' = [reader EXCEPT !.p = m]
      BY <1>5, <1>12, <2>1, <2>2, <3>2
    <3>4. /\ reader'.pc = "walk" /\ reader'.type = t /\ reader'.key = key /\ reader'.p = m
          /\ reader'.before = reader.before /\ reader'.seen = reader.seen /\ reader' \in Readers
      BY <1>1, <1>3, <1>4, <3>2, <3>3 DEF Readers
    <3>5. m # 0 => SameChain(p, m) /\ \A q \in Offset : SameChain(p, q) /\ p < q => m <= q
      BY <1>2, <2>1, <3>1 DEF NextOK
    <3>6. m # 0 => InChain(m, t, Bucket(t, key))
      BY <2>1, <3>5 DEF SameChain, InChain
    <3>7. reader.before # {} => Ahead(m)
      <4>1. SUFFICES ASSUME reader.before # {} PROVE Ahead(m)
        OBVIOUS
      <4>2. PICK x \in Offset : IsLinked(x) /\ objects[x].type = t /\ objects[x].key = key /\ p <= x
        BY <1>3, <1>6, <4>1 DEF Ahead
      <4>3. x # p
        BY <1>2, <2>2, <4>2 DEF Matches, ObjectsOK
      <4>4. p < x
        BY <1>4, <1>9, <4>2, <4>3
      <4>5. SameChain(p, x)
        BY <2>1, <4>2 DEF SameChain, InChain, BucketOf
      <4>6. m # 0
        <5>1. ASSUME m = 0 PROVE x <= p
          BY <1>2, <2>1, <3>1, <4>5, <5>1 DEF NextOK
        <5> QED
          BY <5>1, <4>4, <1>4, <1>9
      <4>7. m <= x
        BY <3>5, <4>4, <4>5, <4>6
      <4> QED
        BY <1>3, <4>2, <4>6, <4>7 DEF Ahead
    <3>8. Ahead(m) => Ahead(m)'
      BY <1>3, <1>8, <3>4 DEF Ahead
    <3>9. WalkOK'
      BY <1>6, <1>8, <3>4, <3>6, <3>7, <3>8 DEF WalkOK
    <3>10. ListOK' /\ LookupExact' /\ EnumerateExact'
      BY <3>4 DEF ListOK, LookupExact, EnumerateExact
    <3> QED
      BY <1>1, <1>7, <3>4, <3>9, <3>10, ReaderStep DEF ReaderOK
  <2>3. CASE Matches(p, t, key) /\ t = "data"
    <3>1. objects[p].key = key /\ key \in Payloads
      BY <1>6, <2>3 DEF Matches, Keys
    <3>0. \A k \in Payloads : <<k>> \in Seq(Payloads)
      OBVIOUS
    <3>2. PICK one : one = <<key>> /\ one \in Seq(Payloads)
      BY <3>0, <3>1
    <3>a. reader' = [reader EXCEPT !.pc = "end", !.seen = one]
      BY <1>5, <1>12, <2>1, <2>3, <3>1, <3>2
    <3>b. /\ reader'.pc = "end" /\ reader'.type = "data" /\ reader'.key = key
          /\ reader'.seen = one /\ reader' \in Readers
      BY <1>3, <1>4, <2>3, <3>2, <3>a DEF Readers
    <3>3. reader'.seen = <<key>>
      BY <3>2, <3>b
    <3>4. \A i \in DOMAIN <<key>> : <<key>>[i] = key
      OBVIOUS
    <3>5. LookupExact'
      BY <3>3, <3>4, <3>b DEF LookupExact
    <3>6. WalkOK' /\ ListOK' /\ EnumerateExact'
      BY <3>b DEF WalkOK, ListOK, EnumerateExact
    <3> QED
      BY <1>1, <1>7, <3>b, <3>5, <3>6, ReaderStep DEF ReaderOK
  <2>4. CASE Matches(p, t, key) /\ t # "data"
    <3>1. objects[p].key = key /\ t = "field" /\ objects[p].type = "field" /\ FieldName(p) = key
      BY <1>4, <2>1, <2>4 DEF Matches, Types, FieldName
    <3>2. PICK m : m = objects[p].list
      OBVIOUS
    <3>3. m \in Nat
      BY <1>2, <2>1, <3>2, OffsetFacts
    <3>4. reader' = [reader EXCEPT !.pc = "list", !.p = m]
      BY <1>5, <1>12, <2>1, <2>4, <3>2
    <3>5. /\ reader'.pc = "list" /\ reader'.type = "field" /\ reader'.key = key /\ reader'.p = m
          /\ reader'.before = reader.before /\ reader'.seen = reader.seen /\ reader' \in Readers
      BY <1>3, <1>4, <3>1, <3>3, <3>4 DEF Readers
    <3>6. m # 0 => IsListed(m) /\ FieldName(m) = key
      <4>1. m # 0 => m \in Offset /\ FieldName(m) = FieldName(p)
        BY <1>2, <2>1, <3>2 DEF ListsOK, IsLinked
      <4> QED
        BY <2>1, <3>1, <3>2, <4>1 DEF IsListed
    <3>7. ASSUME NEW d \in reader.before PROVE \E x \in Offset : Value(x, d, key) /\ x <= m
      <4>1. PICK x \in Offset : Value(x, d, key)
        BY <1>6, <3>1, <3>7
      <4>2. IsListed(x) /\ FieldName(x) = key
        BY <1>2, <4>1, ListedIsData DEF Value
      <4>3. x <= m
        BY <1>2, <2>1, <3>1, <3>2, <4>2 DEF ListsOK
      <4> QED
        BY <4>1, <4>3
    <3>8. ListOK'
      BY <1>8, <1>10, <3>5, <3>6, <3>7 DEF ListOK
    <3>9. WalkOK' /\ LookupExact' /\ EnumerateExact'
      BY <3>5 DEF WalkOK, LookupExact, EnumerateExact
    <3> QED
      BY <1>1, <1>7, <3>5, <3>8, <3>9, ReaderStep DEF ReaderOK
  <2> QED
    BY <2>2, <2>3, <2>4
<1> QED
  BY <1>11, <1>12

\* What is linked, or part of an entry, has a linked object.
LEMMA LinkedFacts ==
    ASSUME FileInv, NEW key \in Payloads, Linked(key)
    PROVE  \E x \in Offset : IsLinked(x) /\ objects[x].type = "data" /\ objects[x].key = key
<1>1. TypesOK /\ ObjectsOK /\ HeadsOK /\ NextOK /\ EntriesOK
  BY DEF FileInv, TablesOK
<1>2. CASE FindObject("data", key) # 0
  <2>1. Found(FindObject("data", key), "data", key)
    BY <1>1, FindFacts DEF Types, Keys
  <2> QED
    BY <1>2, <2>1 DEF Found, IsLinked
<1>3. CASE \E e \in entries : \E i \in DOMAIN e.want : e.want[i] = key
  <2>1. PICK e \in entries : \E i \in DOMAIN e.want : e.want[i] = key
    BY <1>3
  <2>2. PICK i \in DOMAIN e.want : e.want[i] = key
    BY <2>1
  <2>3. e \in Entries
    BY <1>1, <2>1 DEF TypesOK
  <2>4. e.want \in Seq(Payloads) /\ e.items \in Seq(Nat) /\ Len(e.items) = Len(e.want)
    BY <1>1, <2>1, <2>3 DEF Entries, EntriesOK
  <2>5. i \in DOMAIN e.items
    BY <2>2, <2>4
  <2>6. ItemOK(e.items[i], key)
    BY <1>1, <2>1, <2>2, <2>5 DEF EntriesOK
  <2> QED
    BY <2>6 DEF ItemOK, IsLinked
<1> QED
  BY <1>2, <1>3 DEF Linked

\* What an enumeration has to find is listed.
LEMMA ExpectedFacts ==
    ASSUME FileInv, NEW name \in Fields, NEW d \in Expected(name)
    PROVE  d \in Payloads /\ \E x \in Offset : Value(x, d, name)
<1>1. TypesOK /\ ObjectsOK /\ HeadsOK /\ NextOK /\ ListsOK /\ EntriesOK
  BY DEF FileInv, TablesOK
<1>2. CASE d \in Listed(name)
  <2>1. PICK x \in Offset : IsListed(x) /\ FieldName(x) = name /\ objects[x].key = d
    BY <1>1, <1>2, ListedFacts
  <2>2. objects[x].key \in Payloads /\ FieldName(x) = objects[x].key.field
    BY <1>1, <2>1, ListedIsData
  <2> QED
    BY <2>1, <2>2 DEF Value
<1>3. CASE d \notin Listed(name)
  <2>1. d \in Payloads /\ d.field = name
        /\ \E e \in entries : \E i \in DOMAIN e.want : e.want[i] = d /\ e.items[i] \notin orphans
    BY <1>3 DEF Expected
  <2>2. PICK e \in entries : \E i \in DOMAIN e.want : e.want[i] = d /\ e.items[i] \notin orphans
    BY <2>1
  <2>3. PICK i \in DOMAIN e.want : e.want[i] = d /\ e.items[i] \notin orphans
    BY <2>2
  <2>4. e \in Entries
    BY <1>1, <2>2 DEF TypesOK
  <2>5. e.want \in Seq(Payloads) /\ e.items \in Seq(Nat) /\ Len(e.items) = Len(e.want)
    BY <1>1, <2>2, <2>4 DEF Entries, EntriesOK
  <2>6. i \in DOMAIN e.items
    BY <2>3, <2>5
  <2>7. ItemOK(e.items[i], d)
    BY <1>1, <2>2, <2>3, <2>6 DEF EntriesOK
  <2>8. IsListed(e.items[i]) /\ objects[e.items[i]].key = d /\ e.items[i] \in Offset
    BY <2>3, <2>7 DEF ItemOK, IsLinked
  <2> QED
    BY <2>1, <2>8 DEF Value
<1> QED
  BY <1>2, <1>3

\* A search, or an enumeration, begins.
LEMMA SearchPreserves ==
    ASSUME FileInv, Search
    PROVE  FileInv'
<1>1. reader.pc = "idle" /\ Use("reads") /\ UNCHANGED <<objects, table, header, entries, writer, orphans>>
  BY DEF Search
<1>2. PICK t \in Types : \E key \in IF t = "data" THEN Payloads ELSE Fields :
         reader' = [pc |-> "walk", type |-> t, key |-> key, p |-> table[t][Bucket(t, key)].head,
                    before |-> IF t = "field" THEN Expected(key) ELSE IF Linked(key) THEN {key} ELSE {},
                    seen |-> <<>>]
  BY DEF Search
<1>3. PICK key \in Keys(t) :
         reader' = [pc |-> "walk", type |-> t, key |-> key, p |-> table[t][Bucket(t, key)].head,
                    before |-> IF t = "field" THEN Expected(key) ELSE IF Linked(key) THEN {key} ELSE {},
                    seen |-> <<>>]
  BY <1>2 DEF Keys
<1>4. PICK p, before : /\ p = table[t][Bucket(t, key)].head
                       /\ before = IF t = "field" THEN Expected(key) ELSE IF Linked(key) THEN {key} ELSE {}
  OBVIOUS
<1>5. TypesOK /\ ObjectsOK /\ HeadsOK /\ NextOK /\ ListsOK
  BY DEF FileInv, TablesOK
<1>6. Bucket(t, key) \in Slots(t) /\ p \in Nat
  BY <1>4, <1>5, BucketInTable, ItemFacts
<1>7. before \subseteq Payloads /\ (t = "data" => before \subseteq {key})
      /\ (t = "field" => \A d \in before : \E x \in Offset : Value(x, d, key))
  <2>1. CASE t = "data"
    BY <1>3, <1>4, <2>1 DEF Keys
  <2>2. CASE t = "field"
    <3>1. before = Expected(key) /\ key \in Fields
      BY <1>3, <1>4, <2>2 DEF Keys
    <3> QED
      BY <2>2, <3>1, ExpectedFacts
  <2> QED
    BY <2>1, <2>2 DEF Types
<1>8. /\ reader'.pc = "walk" /\ reader'.type = t /\ reader'.key = key /\ reader'.p = p
      /\ reader'.before = before /\ reader'.seen = <<>>
  BY <1>3, <1>4
<1>9. reader' \in Readers
  <2>1. key \in Names
    BY <1>3 DEF Keys, Names
  <2> QED
    BY <1>3, <1>4, <1>6, <1>7, <2>1 DEF Readers
<1>10. before # {} => \E x \in Offset : IsLinked(x) /\ objects[x].type = t /\ objects[x].key = key
  <2>1. CASE t = "data"
    <3>1. before # {} => Linked(key)
      BY <1>4, <2>1
    <3> QED
      BY <1>3, <2>1, <3>1, LinkedFacts DEF Keys
  <2>2. CASE t = "field"
    <3>1. ASSUME NEW d \in before PROVE \E x \in Offset : IsField(x, key)
      <4>1. PICK x \in Offset : Value(x, d, key)
        BY <1>7, <2>2, <3>1
      <4>2. IsListed(x) /\ FieldName(x) = key
        BY <1>5, <4>1, ListedIsData DEF Value
      <4> QED
        BY <1>5, <4>2 DEF ListsOK
    <3> QED
      BY <2>2, <3>1 DEF IsField
  <2> QED
    BY <2>1, <2>2 DEF Types
<1>11. /\ p # 0 => InChain(p, t, Bucket(t, key))
       /\ \A x \in Offset : InChain(x, t, Bucket(t, key)) => p # 0 /\ p <= x
  BY <1>4, <1>5, <1>6 DEF HeadsOK
<1>12. /\ Offset' = Offset /\ objects' = objects
       /\ \A q : IsLinked(q)' <=> IsLinked(q)
       /\ \A q, s, b : InChain(q, s, b)' <=> InChain(q, s, b)
       /\ \A x, d, name : Value(x, d, name)' <=> Value(x, d, name)
  BY <1>1, SameFile DEF Value
<1>13. before # {} => Ahead(p)'
  <2>1. SUFFICES ASSUME before # {} PROVE Ahead(p)'
    OBVIOUS
  <2>2. PICK x \in Offset : IsLinked(x) /\ objects[x].type = t /\ objects[x].key = key
    BY <1>10, <2>1
  <2>3. InChain(x, t, Bucket(t, key))
    BY <2>2 DEF InChain, BucketOf
  <2> QED
    BY <1>8, <1>11, <1>12, <2>2, <2>3 DEF Ahead
<1>14. WalkOK'
  BY <1>7, <1>8, <1>11, <1>12, <1>13, <1>3 DEF WalkOK
<1>15. ListOK' /\ LookupExact' /\ EnumerateExact'
  BY <1>8 DEF ListOK, LookupExact, EnumerateExact
<1>16. used' \in Bounds /\ used'.unmapped = used.unmapped
  BY <1>1, <1>5, UseFacts DEF TypesOK
<1> QED
  BY <1>1, <1>9, <1>14, <1>15, <1>16, ReaderStep DEF ReaderOK

-----------------------------------------------------------------------------
(* The writer's steps that leave the objects and tables alone              *)

\* The local variables of the writer.
LEMMA WriterFacts ==
    ASSUME TypesOK
    PROVE  /\ writer \in Writers /\ writer.pc \in Steps /\ writer.p \in Nat /\ writer.fp \in Nat
           /\ writer.todo \in Seq(Payloads) /\ writer.want \in Seq(Payloads) /\ writer.done \in Seq(Nat)
BY DEF TypesOK, Writers

\* Before and after an append.
LEMMA IdleFacts ==
    /\ Idle \in Writers /\ [Idle EXCEPT !.pc = "dead"] \in Writers
    /\ Idle.pc = "idle" /\ [Idle EXCEPT !.pc = "dead"].pc = "dead"
<1>1. <<>> \in Seq(Payloads) /\ <<>> \in Seq(Nat)
  OBVIOUS
<1> QED
  BY <1>1 DEF Idle, Writers, Steps

\* The invariant holds of the empty file.
LEMMA InitEstablishes ==
    ASSUME Init
    PROVE  FileInv
<1>1. /\ objects = <<>> /\ entries = {} /\ writer = Idle /\ reader = [pc |-> "idle"] /\ orphans = {}
      /\ header = [objects |-> 2, data |-> 0, field |-> 0]
      /\ table = [t \in Types |-> [b \in 0 .. Buckets[t] - 1 |-> [head |-> 0, tail |-> 0]]]
      /\ used = [entries |-> 0, full |-> 0, unmapped |-> 0, reads |-> 0, kills |-> 0]
  BY DEF Init
<1>2. Offset = {} /\ Len(objects) = 0 /\ objects \in Seq(Objects)
  BY <1>1 DEF Offset
<1>3. \A t \in Types : \A b \in Slots(t) : table[t][b].head = 0 /\ table[t][b].tail = 0
  BY <1>1 DEF Slots
<1>4. TypesOK
  <2>1. \A t \in Types : table[t] \in [Slots(t) -> Items]
    BY <1>1 DEF Slots, Items
  <2>2. table = [t \in Types |-> table[t]]
    BY <1>1
  <2>3. header \in [objects : Nat, data : Nat, field : Nat] /\ used \in Bounds
    BY <1>1 DEF Bounds
  <2> QED
    BY <1>1, <1>2, <2>1, <2>2, <2>3, IdleFacts DEF TypesOK
<1>5. TablesOK
  BY <1>2, <1>3 DEF TablesOK, ObjectsOK, HeadsOK, NextOK, UniqueOK, ListsOK
<1>6. writer.pc = "idle" /\ reader.pc = "idle"
  BY <1>1, IdleFacts
<1>7. TailsOK /\ ProgressOK /\ DataOK /\ FieldOK /\ ListedOK
  BY <1>2, <1>3, <1>6 DEF TailsOK, IsLast, ProgressOK, DataOK, FieldOK, NewData, NewField, ListedOK
<1>8. HeaderOK
  <2>1. Of("data") = {} /\ Of("field") = {}
    BY <1>2 DEF Of
  <2>2. Cardinality({}) = 0
    BY FS_EmptySet
  <2>3. header.objects = 2 /\ header.data = 0 /\ header.field = 0
    BY <1>1
  <2>4. Cardinality(Of("data")) = 0 /\ Cardinality(Of("field")) = 0
    BY <2>1, <2>2
  <2>5. header.objects = Len(objects) + 2
    BY <1>2, <2>3
  <2>6. writer.pc \notin {"link_data", "tail_data", "link_field", "tail_field"}
    BY <1>6
  <2> HIDE DEF Of
  <2> QED
    BY <2>3, <2>4, <2>5, <2>6 DEF HeaderOK
<1>9. EntriesOK /\ ReaderOK
  BY <1>1, <1>6 DEF EntriesOK, ReaderOK, WalkOK, ListOK, LookupExact, EnumerateExact
<1> QED
  BY <1>4, <1>5, <1>7, <1>8, <1>9 DEF FileInv, WriterOK

\* What is enough for such a step: its effect on the writer and on the entries.
LEMMA SameFileStep ==
    ASSUME FileInv, UNCHANGED <<objects, table, header, reader>>, orphans \subseteq orphans',
           writer' \in Writers, used' \in Bounds, entries' \subseteq Entries,
           WriterOK', EntriesOK'
    PROVE  FileInv'
<1>1. objects' = objects /\ table' = table /\ header' = header /\ reader' = reader
  OBVIOUS
<1>2. TypesOK'
  BY <1>1 DEF FileInv, TypesOK, Slots
<1>3. Grows /\ TablesOK'
  BY <1>1, SameFile DEF FileInv
<1>4. ReaderOK'
  BY <1>1, <1>3, GrowsReader DEF FileInv
<1> QED
  BY <1>2, <1>3, <1>4 DEF FileInv

\* The tails are right when no object is being linked.
LEMMA SameTails ==
    ASSUME FileInv, UNCHANGED <<objects, table>>, writer.pc \notin {"dead", "tail_data", "tail_field"}
    PROVE  TailsOK'
<1>1. Linking = 0 /\ \A t \in Types : \A b \in Slots(t) : IsLast(table[t][b].tail, t, b)
  BY DEF FileInv, WriterOK, TailsOK, Linking
<1>2. \A q, t, b : IsLast(q, t, b)' <=> IsLast(q, t, b)
  BY SameFile
<1>3. \A t \in Types : \A b \in Slots(t) : IsLast(table[t][b].tail, t, b)'
  BY <1>1, <1>2
<1> QED
  BY <1>3 DEF TailsOK, Slots

\* journal_file_append_entry() begins.
LEMMA AppendEntryPreserves ==
    ASSUME FileInv, AppendEntry
    PROVE  FileInv'
<1>1. writer.pc = "idle" /\ Use("entries")
      /\ UNCHANGED <<objects, table, header, entries, reader, orphans, scope>>
  BY DEF AppendEntry
<1>2. PICK list \in EntryLists : writer' = [Idle EXCEPT !.pc = "data", !.todo = list, !.want = list]
  BY DEF AppendEntry
<1>3. list \in Seq(Payloads) /\ <<>> \in Seq(Nat)
  BY JournalFileAssumption
<1>4. /\ writer' \in Writers /\ writer'.pc = "data" /\ writer'.todo = list /\ writer'.want = list
      /\ writer'.done = <<>>
  BY <1>2, <1>3 DEF Idle, Writers, Steps
<1>5. used' \in Bounds /\ used'.unmapped = used.unmapped
  BY <1>1, UseFacts DEF FileInv, TypesOK
<1>6. /\ Grows /\ Offset' = Offset
      /\ \A q : IsLinked(q)' <=> IsLinked(q)
      /\ \A q : IsListed(q)' <=> IsListed(q)
  BY <1>1, SameFile
<1>7. ProgressOK'
  <2>1. Len(<<>>) = 0 /\ DOMAIN <<>> = {} /\ Len(list) \in Nat /\ \A k \in DOMAIN list : k \in Nat
    BY <1>3
  <2> QED
    BY <1>4, <2>1 DEF ProgressOK
<1>8. DataOK' /\ FieldOK'
  BY <1>4 DEF DataOK, FieldOK, NewData, NewField
<1>9. ListedOK'
  BY <1>1, <1>4, <1>6 DEF FileInv, WriterOK, ListedOK, NewData
<1>10. HeaderOK'
  BY <1>1, <1>4, <1>5 DEF FileInv, WriterOK, HeaderOK, Of
<1>11. TailsOK' /\ EntriesOK'
  BY <1>1, <1>6, SameTails, GrowsEntries DEF FileInv
<1> QED
  BY <1>1, <1>4, <1>5, <1>7, <1>8, <1>9, <1>10, <1>11, SameFileStep DEF FileInv, TypesOK, WriterOK

\* The process dies.
LEMMA KillPreserves ==
    ASSUME FileInv, Kill
    PROVE  FileInv'
<1>1. Use("kills") /\ writer' = [Idle EXCEPT !.pc = "dead"]
      /\ UNCHANGED <<objects, table, header, entries, reader, orphans, scope>>
  BY DEF Kill
<1>2. writer' \in Writers /\ writer'.pc = "dead"
  BY <1>1, IdleFacts
<1>3. used' \in Bounds
  BY <1>1, UseFacts DEF FileInv, TypesOK
<1>4. Grows
  BY <1>1, SameFile
<1>5. TailsOK' /\ ProgressOK' /\ DataOK' /\ FieldOK' /\ ListedOK'
  BY <1>2 DEF TailsOK, ProgressOK, DataOK, FieldOK, NewData, NewField, ListedOK
<1>6. HeaderOK'
  BY <1>1, <1>2 DEF FileInv, WriterOK, HeaderOK
<1>7. EntriesOK'
  BY <1>1, <1>4, GrowsEntries DEF FileInv
<1> QED
  BY <1>1, <1>2, <1>3, <1>5, <1>6, <1>7, SameFileStep DEF FileInv, TypesOK, WriterOK

\* An error ends the call.  A data object that its field does not list yet becomes an orphan.
LEMMA FailPreserves ==
    ASSUME FileInv, Fail, UNCHANGED <<objects, table, header, entries, reader>>,
           writer.pc \in {"data", "field", "link_data", "link_field"}, used' \in Bounds,
           (writer.pc \in {"data", "field"} /\ used'.unmapped = used.unmapped) \/ used'.unmapped # 0
    PROVE  FileInv'
<1>1. writer' = Idle /\ orphans' = IF writer.pc \in {"field", "link_field"} THEN orphans \union {writer.p} ELSE orphans
  BY DEF Fail
<1>2. writer' \in Writers /\ writer'.pc = "idle" /\ orphans \subseteq orphans'
  BY <1>1, IdleFacts
<1>3. /\ Grows /\ Offset' = Offset /\ objects' = objects
      /\ \A q : IsLinked(q)' <=> IsLinked(q)
      /\ \A q : IsListed(q)' <=> IsListed(q)
  BY <1>2, SameFile
<1>4. ProgressOK' /\ DataOK' /\ FieldOK'
  BY <1>2 DEF ProgressOK, DataOK, FieldOK, NewData, NewField
<1>5. ListedOK'
  <2>1. ASSUME NEW p \in Offset, IsLinked(p), objects[p].type = "data" PROVE IsListed(p) \/ p \in orphans'
    <3>1. IsListed(p) \/ p \in orphans \/ (writer.pc \in NewData /\ p = writer.p)
      BY <2>1 DEF FileInv, WriterOK, ListedOK
    <3>2. CASE writer.pc \in NewData /\ p = writer.p
      <4>1. writer.pc # "link_data"
        BY <2>1, <3>2 DEF FileInv, WriterOK, DataOK, Fresh
      <4> QED
        BY <1>1, <3>2, <4>1 DEF NewData
    <3> QED
      BY <1>2, <3>1, <3>2
  <2> QED
    BY <1>2, <1>3, <2>1 DEF ListedOK
<1>6. HeaderOK'
  BY <1>2 DEF FileInv, WriterOK, HeaderOK, Of
<1>7. TailsOK' /\ EntriesOK'
  BY <1>3, SameTails, GrowsEntries DEF FileInv
<1> QED
  BY <1>2, <1>4, <1>5, <1>6, <1>7, SameFileStep DEF FileInv, TypesOK, WriterOK

\* One more payload is stored.
LEMMA StoredProgress ==
    ASSUME TypesOK, Grows, ProgressOK, writer.pc \notin {"idle", "dead"}, writer.todo # <<>>,
           NEW p \in Nat, NEW d, d = writer.todo[1], ItemOK(p, d)', writer' = Stored(writer, p)
    PROVE  ProgressOK' /\ writer' \in Writers /\ writer'.pc = "data"
<1>1. PICK todo, want, done : todo = writer.todo /\ want = writer.want /\ done = writer.done
  OBVIOUS
<1>2. todo \in Seq(Payloads) /\ want \in Seq(Payloads) /\ done \in Seq(Nat) /\ todo # <<>>
  BY <1>1, WriterFacts
<1>3. PICK rest, more : rest = Tail(todo) /\ more = Append(done, p)
  OBVIOUS
<1>4. rest \in Seq(Payloads) /\ more \in Seq(Nat)
  BY <1>2, <1>3
<1>5. /\ writer' \in Writers /\ writer'.pc = "data" /\ writer'.todo = rest /\ writer'.want = want
      /\ writer'.done = more
  BY <1>1, <1>3, <1>4, WriterFacts DEF Stored, Writers, Steps
<1>6. PICK n \in Nat : n = Len(done)
  <2>1. Len(done) \in Nat
    BY <1>2
  <2> QED
    BY <2>1
<1>7. /\ DOMAIN done = 1..n /\ Len(more) = n + 1 /\ DOMAIN more = 1..(n + 1) /\ more[n + 1] = p
      /\ \A i \in 1..n : more[i] = done[i]
  BY <1>2, <1>3, <1>6
<1>8. PICK m \in Nat : m = Len(todo) /\ m > 0
  <2>1. Len(todo) \in Nat /\ Len(todo) > 0
    BY <1>2
  <2> QED
    BY <2>1
<1>9. /\ DOMAIN todo = 1..m /\ Len(rest) = m - 1 /\ DOMAIN rest = 1..(m - 1)
      /\ \A k \in 1..(m - 1) : rest[k] = todo[k + 1]
  BY <1>2, <1>3, <1>8
<1>10. /\ Len(want) = n + m
       /\ \A k \in 1..m : todo[k] = want[n + k]
       /\ \A i \in 1..n : ItemOK(done[i], want[i])
  BY <1>1, <1>6, <1>7, <1>8, <1>9 DEF ProgressOK
<1>11. Len(want) = Len(more) + Len(rest)
  BY <1>7, <1>8, <1>9, <1>10
<1>12. ASSUME NEW k \in DOMAIN rest PROVE rest[k] = want[Len(more) + k]
  <2>1. k \in 1..(m - 1) /\ k + 1 \in 1..m
    BY <1>8, <1>9, <1>12
  <2>2. todo[k + 1] = want[n + (k + 1)]
    BY <1>10, <2>1
  <2>3. n + (k + 1) = Len(more) + k
    BY <1>7, <2>1
  <2> QED
    BY <1>9, <2>1, <2>2, <2>3
<1>13. ASSUME NEW i \in DOMAIN more PROVE ItemOK(more[i], want[i])'
  <2>1. CASE i = n + 1
    <3>1. want[n + 1] = d
      BY <1>1, <1>8, <1>10
    <3> QED
      BY <1>1, <1>7, <2>1, <3>1
  <2>2. CASE i # n + 1
    <3>1. i \in 1..n /\ more[i] = done[i]
      BY <1>7, <1>13, <2>2
    <3> QED
      BY <1>10, <3>1, GrowsItem
  <2> QED
    BY <2>1, <2>2
<1> QED
  BY <1>5, <1>11, <1>12, <1>13 DEF ProgressOK

\* journal_file_append_data() finds that the payload is there already.
LEMMA DataFoundPreserves ==
    ASSUME FileInv, writer.pc = "data", writer.todo # <<>>, NEW p, p # 0,
           p = FindObject("data", Head(writer.todo)), writer' = Stored(writer, p),
           UNCHANGED <<objects, table, header, entries, reader, orphans, used>>
    PROVE  FileInv'
<1>1. TypesOK /\ ObjectsOK /\ HeadsOK /\ NextOK /\ ListedOK /\ ProgressOK
  BY DEF FileInv, TablesOK, WriterOK
<1>2. PICK d : d = writer.todo[1] /\ d = Head(writer.todo) /\ d \in Payloads
  BY <1>1, WriterFacts
<1>3. Found(p, "data", d)
  BY <1>1, <1>2, FindFacts DEF Types, Keys
<1>4. IsLinked(p) /\ p \in Offset /\ objects[p].type = "data" /\ objects[p].key = d
  BY <1>3 DEF Found, IsLinked
<1>5. p \in Nat
  BY <1>1, <1>4, OffsetFacts
<1>6. ItemOK(p, d)
  BY <1>1, <1>4 DEF ListedOK, NewData, ItemOK
<1>7. /\ Grows /\ Offset' = Offset /\ objects' = objects
      /\ \A q : IsLinked(q)' <=> IsLinked(q)
      /\ \A q : IsListed(q)' <=> IsListed(q)
  BY SameFile
<1>8. ItemOK(p, d)'
  BY <1>6, <1>7, GrowsItem
<1>9. ProgressOK' /\ writer' \in Writers /\ writer'.pc = "data"
  BY <1>1, <1>2, <1>5, <1>7, <1>8, StoredProgress
<1>10. DataOK' /\ FieldOK'
  BY <1>9 DEF DataOK, FieldOK, NewData, NewField
<1>11. ListedOK'
  BY <1>1, <1>7, <1>9 DEF ListedOK, NewData
<1>12. HeaderOK'
  BY <1>9 DEF FileInv, WriterOK, HeaderOK, Of
<1>13. TailsOK' /\ EntriesOK'
  BY <1>7, SameTails, GrowsEntries DEF FileInv
<1> QED
  BY <1>9, <1>10, <1>11, <1>12, <1>13, SameFileStep DEF FileInv, TypesOK, WriterOK

\* journal_file_append_field() finds that the field is there already.
LEMMA FieldFoundPreserves ==
    ASSUME FileInv, writer.pc = "field", NEW fp, fp # 0,
           fp = FindObject("field", objects[writer.p].key.field),
           writer' = [writer EXCEPT !.pc = "next_field", !.fp = fp],
           UNCHANGED <<objects, table, header, entries, reader, orphans, used>>
    PROVE  FileInv'
<1>1. TypesOK /\ ObjectsOK /\ HeadsOK /\ NextOK /\ ListedOK /\ ProgressOK /\ DataOK
  BY DEF FileInv, TablesOK, WriterOK
<1>2. PICK name : name = objects[writer.p].key.field
  OBVIOUS
<1>3. writer.p \in Offset /\ objects[writer.p].type = "data" /\ objects[writer.p].key \in Payloads
  BY <1>1 DEF DataOK, NewData, ObjectsOK, Keys
<1>4. name \in Fields /\ FieldName(writer.p) = name
  BY <1>2, <1>3 DEF Fields, FieldName
<1>5. Found(fp, "field", name)
  BY <1>1, <1>2, <1>4, FindFacts DEF Types, Keys
<1>6. fp \in Offset /\ IsLinked(fp) /\ objects[fp].type = "field" /\ objects[fp].key = name /\ fp \in Nat
  BY <1>1, <1>5, OffsetFacts DEF Found, IsLinked
<1>7. /\ writer' \in Writers /\ writer'.pc = "next_field" /\ writer'.fp = fp /\ writer'.p = writer.p
      /\ writer'.todo = writer.todo /\ writer'.want = writer.want /\ writer'.done = writer.done
  BY <1>1, <1>6, WriterFacts DEF Writers, Steps
<1>8. /\ Grows /\ Offset' = Offset /\ objects' = objects
      /\ \A q : IsLinked(q)' <=> IsLinked(q)
      /\ \A q : IsListed(q)' <=> IsListed(q)
      /\ \A q : FieldName(q)' = FieldName(q)
  BY SameFile
<1>9. DataOK'
  BY <1>1, <1>7, <1>8 DEF DataOK, NewData
<1>10. FieldOK'
  BY <1>4, <1>6, <1>7, <1>8 DEF FieldOK
<1>11. ListedOK'
  BY <1>1, <1>7, <1>8 DEF ListedOK, NewData
<1>12. HeaderOK'
  BY <1>7 DEF FileInv, WriterOK, HeaderOK, Of
<1>13. TailsOK' /\ EntriesOK' /\ ProgressOK'
  BY <1>1, <1>7, <1>8, SameTails, GrowsEntries, GrowsProgress DEF FileInv
<1> QED
  BY <1>7, <1>9, <1>10, <1>11, <1>12, <1>13, SameFileStep DEF FileInv, TypesOK, WriterOK

\* The entry is appended.
LEMMA LinkEntryPreserves ==
    ASSUME FileInv, LinkEntry
    PROVE  FileInv'
<1>1. /\ writer.pc = "data" /\ writer.todo = <<>> /\ writer' = Idle
      /\ entries' = entries \union {[want |-> writer.want, items |-> writer.done]}
      /\ UNCHANGED <<objects, table, header, reader, orphans, used, scope>>
  BY DEF LinkEntry
<1>2. TypesOK /\ ProgressOK /\ ListedOK /\ EntriesOK
  BY DEF FileInv, WriterOK
<1>3. writer' \in Writers /\ writer'.pc = "idle"
  BY <1>1, IdleFacts
<1>4. PICK e : e = [want |-> writer.want, items |-> writer.done]
  OBVIOUS
<1>5. e \in Entries /\ e.want = writer.want /\ e.items = writer.done
  BY <1>2, <1>4, WriterFacts DEF Entries
<1>6. entries' \subseteq Entries
  BY <1>1, <1>2, <1>4, <1>5 DEF TypesOK
<1>7. Len(writer.todo) = 0 /\ Len(writer.done) \in Nat
  BY <1>1, <1>2, WriterFacts
<1>8. Len(e.items) = Len(e.want) /\ \A i \in DOMAIN e.items : ItemOK(e.items[i], e.want[i])
  BY <1>1, <1>2, <1>5, <1>7 DEF ProgressOK
<1>9. /\ Grows /\ Offset' = Offset /\ objects' = objects
      /\ \A q : IsLinked(q)' <=> IsLinked(q)
      /\ \A q : IsListed(q)' <=> IsListed(q)
  BY <1>1, SameFile
<1>10. EntriesOK'
  <2>1. ASSUME NEW x \in entries' PROVE /\ Len(x.items) = Len(x.want)
                                       /\ \A i \in DOMAIN x.items : ItemOK(x.items[i], x.want[i])
    BY <1>1, <1>2, <1>4, <1>8, <2>1 DEF EntriesOK
  <2>2. \A p, d : ItemOK(p, d) => ItemOK(p, d)'
    BY <1>9, GrowsItem
  <2> QED
    BY <2>1, <2>2 DEF EntriesOK
<1>11. ProgressOK' /\ DataOK' /\ FieldOK'
  BY <1>3 DEF ProgressOK, DataOK, FieldOK, NewData, NewField
<1>12. ListedOK'
  BY <1>1, <1>2, <1>3, <1>9 DEF ListedOK, NewData
<1>13. HeaderOK'
  BY <1>1, <1>3 DEF FileInv, WriterOK, HeaderOK, Of
<1>14. TailsOK'
  BY <1>1, SameTails
<1> QED
  BY <1>1, <1>3, <1>6, <1>10, <1>11, <1>12, <1>13, <1>14, SameFileStep DEF FileInv, TypesOK, WriterOK

-----------------------------------------------------------------------------
(* An object is appended                                                   *)

\* The pointers of a file lead to its objects, or nowhere.
LEMMA PointersInFile ==
    ASSUME TypesOK, TablesOK
    PROVE  /\ \A t \in Types : \A b \in Slots(t) : table[t][b].head \in Offset \union {0}
           /\ \A q \in Offset : objects[q].next \in Offset \union {0} /\ objects[q].list \in Offset \union {0}
           /\ \A q \in Offset : BucketOf(q) \in Slots(objects[q].type)
<1>1. \A t \in Types : \A b \in Slots(t) : table[t][b].head \in Offset \union {0}
  BY DEF TablesOK, HeadsOK, InChain, IsLinked
<1>2. \A q \in Offset : objects[q].next \in Offset \union {0}
  BY DEF TablesOK, NextOK, SameChain, IsLinked
<1>3. \A q \in Offset : objects[q].list \in Offset \union {0}
  BY DEF TablesOK, ListsOK, IsLinked
<1>4. \A q \in Offset : BucketOf(q) \in Slots(objects[q].type)
  BY OffsetFacts, BucketInTable DEF TablesOK, ObjectsOK, BucketOf
<1> QED
  BY <1>1, <1>2, <1>3, <1>4

\* The file has one more object at its end, to which nothing points.
Extended(n, t, key) ==
    /\ n \in Nat /\ n = Len(objects) + 1 /\ n = Len(objects') /\ n \notin Offset /\ Offset' = Offset \union {n}
    /\ objects' \in Seq(Objects)
    /\ \A q \in Offset : objects'[q] = objects[q] /\ q < n
    /\ objects'[n].type = t /\ objects'[n].key = key /\ objects'[n].hash = Hash[<<t, key>>]
    /\ objects'[n].next = 0 /\ objects'[n].list = 0
    /\ \A q : IsLinked(q)' <=> IsLinked(q)
    /\ \A q : IsListed(q)' <=> IsListed(q)
    /\ \A q \in Offset : BucketOf(q)' = BucketOf(q) /\ FieldName(q)' = FieldName(q)

\* journal_file_append_object().
LEMMA AppendObjectExtends ==
    ASSUME TypesOK, TablesOK, NEW t \in Types, NEW key \in Keys(t), AppendObject(t, key), UNCHANGED table
    PROVE  Extended(Len(objects) + 1, t, key)
<1>1. PICK n, o : n = Len(objects) + 1
         /\ o = [type |-> t, key |-> key, hash |-> Hash[<<t, key>>], next |-> 0, list |-> 0]
  OBVIOUS
<1>2. objects' = Append(objects, o) /\ table' = table
  BY <1>1 DEF AppendObject
<1>3. o \in Objects
  <2>1. Hash[<<t, key>>] \in Nat /\ key \in Names
    BY BucketInTable DEF Keys, Names
  <2> QED
    BY <1>1, <2>1 DEF Objects
<1>4. objects \in Seq(Objects)
  BY DEF TypesOK
<1>5. /\ n \in Nat /\ n = Len(objects') /\ objects' \in Seq(Objects) /\ objects'[n] = o
      /\ Offset = 1 .. n - 1 /\ Offset' = 1 .. n /\ \A q \in Offset : objects'[q] = objects[q]
  BY <1>1, <1>2, <1>3, <1>4 DEF Offset
<1>6. n \notin Offset /\ Offset' = Offset \union {n} /\ (\A q \in Offset : q < n) /\ n # 0
  <2>1. PICK k \in Nat : n = k + 1
    BY <1>1, <1>4
  <2> QED
    BY <1>5, <2>1
<1>7. /\ objects'[n].type = t /\ objects'[n].key = key /\ objects'[n].hash = Hash[<<t, key>>]
      /\ objects'[n].next = 0 /\ objects'[n].list = 0
  BY <1>1, <1>5
<1>8. \A q \in Offset : BucketOf(q)' = BucketOf(q) /\ FieldName(q)' = FieldName(q)
  BY <1>5 DEF BucketOf, FieldName
<1>9. /\ \A q \in Offset : objects[q].next # n /\ objects[q].list # n
      /\ \A s \in Types : \A b \in Slots(s) : table[s][b].head # n
  BY <1>6, PointersInFile
<1>10. ASSUME NEW q PROVE IsLinked(q)' <=> IsLinked(q)
  <2>1. CASE q \in Offset
    <3>1. (\E x \in Offset' : objects'[x].next = q) <=> \E x \in Offset : objects[x].next = q
      <4>1. q # 0
        BY <1>5, <2>1
      <4> QED
        BY <1>5, <1>6, <1>7, <4>1
    <3>2. objects'[q].type = objects[q].type /\ BucketOf(q)' = BucketOf(q) /\ q \in Offset'
      BY <1>5, <1>6, <1>8, <2>1
    <3> QED
      BY <1>2, <2>1, <3>1, <3>2 DEF IsLinked
  <2>2. CASE q = n
    <3>1. ~IsLinked(q)
      BY <1>6, <2>2 DEF IsLinked
    <3>2. \A x \in Offset' : objects'[x].next # n
      BY <1>5, <1>6, <1>7, <1>9
    <3>3. BucketOf(n)' = Bucket(t, key) /\ objects'[n].type = t
      BY <1>7 DEF BucketOf
    <3>4. Bucket(t, key) \in Slots(t)
      BY BucketInTable
    <3>5. table'[t][Bucket(t, key)].head # n
      BY <1>2, <1>9, <3>4
    <3>6. ~IsLinked(n)'
      BY <3>2, <3>3, <3>5 DEF IsLinked
    <3> QED
      BY <2>2, <3>1, <3>6
  <2>3. CASE q \notin Offset /\ q # n
    BY <1>6, <2>3 DEF IsLinked
  <2> QED
    BY <2>1, <2>2, <2>3
<1>11. ASSUME NEW q PROVE IsListed(q)' <=> IsListed(q)
  <2>1. CASE q \in Offset
    <3>1. q # 0 /\ q \in Offset'
      BY <1>5, <1>6, <2>1
    <3>2. (\E x \in Offset' : objects'[x].list = q) <=> \E x \in Offset : objects[x].list = q
      BY <1>5, <1>6, <1>7, <3>1
    <3> QED
      BY <2>1, <3>1, <3>2 DEF IsListed
  <2>2. CASE q = n
    <3>1. \A x \in Offset' : objects'[x].list # n
      BY <1>5, <1>6, <1>7, <1>9
    <3> QED
      BY <1>6, <2>2, <3>1 DEF IsListed
  <2>3. CASE q \notin Offset /\ q # n
    BY <1>6, <2>3 DEF IsListed
  <2> QED
    BY <2>1, <2>2, <2>3
<1>12. Extended(n, t, key)
  BY <1>1, <1>5, <1>6, <1>7, <1>8, <1>10, <1>11 DEF Extended
<1> QED
  BY <1>1, <1>12

\* Nothing in the tables changes by that.
LEMMA ExtendedTables ==
    ASSUME TypesOK, TablesOK, NEW t \in Types, NEW key \in Keys(t), NEW n, Extended(n, t, key),
           UNCHANGED <<table, orphans>>
    PROVE  /\ Grows /\ TablesOK'
           /\ \A q, s, b : InChain(q, s, b)' <=> InChain(q, s, b)
           /\ \A q, s, b : IsLast(q, s, b)' <=> IsLast(q, s, b)
<1>1. /\ n \in Nat /\ n \notin Offset /\ Offset' = Offset \union {n} /\ table' = table
      /\ \A q \in Offset : objects'[q] = objects[q] /\ q < n
      /\ objects'[n].type = t /\ objects'[n].key = key /\ objects'[n].hash = Hash[<<t, key>>]
      /\ objects'[n].next = 0 /\ objects'[n].list = 0
  BY DEF Extended
<1>2. /\ \A q : IsLinked(q)' <=> IsLinked(q)
      /\ \A q : IsListed(q)' <=> IsListed(q)
      /\ \A q \in Offset : BucketOf(q)' = BucketOf(q) /\ FieldName(q)' = FieldName(q)
  BY DEF Extended
<1>3. \A q : (IsLinked(q) \/ IsListed(q)) => q \in Offset
  BY DEF IsLinked, IsListed
<1>4. \A q, s, b : InChain(q, s, b)' <=> InChain(q, s, b)
  BY <1>1, <1>2, <1>3 DEF InChain
<1>5. \A q, s, b : InChain(q, s, b) => q \in Offset
  BY <1>3 DEF InChain
<1>6. \A q, s, b : IsLast(q, s, b)' <=> IsLast(q, s, b)
  BY <1>1, <1>4, <1>5 DEF IsLast
<1>7. Grows
  BY <1>1, <1>2 DEF Grows
<1>8. ObjectsOK' /\ UniqueOK'
  <2>1. ObjectsOK /\ UniqueOK
    BY DEF TablesOK
  <2>2. ObjectsOK'
    BY <1>1, <2>1 DEF ObjectsOK
  <2>3. UniqueOK'
    BY <1>1, <1>2, <1>3, <2>1 DEF UniqueOK
  <2> QED
    BY <2>2, <2>3
<1>9. HeadsOK'
  <2>1. HeadsOK
    BY DEF TablesOK
  <2> QED
    BY <1>1, <1>4, <1>5, <2>1 DEF HeadsOK, Slots
<1>10. NextOK'
  <2>1. NextOK
    BY DEF TablesOK
  <2>2. \A p, q \in Offset : SameChain(p, q)' <=> SameChain(p, q)
    BY <1>1, <1>2 DEF SameChain
  <2>3. \A p, q : SameChain(p, q) => q \in Offset
    BY <1>3 DEF SameChain
  <2>4. \A p \in Offset : SameChain(p, n)' => FALSE
    BY <1>1, <1>2, <1>3 DEF SameChain
  <2>5. ASSUME NEW p \in Offset PROVE
           IF objects'[p].next = 0 THEN IsLinked(p)' => \A q \in Offset' : SameChain(p, q)' => q <= p
           ELSE /\ IsLinked(p)' /\ p < objects'[p].next /\ SameChain(p, objects[p].next)'
                /\ \A q \in Offset' : SameChain(p, q)' /\ p < q => objects'[p].next <= q
    <3>1. PICK m : m = objects[p].next /\ m = objects'[p].next
      BY <1>1, <2>5
    <3>2. IF m = 0 THEN IsLinked(p) => \A q \in Offset : SameChain(p, q) => q <= p
          ELSE /\ IsLinked(p) /\ p < m /\ SameChain(p, m) /\ m \in Offset
               /\ \A q \in Offset : SameChain(p, q) /\ p < q => m <= q
      BY <2>1, <2>3, <2>5, <3>1 DEF NextOK
    <3>3. m # 0 => SameChain(p, m)'
      BY <2>2, <2>5, <3>2
    <3>4. SameChain(p, m)' => SameChain(p, objects[p].next)'
      BY <3>1
    <3> QED
      BY <1>1, <1>2, <2>2, <2>4, <2>5, <3>1, <3>2, <3>3, <3>4
  <2>6. ~IsLinked(n)' /\ objects'[n].next = 0
    BY <1>1, <1>2, <1>3
  <2> QED
    BY <1>1, <2>5, <2>6 DEF NextOK
<1>11. ListsOK'
  <2>1. ListsOK
    BY DEF TablesOK
  <2>2. ASSUME NEW q \in Offset', objects'[q].list # 0
        PROVE  /\ IsLinked(objects[q].list)' /\ objects'[objects'[q].list].type = "data"
               /\ FieldName(objects[q].list)' = FieldName(q)'
               /\ objects'[q].type = "data" => objects'[q].list < q
    <3>1. q \in Offset
      BY <1>1, <2>2
    <3>2. PICK m : m = objects[q].list /\ m = objects'[q].list /\ m # 0
      BY <1>1, <2>2, <3>1
    <3>3. /\ IsLinked(m) /\ m \in Offset /\ objects[m].type = "data" /\ FieldName(m) = FieldName(q)
          /\ objects[q].type = "data" => m < q
      BY <1>3, <2>1, <3>1, <3>2 DEF ListsOK
    <3>4. IsLinked(m)' /\ FieldName(m)' = FieldName(q)' /\ objects'[m].type = "data"
      BY <1>1, <1>2, <3>1, <3>3
    <3>5. IsLinked(objects[q].list)' /\ FieldName(objects[q].list)' = FieldName(q)'
      BY <3>2, <3>4
    <3> QED
      BY <1>1, <3>1, <3>2, <3>3, <3>4, <3>5
  <2>3. \A fp \in Offset : \A name : IsField(fp, name) => IsField(fp, name)'
    BY <1>1, <1>2 DEF IsField
  <2>4. ASSUME NEW p \in Offset', IsListed(p)' PROVE \E fp \in Offset' : IsField(fp, FieldName(p))'
    <3>1. p \in Offset /\ IsListed(p)
      BY <1>2, <1>3, <2>4
    <3>2. PICK name : name = FieldName(p) /\ name = FieldName(p)'
      BY <1>2, <3>1
    <3>3. PICK fp \in Offset : IsField(fp, name)
      BY <2>1, <3>1, <3>2 DEF ListsOK
    <3>4. fp \in Offset' /\ IsField(fp, name)'
      BY <1>1, <2>3, <3>3
    <3>5. IsField(fp, FieldName(p))'
      BY <3>2, <3>4
    <3> QED
      BY <3>4, <3>5
  <2>5. ASSUME NEW q \in Offset', IsListed(q)' \/ (IsLinked(q)' /\ objects'[q].type = "field"),
               NEW p \in Offset', IsListed(p)', FieldName(p)' = FieldName(q)',
               objects'[q].type = "data" => p < q
        PROVE  p <= objects'[q].list
    <3>1. q \in Offset /\ p \in Offset /\ IsListed(p) /\ (IsListed(q) <=> IsListed(q)')
          /\ (IsLinked(q) <=> IsLinked(q)')
      BY <1>2, <1>3, <2>5
    <3>2. objects'[q] = objects[q] /\ FieldName(p) = FieldName(q)
      BY <1>1, <1>2, <2>5, <3>1
    <3> QED
      BY <2>1, <2>5, <3>1, <3>2 DEF ListsOK
  <2> QED
    BY <2>2, <2>4, <2>5 DEF ListsOK
<1> QED
  BY <1>4, <1>6, <1>7, <1>8, <1>9, <1>10, <1>11 DEF TablesOK

\* How many objects of each type there are.
LEMMA ExtendedCount ==
    ASSUME TypesOK, NEW t \in Types, NEW key, NEW n, Extended(n, t, key)
    PROVE  /\ Cardinality(Of(t)) \in Nat /\ Cardinality(Of(t))' = Cardinality(Of(t)) + 1
           /\ \A s \in Types : s # t => Cardinality(Of(s))' = Cardinality(Of(s))
<1>1. /\ Offset = 1 .. Len(objects) /\ Offset' = 1 .. Len(objects') /\ Len(objects) \in Nat
      /\ n \notin Offset /\ Offset' = Offset \union {n}
      /\ \A q \in Offset : objects'[q] = objects[q]
      /\ objects'[n].type = t
  <2>1. Offset = 1 .. Len(objects) /\ Len(objects) \in Nat
    BY OffsetFacts
  <2>2. objects' \in Seq(Objects)
    BY DEF Extended
  <2>3. Offset' = 1 .. Len(objects')
    BY <2>2 DEF Offset
  <2> QED
    BY <2>1, <2>3 DEF Extended
<1>2. \A s : Of(s) = {p \in Offset : objects[p].type = s} /\ Of(s)' = {p \in Offset' : objects'[p].type = s}
  BY <1>1 DEF Of
<1>3. PICK A, B : A = Of(t) /\ B = Of(t)'
  OBVIOUS
<1>4. B = A \union {n} /\ n \notin A /\ A \subseteq Offset
  BY <1>1, <1>2, <1>3
<1>5. IsFiniteSet(A)
  <2>1. IsFiniteSet(1 .. Len(objects))
    <3>1. 1 \in Int /\ Len(objects) \in Int
      BY <1>1
    <3> QED
      BY <3>1, FS_Interval
  <2> QED
    BY <1>1, <1>4, <2>1, FS_Subset
<1>6. Cardinality(A) \in Nat /\ Cardinality(B) = Cardinality(A) + 1
  BY <1>4, <1>5, FS_AddElement, FS_CardinalityType
<1>7. ASSUME NEW s \in Types, s # t PROVE Cardinality(Of(s))' = Cardinality(Of(s))
  <2>1. Of(s)' = Of(s)
    BY <1>1, <1>2, <1>7
  <2> QED
    BY <2>1
<1>8. Cardinality(Of(t))' = Cardinality(B)
  BY <1>3
<1> QED
  BY <1>3, <1>6, <1>7, <1>8

\* A data object is appended.
LEMMA DataNewPreserves ==
    ASSUME FileInv, writer.pc = "data", writer.todo # <<>>, NEW d, d = Head(writer.todo),
           FindObject("data", d) = 0, AppendObject("data", d),
           writer' = [writer EXCEPT !.pc = "link_data", !.p = Len(objects) + 1],
           UNCHANGED <<table, entries, reader, orphans, used>>
    PROVE  FileInv'
<1>1. TypesOK /\ TablesOK /\ ListedOK /\ ProgressOK /\ TailsOK /\ HeaderOK
  BY DEF FileInv, WriterOK
<1>2. d = writer.todo[1] /\ d \in Keys("data") /\ "data" \in Types
  BY <1>1, WriterFacts DEF Keys, Types
<1>3. PICK n : n = Len(objects) + 1
  OBVIOUS
<1>4. Extended(n, "data", d)
  BY <1>1, <1>2, <1>3, AppendObjectExtends
<1>5. /\ Grows /\ TablesOK'
      /\ \A q, s, b : InChain(q, s, b)' <=> InChain(q, s, b)
      /\ \A q, s, b : IsLast(q, s, b)' <=> IsLast(q, s, b)
  BY <1>1, <1>2, <1>4, ExtendedTables
<1>6. /\ n \in Nat /\ n \notin Offset /\ n = Len(objects') /\ Offset' = Offset \union {n}
      /\ \A q \in Offset : objects'[q] = objects[q] /\ q < n
      /\ objects'[n].type = "data" /\ objects'[n].key = d
      /\ objects'[n].next = 0 /\ objects'[n].list = 0 /\ objects' \in Seq(Objects)
      /\ \A q : IsLinked(q)' <=> IsLinked(q)
      /\ \A q : IsListed(q)' <=> IsListed(q)
  BY <1>4 DEF Extended
<1>7. /\ writer' \in Writers /\ writer'.pc = "link_data" /\ writer'.p = n
      /\ writer'.todo = writer.todo /\ writer'.want = writer.want /\ writer'.done = writer.done
  BY <1>1, <1>3, <1>6, WriterFacts DEF Writers, Steps
<1>8. \A q : (IsLinked(q) \/ IsListed(q)) => q \in Offset
  BY DEF IsLinked, IsListed
<1>9. Found(0, "data", d)
  BY <1>1, <1>2, FindFacts DEF TablesOK
<1>10. Fresh(n)'
  <2>1. \A q \in Offset : ~(IsLinked(q) /\ objects[q].type = "data" /\ objects[q].key = d)
    BY <1>9 DEF Found
  <2>2. \A q \in Offset' : ~(IsLinked(q)' /\ objects'[q].type = "data" /\ objects'[q].key = d)
    BY <1>6, <1>8, <2>1
  <2>3. ~IsLinked(n)'
    BY <1>6, <1>8
  <2> QED
    BY <1>6, <2>2, <2>3 DEF Fresh
<1>11. DataOK'
  <2>1. \A q \in Offset' : IsListed(q)' => q < n
    BY <1>6, <1>8
  <2>2. IF writer'.pc = "link_data" THEN Fresh(writer.p)' ELSE IsLinked(writer.p)'
    BY <1>7, <1>10
  <2> QED
    BY <1>2, <1>6, <1>7, <2>1, <2>2 DEF DataOK
<1>12. FieldOK'
  BY <1>7 DEF FieldOK, NewField
<1>13. ListedOK'
  BY <1>1, <1>6, <1>7, <1>8 DEF ListedOK, NewData
<1>14. HeaderOK'
  <2>1. header' = [header EXCEPT !.objects = @ + 1] /\ header \in [objects : Nat, data : Nat, field : Nat]
    BY <1>1 DEF AppendObject, TypesOK
  <2>2. header'.objects = header.objects + 1 /\ header'.data = header.data /\ header'.field = header.field
        /\ header.objects \in Nat /\ header.data \in Nat /\ header.field \in Nat
    BY <2>1
  <2>3. Cardinality(Of("data"))' = Cardinality(Of("data")) + 1 /\ Cardinality(Of("data")) \in Nat
        /\ Cardinality(Of("field"))' = Cardinality(Of("field"))
    BY <1>1, <1>2, <1>4, ExtendedCount DEF Types
  <2>4. header'.objects = Len(objects') + 2
    BY <1>1, <1>3, <1>6, <2>2 DEF HeaderOK
  <2> QED
    BY <1>1, <1>7, <2>2, <2>3, <2>4 DEF HeaderOK
<1>15. TailsOK'
  <2>1. \A t \in Types : \A b \in Slots(t) : IsLast(table[t][b].tail, t, b)
    BY <1>1 DEF TailsOK, Linking
  <2>2. \A t \in Types : \A b \in Slots(t) : IsLast(table[t][b].tail, t, b)'
    BY <1>5, <2>1
  <2> QED
    BY <2>2 DEF TailsOK, Slots
<1>16. ProgressOK' /\ EntriesOK' /\ ReaderOK'
  BY <1>1, <1>5, <1>7, GrowsProgress, GrowsEntries, GrowsReader DEF FileInv
<1>17. TypesOK'
  <2>1. header' \in [objects : Nat, data : Nat, field : Nat]
    <3>1. header' = [header EXCEPT !.objects = @ + 1] /\ header \in [objects : Nat, data : Nat, field : Nat]
      BY <1>1 DEF AppendObject, TypesOK
    <3> QED
      BY <3>1
  <2> QED
    BY <1>1, <1>6, <1>7, <2>1 DEF TypesOK, Slots
<1> QED
  BY <1>5, <1>11, <1>12, <1>13, <1>14, <1>15, <1>16, <1>17 DEF FileInv, WriterOK

\* A field object is appended.
LEMMA FieldNewPreserves ==
    ASSUME FileInv, writer.pc = "field", NEW name, name = objects[writer.p].key.field,
           FindObject("field", name) = 0, AppendObject("field", name),
           writer' = [writer EXCEPT !.pc = "link_field", !.fp = Len(objects) + 1],
           UNCHANGED <<table, entries, reader, orphans, used>>
    PROVE  FileInv'
<1>1. TypesOK /\ TablesOK /\ ListedOK /\ ProgressOK /\ TailsOK /\ HeaderOK /\ DataOK /\ ObjectsOK
  BY DEF FileInv, WriterOK, TablesOK
<1>2. PICK p : p = writer.p
  OBVIOUS
<1>3. /\ p \in Offset /\ objects[p].type = "data" /\ IsLinked(p) /\ writer.todo # <<>>
      /\ objects[p].key = writer.todo[1] /\ objects[p].list = 0 /\ \A q \in Offset : IsListed(q) => q < p
  BY <1>1, <1>2 DEF DataOK, NewData
<1>4. objects[p].key \in Payloads
  BY <1>1, <1>3 DEF ObjectsOK, Keys
<1>5. name \in Keys("field") /\ "field" \in Types /\ FieldName(p) = name
  BY <1>2, <1>3, <1>4 DEF Keys, Fields, Types, FieldName
<1>6. PICK n : n = Len(objects) + 1
  OBVIOUS
<1>7. Extended(n, "field", name)
  BY <1>1, <1>5, <1>6, AppendObjectExtends
<1>8. /\ Grows /\ TablesOK'
      /\ \A q, s, b : InChain(q, s, b)' <=> InChain(q, s, b)
      /\ \A q, s, b : IsLast(q, s, b)' <=> IsLast(q, s, b)
  BY <1>1, <1>5, <1>7, ExtendedTables
<1>9. /\ n \in Nat /\ n \notin Offset /\ n = Len(objects') /\ Offset' = Offset \union {n}
      /\ \A q \in Offset : objects'[q] = objects[q] /\ q < n
      /\ objects'[n].type = "field" /\ objects'[n].key = name
      /\ objects'[n].next = 0 /\ objects'[n].list = 0 /\ objects' \in Seq(Objects)
      /\ \A q : IsLinked(q)' <=> IsLinked(q)
      /\ \A q : IsListed(q)' <=> IsListed(q)
      /\ \A q \in Offset : FieldName(q)' = FieldName(q)
  BY <1>7 DEF Extended
<1>10. /\ writer' \in Writers /\ writer'.pc = "link_field" /\ writer'.fp = n /\ writer'.p = p
       /\ writer'.todo = writer.todo /\ writer'.want = writer.want /\ writer'.done = writer.done
  BY <1>1, <1>2, <1>6, <1>9, WriterFacts DEF Writers, Steps
<1>11. \A q : (IsLinked(q) \/ IsListed(q)) => q \in Offset
  BY DEF IsLinked, IsListed
<1>12. Found(0, "field", name)
  BY <1>1, <1>5, FindFacts DEF TablesOK
<1>13. Fresh(n)'
  <2>1. \A q \in Offset : ~(IsLinked(q) /\ objects[q].type = "field" /\ objects[q].key = name)
    BY <1>12 DEF Found
  <2>2. \A q \in Offset' : ~(IsLinked(q)' /\ objects'[q].type = "field" /\ objects'[q].key = name)
    BY <1>9, <1>11, <2>1
  <2>3. ~IsLinked(n)'
    BY <1>9, <1>11
  <2> QED
    BY <1>9, <2>2, <2>3 DEF Fresh
<1>14. FieldOK'
  <2>1. IF writer'.pc = "link_field" THEN Fresh(writer.fp)' ELSE IsLinked(writer.fp)'
    BY <1>10, <1>13
  <2>2. FieldName(writer.p)' = name
    BY <1>3, <1>5, <1>9, <1>10
  <2> QED
    BY <1>9, <1>10, <2>1, <2>2 DEF FieldOK
<1>15. DataOK'
  <2>1. \A q \in Offset' : IsListed(q)' => q < p
    BY <1>3, <1>9, <1>11
  <2>2. IF writer'.pc = "link_data" THEN Fresh(writer.p)' ELSE IsLinked(writer.p)'
    BY <1>3, <1>9, <1>10
  <2> QED
    BY <1>3, <1>9, <1>10, <2>1, <2>2 DEF DataOK
<1>16. ListedOK'
  BY <1>1, <1>2, <1>9, <1>10, <1>11 DEF ListedOK, NewData
<1>17. HeaderOK'
  <2>1. header' = [header EXCEPT !.objects = @ + 1] /\ header \in [objects : Nat, data : Nat, field : Nat]
    BY <1>1 DEF AppendObject, TypesOK
  <2>2. header'.objects = header.objects + 1 /\ header'.data = header.data /\ header'.field = header.field
        /\ header.objects \in Nat /\ header.data \in Nat /\ header.field \in Nat
    BY <2>1
  <2>3. Cardinality(Of("field"))' = Cardinality(Of("field")) + 1 /\ Cardinality(Of("field")) \in Nat
        /\ Cardinality(Of("data"))' = Cardinality(Of("data"))
    BY <1>1, <1>5, <1>7, ExtendedCount DEF Types
  <2>4. header'.objects = Len(objects') + 2
    BY <1>1, <1>6, <1>9, <2>2 DEF HeaderOK
  <2> QED
    BY <1>1, <1>10, <2>2, <2>3, <2>4 DEF HeaderOK
<1>18. TailsOK'
  <2>1. \A t \in Types : \A b \in Slots(t) : IsLast(table[t][b].tail, t, b)
    BY <1>1 DEF TailsOK, Linking
  <2>2. \A t \in Types : \A b \in Slots(t) : IsLast(table[t][b].tail, t, b)'
    BY <1>8, <2>1
  <2> QED
    BY <2>2 DEF TailsOK, Slots
<1>19. ProgressOK' /\ EntriesOK' /\ ReaderOK'
  BY <1>1, <1>8, <1>10, GrowsProgress, GrowsEntries, GrowsReader DEF FileInv
<1>20. TypesOK'
  <2>1. header' \in [objects : Nat, data : Nat, field : Nat]
    <3>1. header' = [header EXCEPT !.objects = @ + 1] /\ header \in [objects : Nat, data : Nat, field : Nat]
      BY <1>1 DEF AppendObject, TypesOK
    <3> QED
      BY <3>1
  <2> QED
    BY <1>1, <1>9, <1>10, <2>1 DEF TypesOK, Slots
<1> QED
  BY <1>8, <1>14, <1>15, <1>16, <1>17, <1>18, <1>19, <1>20 DEF FileInv, WriterOK

\* journal_file_append_data(), in each of its cases.
LEMMA AppendDataPreserves ==
    ASSUME FileInv, AppendData
    PROVE  FileInv'
<1>1. writer.pc = "data" /\ writer.todo # <<>> /\ UNCHANGED <<table, entries, reader>>
  BY DEF AppendData
<1>2. PICK d, p : d = Head(writer.todo) /\ p = FindObject("data", d)
  OBVIOUS
<1>3. \/ /\ p # 0 /\ writer' = Stored(writer, p)
         /\ UNCHANGED <<objects, header, orphans, used>>
      \/ /\ p = 0 /\ AppendObject("data", d)
         /\ writer' = [writer EXCEPT !.pc = "link_data", !.p = Len(objects) + 1]
         /\ UNCHANGED <<orphans, used>>
      \/ p = 0 /\ Full
  BY <1>2 DEF AppendData
<1>4. CASE p # 0
  BY <1>1, <1>2, <1>3, <1>4, DataFoundPreserves
<1>5. CASE p = 0 /\ Full
  <2>1. Fail /\ UNCHANGED <<objects, header>> /\ used' \in Bounds /\ used'.unmapped = used.unmapped
    BY <1>5, UseFacts DEF Full, FileInv, TypesOK
  <2> QED
    BY <1>1, <2>1, FailPreserves
<1>6. CASE p = 0 /\ ~Full
  BY <1>1, <1>2, <1>3, <1>6, DataNewPreserves
<1> QED
  BY <1>4, <1>5, <1>6

\* journal_file_append_field(), in each of its cases.
LEMMA AppendFieldPreserves ==
    ASSUME FileInv, AppendField
    PROVE  FileInv'
<1>1. writer.pc = "field" /\ UNCHANGED <<table, entries, reader>>
  BY DEF AppendField
<1>2. PICK name, p : name = objects[writer.p].key.field /\ p = FindObject("field", name)
  OBVIOUS
<1>3. \/ /\ p # 0 /\ writer' = [writer EXCEPT !.pc = "next_field", !.fp = p]
         /\ UNCHANGED <<objects, header, orphans, used>>
      \/ /\ p = 0 /\ AppendObject("field", name)
         /\ writer' = [writer EXCEPT !.pc = "link_field", !.fp = Len(objects) + 1]
         /\ UNCHANGED <<orphans, used>>
      \/ p = 0 /\ Full
  BY <1>2 DEF AppendField
<1>4. CASE p # 0
  BY <1>1, <1>2, <1>3, <1>4, FieldFoundPreserves
<1>5. CASE p = 0 /\ Full
  <2>1. Fail /\ UNCHANGED <<objects, header>> /\ used' \in Bounds /\ used'.unmapped = used.unmapped
    BY <1>5, UseFacts DEF Full, FileInv, TypesOK
  <2> QED
    BY <1>1, <2>1, FailPreserves
<1>6. CASE p = 0 /\ ~Full
  BY <1>1, <1>2, <1>3, <1>6, FieldNewPreserves
<1> QED
  BY <1>4, <1>5, <1>6

-----------------------------------------------------------------------------
(* Stores that link nothing                                                *)

\* As long as heads and next_hash_offset stay, so do the chains.
LEMMA SameLinks ==
    ASSUME TypesOK, TablesOK, Offset' = Offset,
           \A q \in Offset : /\ objects'[q].type = objects[q].type /\ objects'[q].key = objects[q].key
                             /\ objects'[q].hash = objects[q].hash /\ objects'[q].next = objects[q].next,
           \A t \in Types : \A b \in Slots(t) : table'[t][b].head = table[t][b].head
    PROVE  /\ \A q : IsLinked(q)' <=> IsLinked(q)
           /\ \A q \in Offset : BucketOf(q)' = BucketOf(q) /\ FieldName(q)' = FieldName(q)
           /\ \A q, t, b : InChain(q, t, b)' <=> InChain(q, t, b)
           /\ \A q, t, b : IsLast(q, t, b)' <=> IsLast(q, t, b)
           /\ ObjectsOK' /\ HeadsOK' /\ NextOK' /\ UniqueOK'
<1>1. \A q \in Offset : BucketOf(q)' = BucketOf(q) /\ FieldName(q)' = FieldName(q)
  BY DEF BucketOf, FieldName
<1>2. ASSUME NEW q PROVE IsLinked(q)' <=> IsLinked(q)
  <2>1. CASE q \in Offset
    <3>1. PICK t, b : t = objects[q].type /\ b = BucketOf(q)
      OBVIOUS
    <3>2. t \in Types /\ b \in Slots(t) /\ t = objects'[q].type /\ b = BucketOf(q)'
      BY <1>1, <2>1, <3>1, PointersInFile, OffsetFacts
    <3>3. table'[t][b].head = q <=> table[t][b].head = q
      BY <3>2
    <3>4. (\E x \in Offset' : objects'[x].next = q) <=> \E x \in Offset : objects[x].next = q
      OBVIOUS
    <3> QED
      BY <2>1, <3>1, <3>2, <3>3, <3>4 DEF IsLinked
  <2>2. CASE q \notin Offset
    BY <2>2 DEF IsLinked
  <2> QED
    BY <2>1, <2>2
<1>3. \A q : IsLinked(q) => q \in Offset
  BY DEF IsLinked
<1>4. \A q, t, b : InChain(q, t, b)' <=> InChain(q, t, b)
  BY <1>1, <1>2, <1>3 DEF InChain
<1>5. \A q, t, b : IsLast(q, t, b)' <=> IsLast(q, t, b)
  BY <1>4 DEF IsLast
<1>6. ObjectsOK'
  BY DEF TablesOK, ObjectsOK
<1>7. UniqueOK'
  BY <1>2 DEF TablesOK, UniqueOK
<1>8. HeadsOK'
  <2>1. HeadsOK
    BY DEF TablesOK
  <2>2. ASSUME NEW t \in Types, NEW b \in Slots(t)
        PROVE  IF table'[t][b].head = 0 THEN \A p \in Offset' : ~InChain(p, t, b)'
               ELSE /\ InChain(table[t][b].head, t, b)'
                    /\ \A p \in Offset' : InChain(p, t, b)' => table'[t][b].head <= p
    <3>1. PICK h : h = table[t][b].head /\ h = table'[t][b].head
      BY <2>2
    <3>2. IF h = 0 THEN \A p \in Offset : ~InChain(p, t, b)
          ELSE InChain(h, t, b) /\ \A p \in Offset : InChain(p, t, b) => h <= p
      BY <2>1, <2>2, <3>1 DEF HeadsOK
    <3>3. InChain(h, t, b)' => InChain(table[t][b].head, t, b)'
      BY <3>1
    <3> QED
      BY <1>4, <3>1, <3>2, <3>3
  <2> QED
    BY <2>2 DEF HeadsOK, Slots
<1>9. NextOK'
  <2>1. NextOK
    BY DEF TablesOK
  <2>2. \A p, q \in Offset : SameChain(p, q)' <=> SameChain(p, q)
    BY <1>1, <1>2 DEF SameChain
  <2>3. ASSUME NEW p \in Offset PROVE
           IF objects'[p].next = 0 THEN IsLinked(p)' => \A q \in Offset' : SameChain(p, q)' => q <= p
           ELSE /\ IsLinked(p)' /\ p < objects'[p].next /\ SameChain(p, objects[p].next)'
                /\ \A q \in Offset' : SameChain(p, q)' /\ p < q => objects'[p].next <= q
    <3>1. PICK m : m = objects[p].next /\ m = objects'[p].next
      BY <2>3
    <3>2. IF m = 0 THEN IsLinked(p) => \A q \in Offset : SameChain(p, q) => q <= p
          ELSE /\ IsLinked(p) /\ p < m /\ SameChain(p, m) /\ m \in Offset
               /\ \A q \in Offset : SameChain(p, q) /\ p < q => m <= q
      BY <1>3, <2>1, <2>3, <3>1 DEF NextOK, SameChain
    <3>3. m # 0 => SameChain(p, m)'
      BY <2>2, <2>3, <3>2
    <3>4. SameChain(p, m)' => SameChain(p, objects[p].next)'
      BY <3>1
    <3> QED
      BY <1>2, <2>2, <2>3, <3>1, <3>2, <3>3, <3>4
  <2> QED
    BY <2>3 DEF NextOK
<1> QED
  BY <1>1, <1>2, <1>4, <1>5, <1>6, <1>7, <1>8, <1>9

\* The store of the tail, in general.
LEMMA TailStored ==
    ASSUME TypesOK, TablesOK, NEW t \in Types, NEW p \in Offset, objects[p].type = t,
           LinkTail(t, p), UNCHANGED objects
    PROVE  /\ table' = [s \in Types |-> table'[s]] /\ \A s \in Types : table'[s] \in [Slots(s) -> Items]
           /\ BucketOf(p) \in Slots(t) /\ table'[t][BucketOf(p)].tail = p
           /\ \A s \in Types : \A c \in Slots(s) :
                /\ table'[s][c].head = table[s][c].head
                /\ (s # t \/ c # BucketOf(p)) => table'[s][c].tail = table[s][c].tail
<1>1. PICK b \in Slots(t) : b = BucketOf(p) /\ b = Bucket(t, objects[p].key)
  BY PointersInFile DEF BucketOf
<1>2. table' = [table EXCEPT ![t][b].tail = p]
  BY <1>1 DEF LinkTail, NewTail
<1>3. table = [s \in Types |-> table[s]] /\ \A s \in Types : table[s] \in [Slots(s) -> Items]
  BY DEF TypesOK
<1>4. p \in Nat
  BY OffsetFacts
<1>5. PICK f, g, i : f = table[t] /\ g = [i EXCEPT !.tail = p] /\ i = f[b]
  OBVIOUS
<1>6. f \in [Slots(t) -> Items] /\ i \in Items
  BY <1>3, <1>5
<1>7. g \in Items /\ g.head = i.head /\ g.tail = p
  BY <1>4, <1>5, <1>6 DEF Items
<1>8. table' = [table EXCEPT ![t] = [f EXCEPT ![b] = g]]
  BY <1>2, <1>5
<1>9. DOMAIN table' = Types /\ table' = [s \in Types |-> table'[s]] /\ table'[t] = [f EXCEPT ![b] = g]
      /\ \A s \in Types : s # t => table'[s] = table[s]
  BY <1>3, <1>8
<1>10. [f EXCEPT ![b] = g] \in [Slots(t) -> Items] /\ [f EXCEPT ![b] = g][b] = g
       /\ \A c \in Slots(t) : c # b => [f EXCEPT ![b] = g][c] = f[c]
  BY <1>1, <1>6, <1>7
<1>11. ASSUME NEW s \in Types PROVE table'[s] \in [Slots(s) -> Items]
  <2>1. CASE s = t
    BY <1>9, <1>10, <2>1
  <2>2. CASE s # t
    BY <1>3, <1>9, <1>11, <2>2
  <2> QED
    BY <2>1, <2>2
<1>12. ASSUME NEW s \in Types, NEW c \in Slots(s)
       PROVE  /\ table'[s][c].head = table[s][c].head
              /\ (s # t \/ c # b) => table'[s][c].tail = table[s][c].tail
  <2>1. CASE s # t
    BY <1>9, <1>12, <2>1
  <2>2. CASE s = t /\ c # b
    BY <1>5, <1>9, <1>10, <1>12, <2>2
  <2>3. CASE s = t /\ c = b
    BY <1>5, <1>7, <1>9, <1>10, <2>3
  <2> QED
    BY <2>1, <2>2, <2>3
<1>13. table'[t][b].tail = p
  BY <1>7, <1>9, <1>10
<1> QED
  BY <1>1, <1>9, <1>11, <1>12, <1>13


\* With the objects and the heads the same, all but the tails is the same.
LEMMA SameObjects ==
    ASSUME TypesOK, TablesOK, UNCHANGED <<objects, orphans>>,
           \A t \in Types : \A b \in Slots(t) : table'[t][b].head = table[t][b].head
    PROVE  /\ Grows /\ TablesOK' /\ Offset' = Offset
           /\ \A q : IsLinked(q)' <=> IsLinked(q)
           /\ \A q : IsListed(q)' <=> IsListed(q)
           /\ \A q : BucketOf(q)' = BucketOf(q) /\ FieldName(q)' = FieldName(q)
           /\ \A q, t, b : InChain(q, t, b)' <=> InChain(q, t, b)
           /\ \A q, t, b : IsLast(q, t, b)' <=> IsLast(q, t, b)
           /\ \A q : Fresh(q)' <=> Fresh(q)
<1>1. objects' = objects /\ orphans' = orphans /\ Offset' = Offset
  BY DEF Offset
<1>2. /\ \A q : IsLinked(q)' <=> IsLinked(q)
      /\ \A q, t, b : InChain(q, t, b)' <=> InChain(q, t, b)
      /\ \A q, t, b : IsLast(q, t, b)' <=> IsLast(q, t, b)
      /\ ObjectsOK' /\ HeadsOK' /\ NextOK' /\ UniqueOK'
  BY <1>1, SameLinks
<1>3. /\ \A q : IsListed(q)' <=> IsListed(q)
      /\ \A q : BucketOf(q)' = BucketOf(q) /\ FieldName(q)' = FieldName(q)
  BY <1>1 DEF IsListed, BucketOf, FieldName
<1>4. \A q : Fresh(q)' <=> Fresh(q)
  BY <1>1, <1>2 DEF Fresh
<1>5. Grows
  BY <1>1, <1>2, <1>3 DEF Grows
<1>6. \A q, name : IsField(q, name)' <=> IsField(q, name)
  BY <1>1, <1>2 DEF IsField
<1>7. ListsOK'
  <2>1. ListsOK
    BY DEF TablesOK
  <2>2. \A q \in Offset : objects[q].list # 0 =>
          /\ IsLinked(objects[q].list)' /\ objects[objects[q].list].type = "data"
          /\ FieldName(objects[q].list)' = FieldName(q)'
          /\ objects[q].type = "data" => objects[q].list < q
    BY <1>2, <1>3, <2>1 DEF ListsOK
  <2>3. \A p \in Offset : IsListed(p)' => \E fp \in Offset : IsField(fp, FieldName(p))'
    <3>1. ASSUME NEW p \in Offset, IsListed(p)' PROVE \E fp \in Offset : IsField(fp, FieldName(p))'
      <4>1. PICK name : name = FieldName(p) /\ name = FieldName(p)'
        BY <1>3
      <4>2. PICK fp \in Offset : IsField(fp, name)
        BY <1>3, <2>1, <3>1, <4>1 DEF ListsOK
      <4>3. IsField(fp, name)'
        BY <1>6, <4>2
      <4> QED
        BY <4>1, <4>2, <4>3
    <3> QED
      BY <3>1
  <2>4. \A q \in Offset : (IsListed(q)' \/ (IsLinked(q)' /\ objects[q].type = "field")) =>
          \A p \in Offset : (IsListed(p)' /\ FieldName(p)' = FieldName(q)' /\ (objects[q].type = "data" => p < q))
             => p <= objects[q].list
    BY <1>2, <1>3, <2>1 DEF ListsOK
  <2> QED
    BY <1>1, <2>2, <2>3, <2>4 DEF ListsOK
<1> QED
  BY <1>1, <1>2, <1>3, <1>4, <1>5, <1>7 DEF TablesOK

\* The tails after the store of one, of the object that is the last of its bucket.
LEMMA TailsAfter ==
    ASSUME TypesOK, TablesOK, TailsOK, NEW t \in Types, NEW p \in Offset, objects[p].type = t,
           writer.pc # "dead", Linking = p, IsLast(p, t, BucketOf(p)), LinkTail(t, p),
           UNCHANGED <<objects, orphans>>
    PROVE  TailsOK'
<1>1. PICK b : b = BucketOf(p)
  OBVIOUS
<1>2. b \in Slots(t) /\ table'[t][b].tail = p /\ \A s \in Types : \A c \in Slots(s) :
                /\ table'[s][c].head = table[s][c].head
                /\ (s # t \/ c # b) => table'[s][c].tail = table[s][c].tail
  BY <1>1, TailStored
<1>3. \A q, s, c : IsLast(q, s, c)' <=> IsLast(q, s, c)
  BY <1>2, SameObjects
<1>4. ASSUME NEW s \in Types, NEW c \in Slots(s) PROVE IsLast(table[s][c].tail, s, c)'
  <2>1. PICK q : q = table'[s][c].tail
    OBVIOUS
  <2>2. IsLast(q, s, c)
    <3>1. CASE s = t /\ c = b
      BY <1>1, <1>2, <2>1, <3>1
    <3>2. CASE s # t \/ c # b
      <4>1. q = table[s][c].tail
        BY <1>2, <1>4, <2>1, <3>2
      <4>2. ~InChain(p, s, c)
        BY <1>1, <3>2 DEF InChain
      <4> QED
        BY <1>4, <4>1, <4>2 DEF TailsOK
    <3> QED
      BY <3>1, <3>2
  <2>3. IsLast(q, s, c)'
    BY <1>3, <2>2
  <2> QED
    BY <2>1, <2>3
<1> QED
  BY <1>4 DEF TailsOK, Slots

\* The tail of a data object's bucket is stored.
LEMMA LinkDataTailPreserves ==
    ASSUME FileInv, LinkDataTail
    PROVE  FileInv'
<1>1. TypesOK /\ TablesOK /\ ListedOK /\ ProgressOK /\ TailsOK /\ HeaderOK /\ DataOK
  BY DEF FileInv, WriterOK
<1>2. /\ writer.pc = "tail_data" /\ LinkTail("data", writer.p) /\ writer' = [writer EXCEPT !.pc = "field"]
      /\ UNCHANGED <<objects, entries, reader, orphans, used>>
  BY DEF LinkDataTail
<1>3. PICK p : p = writer.p
  OBVIOUS
<1>4. /\ p \in Offset /\ objects[p].type = "data" /\ IsLinked(p) /\ writer.todo # <<>>
      /\ objects[p].key = writer.todo[1] /\ objects[p].list = 0 /\ \A q \in Offset : IsListed(q) => q < p
      /\ IsLast(p, "data", BucketOf(p))
  BY <1>1, <1>2, <1>3 DEF DataOK, NewData
<1>5. "data" \in Types /\ LinkTail("data", p)
  BY <1>2, <1>3 DEF Types
<1>6. /\ table' = [s \in Types |-> table'[s]] /\ \A s \in Types : table'[s] \in [Slots(s) -> Items]
      /\ \A s \in Types : \A c \in Slots(s) : table'[s][c].head = table[s][c].head
  BY <1>1, <1>2, <1>4, <1>5, TailStored
<1>7. /\ Grows /\ TablesOK' /\ Offset' = Offset
      /\ \A q : IsLinked(q)' <=> IsLinked(q)
      /\ \A q : IsListed(q)' <=> IsListed(q)
  BY <1>1, <1>2, <1>6, SameObjects
<1>8. /\ writer' \in Writers /\ writer'.pc = "field" /\ writer'.p = p
      /\ writer'.todo = writer.todo /\ writer'.want = writer.want /\ writer'.done = writer.done
  BY <1>1, <1>2, <1>3, WriterFacts DEF Writers, Steps
<1>9. TailsOK'
  BY <1>1, <1>2, <1>3, <1>4, <1>5, TailsAfter DEF Linking
<1>10. DataOK'
  <2>1. IF writer'.pc = "link_data" THEN Fresh(writer.p)' ELSE IsLinked(writer.p)'
    BY <1>4, <1>7, <1>8
  <2> QED
    BY <1>2, <1>4, <1>7, <1>8, <2>1 DEF DataOK
<1>11. FieldOK'
  BY <1>8 DEF FieldOK, NewField
<1>12. ListedOK'
  BY <1>1, <1>2, <1>3, <1>7, <1>8 DEF ListedOK, NewData
<1>13. header' = [header EXCEPT !["data"] = @ + 1] /\ header \in [objects : Nat, data : Nat, field : Nat]
  BY <1>1, <1>2 DEF LinkTail, TypesOK
<1>14. /\ header'.objects = header.objects /\ header'.data = header.data + 1 /\ header'.field = header.field
       /\ header.data \in Nat /\ header' \in [objects : Nat, data : Nat, field : Nat]
  BY <1>13
<1>15. HeaderOK'
  BY <1>1, <1>2, <1>8, <1>14 DEF HeaderOK, Of
<1>16. ProgressOK' /\ EntriesOK' /\ ReaderOK'
  BY <1>1, <1>2, <1>7, <1>8, GrowsProgress, GrowsEntries, GrowsReader DEF FileInv
<1>17. TypesOK'
  BY <1>1, <1>2, <1>6, <1>8, <1>14 DEF TypesOK, Slots
<1> QED
  BY <1>7, <1>9, <1>10, <1>11, <1>12, <1>15, <1>16, <1>17 DEF FileInv, WriterOK

\* The tail of a field object's bucket is stored.
LEMMA LinkFieldTailPreserves ==
    ASSUME FileInv, LinkFieldTail
    PROVE  FileInv'
<1>1. TypesOK /\ TablesOK /\ ListedOK /\ ProgressOK /\ TailsOK /\ HeaderOK /\ DataOK /\ FieldOK
  BY DEF FileInv, WriterOK
<1>2. /\ writer.pc = "tail_field" /\ LinkTail("field", writer.fp) /\ writer' = [writer EXCEPT !.pc = "next_field"]
      /\ UNCHANGED <<objects, entries, reader, orphans, used>>
  BY DEF LinkFieldTail
<1>3. PICK p, fp : p = writer.p /\ fp = writer.fp
  OBVIOUS
<1>4. /\ p \in Offset /\ objects[p].type = "data" /\ IsLinked(p) /\ writer.todo # <<>>
      /\ objects[p].key = writer.todo[1] /\ objects[p].list = 0 /\ \A q \in Offset : IsListed(q) => q < p
  BY <1>1, <1>2, <1>3 DEF DataOK, NewData
<1>5. /\ fp \in Offset /\ objects[fp].type = "field" /\ objects[fp].key = FieldName(p) /\ IsLinked(fp)
      /\ IsLast(fp, "field", BucketOf(fp))
  BY <1>1, <1>2, <1>3 DEF FieldOK, NewField
<1>6. "field" \in Types /\ LinkTail("field", fp)
  BY <1>2, <1>3 DEF Types
<1>7. /\ table' = [s \in Types |-> table'[s]] /\ \A s \in Types : table'[s] \in [Slots(s) -> Items]
      /\ \A s \in Types : \A c \in Slots(s) : table'[s][c].head = table[s][c].head
  BY <1>1, <1>2, <1>5, <1>6, TailStored
<1>8. /\ Grows /\ TablesOK' /\ Offset' = Offset
      /\ \A q : IsLinked(q)' <=> IsLinked(q)
      /\ \A q : IsListed(q)' <=> IsListed(q)
      /\ \A q : FieldName(q)' = FieldName(q)
  BY <1>1, <1>2, <1>7, SameObjects
<1>9. /\ writer' \in Writers /\ writer'.pc = "next_field" /\ writer'.p = p /\ writer'.fp = fp
      /\ writer'.todo = writer.todo /\ writer'.want = writer.want /\ writer'.done = writer.done
  BY <1>1, <1>2, <1>3, WriterFacts DEF Writers, Steps
<1>10. TailsOK'
  BY <1>1, <1>2, <1>3, <1>5, <1>6, TailsAfter DEF Linking
<1>11. DataOK'
  <2>1. IF writer'.pc = "link_data" THEN Fresh(writer.p)' ELSE IsLinked(writer.p)'
    BY <1>4, <1>8, <1>9
  <2> QED
    BY <1>2, <1>4, <1>8, <1>9, <2>1 DEF DataOK
<1>12. FieldOK'
  <2>1. IF writer'.pc = "link_field" THEN Fresh(writer.fp)' ELSE IsLinked(writer.fp)'
    BY <1>5, <1>8, <1>9
  <2>2. FieldName(writer.p)' = FieldName(p)
    BY <1>8, <1>9
  <2> QED
    BY <1>2, <1>5, <1>8, <1>9, <2>1, <2>2 DEF FieldOK
<1>13. ListedOK'
  BY <1>1, <1>2, <1>3, <1>8, <1>9 DEF ListedOK, NewData
<1>14. header' = [header EXCEPT !["field"] = @ + 1] /\ header \in [objects : Nat, data : Nat, field : Nat]
  BY <1>1, <1>2 DEF LinkTail, TypesOK
<1>15. /\ header'.objects = header.objects /\ header'.field = header.field + 1 /\ header'.data = header.data
       /\ header.field \in Nat /\ header' \in [objects : Nat, data : Nat, field : Nat]
  BY <1>14
<1>16. HeaderOK'
  BY <1>1, <1>2, <1>9, <1>15 DEF HeaderOK, Of
<1>17. ProgressOK' /\ EntriesOK' /\ ReaderOK'
  BY <1>1, <1>2, <1>8, <1>9, GrowsProgress, GrowsEntries, GrowsReader DEF FileInv
<1>18. TypesOK'
  BY <1>1, <1>2, <1>7, <1>9, <1>15 DEF TypesOK, Slots
<1> QED
  BY <1>8, <1>10, <1>11, <1>12, <1>13, <1>16, <1>17, <1>18 DEF FileInv, WriterOK

\* A store to head_data_offset or next_field_offset of one object.
LEMMA ListStored ==
    ASSUME TypesOK, TablesOK, NEW x \in Offset, NEW v \in Nat, objects' = [objects EXCEPT ![x].list = v],
           UNCHANGED table
    PROVE  /\ objects' \in Seq(Objects) /\ Len(objects') = Len(objects) /\ Offset' = Offset
           /\ \A q \in Offset : /\ objects'[q].type = objects[q].type /\ objects'[q].key = objects[q].key
                                /\ objects'[q].hash = objects[q].hash /\ objects'[q].next = objects[q].next
                                /\ objects'[q].list = IF q = x THEN v ELSE objects[q].list
           /\ \A q : IsLinked(q)' <=> IsLinked(q)
           /\ \A q \in Offset : BucketOf(q)' = BucketOf(q) /\ FieldName(q)' = FieldName(q)
           /\ \A q, t, b : InChain(q, t, b)' <=> InChain(q, t, b)
           /\ \A q, t, b : IsLast(q, t, b)' <=> IsLast(q, t, b)
           /\ ObjectsOK' /\ HeadsOK' /\ NextOK' /\ UniqueOK'
           /\ \A t : Of(t)' = Of(t)
<1>1. PICK n, o, z : n = Len(objects) /\ o = objects[x] /\ z = [o EXCEPT !.list = v]
  OBVIOUS
<1>2. objects \in Seq(Objects) /\ n \in Nat /\ Offset = 1..n /\ o \in Objects
  BY <1>1, OffsetFacts DEF TypesOK
<1>3. z \in Objects /\ z.type = o.type /\ z.key = o.key /\ z.hash = o.hash /\ z.next = o.next /\ z.list = v
  BY <1>1, <1>2 DEF Objects
<1>4. objects' = [objects EXCEPT ![x] = z] /\ table' = table
  BY <1>1
<1>5. objects' \in Seq(Objects) /\ Len(objects') = n /\ Offset' = Offset
  BY <1>1, <1>2, <1>3, <1>4 DEF Offset
<1>6. objects'[x] = z /\ \A q \in Offset : q # x => objects'[q] = objects[q]
  BY <1>2, <1>4 DEF Offset
<1>7. \A q \in Offset : /\ objects'[q].type = objects[q].type /\ objects'[q].key = objects[q].key
                        /\ objects'[q].hash = objects[q].hash /\ objects'[q].next = objects[q].next
                        /\ objects'[q].list = IF q = x THEN v ELSE objects[q].list
  <2>1. ASSUME NEW q \in Offset
        PROVE  /\ objects'[q].type = objects[q].type /\ objects'[q].key = objects[q].key
               /\ objects'[q].hash = objects[q].hash /\ objects'[q].next = objects[q].next
               /\ objects'[q].list = IF q = x THEN v ELSE objects[q].list
    <3>1. CASE q = x
      BY <1>1, <1>3, <1>6, <3>1
    <3>2. CASE q # x
      BY <1>6, <2>1, <3>2
    <3> QED
      BY <3>1, <3>2
  <2> QED
    BY <2>1
<1>8. /\ \A q : IsLinked(q)' <=> IsLinked(q)
      /\ \A q \in Offset : BucketOf(q)' = BucketOf(q) /\ FieldName(q)' = FieldName(q)
      /\ \A q, t, b : InChain(q, t, b)' <=> InChain(q, t, b)
      /\ \A q, t, b : IsLast(q, t, b)' <=> IsLast(q, t, b)
      /\ ObjectsOK' /\ HeadsOK' /\ NextOK' /\ UniqueOK'
  BY <1>4, <1>5, <1>7, SameLinks
<1>9. \A t : Of(t)' = Of(t)
  BY <1>1, <1>2, <1>5, <1>7 DEF Of
<1> QED
  BY <1>1, <1>5, <1>7, <1>8, <1>9

\* The new data object is given the list that its field has so far.
LEMMA SetNextFieldPreserves ==
    ASSUME FileInv, SetNextField
    PROVE  FileInv'
<1>1. TypesOK /\ TablesOK /\ ListedOK /\ ProgressOK /\ TailsOK /\ HeaderOK /\ DataOK /\ FieldOK /\ ListsOK
  BY DEF FileInv, WriterOK, TablesOK
<1>2. PICK p, fp, v : p = writer.p /\ fp = writer.fp /\ v = objects[fp].list
  OBVIOUS
<1>3. /\ writer.pc = "next_field" /\ objects' = [objects EXCEPT ![p].list = v]
      /\ writer' = [writer EXCEPT !.pc = "head_data"]
      /\ UNCHANGED <<table, header, entries, reader, orphans, used>>
  BY <1>2 DEF SetNextField, NextListed
<1>4. /\ p \in Offset /\ objects[p].type = "data" /\ IsLinked(p) /\ writer.todo # <<>>
      /\ objects[p].key = writer.todo[1] /\ objects[p].list = 0 /\ \A q \in Offset : IsListed(q) => q < p
  BY <1>1, <1>2, <1>3 DEF DataOK, NewData
<1>5. /\ fp \in Offset /\ objects[fp].type = "field" /\ objects[fp].key = FieldName(p) /\ IsLinked(fp)
      /\ fp # p /\ FieldName(fp) = FieldName(p)
  BY <1>1, <1>2, <1>3, <1>4 DEF FieldOK, NewField, FieldName
<1>6. v \in Nat /\ v \in Offset \union {0}
  BY <1>1, <1>2, <1>5, OffsetFacts, PointersInFile
<1>7. /\ objects' \in Seq(Objects) /\ Len(objects') = Len(objects) /\ Offset' = Offset
      /\ \A q \in Offset : /\ objects'[q].type = objects[q].type /\ objects'[q].key = objects[q].key
                           /\ objects'[q].list = IF q = p THEN v ELSE objects[q].list
      /\ \A q : IsLinked(q)' <=> IsLinked(q)
      /\ \A q \in Offset : FieldName(q)' = FieldName(q)
      /\ \A q, t, b : IsLast(q, t, b)' <=> IsLast(q, t, b)
      /\ ObjectsOK' /\ HeadsOK' /\ NextOK' /\ UniqueOK'
      /\ \A t : Of(t)' = Of(t)
  BY <1>1, <1>3, <1>4, <1>6, ListStored
<1>8. \A q \in Offset : q # 0
  BY <1>1, OffsetFacts
<1>9. ASSUME NEW q PROVE IsListed(q)' <=> IsListed(q)
  <2>1. ASSUME q \in Offset, NEW r \in Offset, objects[r].list = q PROVE objects'[r].list = q
    BY <1>4, <1>7, <1>8, <2>1
  <2>2. ASSUME q \in Offset, NEW r \in Offset, objects'[r].list = q PROVE \E s \in Offset : objects[s].list = q
    <3>1. CASE r = p
      BY <1>2, <1>5, <1>7, <2>2, <3>1
    <3>2. CASE r # p
      BY <1>7, <2>2, <3>2
    <3> QED
      BY <3>1, <3>2
  <2> QED
    BY <1>7, <2>1, <2>2 DEF IsListed
<1>10. Grows
  BY <1>3, <1>7, <1>9 DEF Grows
<1>11. ListsOK'
  <2>1. ASSUME NEW q \in Offset, objects'[q].list # 0
        PROVE  /\ IsLinked(objects[q].list)' /\ objects'[objects'[q].list].type = "data"
               /\ FieldName(objects[q].list)' = FieldName(q)'
               /\ objects'[q].type = "data" => objects'[q].list < q
    <3>1. PICK m : m = objects'[q].list
      OBVIOUS
    <3>2. /\ IsLinked(m) /\ m \in Offset /\ objects[m].type = "data" /\ FieldName(m) = FieldName(q)
          /\ objects[q].type = "data" => m < q
      <4>1. CASE q = p
        <5>1. m = v /\ v # 0 /\ m = objects[fp].list
          BY <1>2, <1>7, <2>1, <3>1, <4>1
        <5>2. IsLinked(m) /\ objects[m].type = "data" /\ FieldName(m) = FieldName(fp)
          BY <1>1, <1>5, <5>1 DEF ListsOK
        <5>3. m \in Offset
          BY <1>6, <5>1
        <5>4. IsListed(m)
          BY <1>5, <5>1, <5>3 DEF IsListed
        <5> QED
          BY <1>4, <1>5, <4>1, <5>2, <5>3, <5>4
      <4>2. CASE q # p
        <5>1. m = objects[q].list /\ m # 0
          BY <1>7, <2>1, <3>1, <4>2
        <5> QED
          BY <1>1, <2>1, <5>1 DEF ListsOK, IsLinked
      <4> QED
        BY <4>1, <4>2
    <3>3. IsLinked(m)' /\ objects'[m].type = "data" /\ FieldName(m)' = FieldName(q)'
      BY <1>7, <2>1, <3>2
    <3>4. IsLinked(objects[q].list)' /\ FieldName(objects[q].list)' = FieldName(q)'
      BY <3>1, <3>3
    <3> QED
      BY <1>7, <2>1, <3>1, <3>2, <3>3, <3>4
  <2>2. ASSUME NEW q \in Offset, IsListed(q)' PROVE \E r \in Offset : IsField(r, FieldName(q))'
    <3>1. PICK name : name = FieldName(q) /\ name = FieldName(q)'
      BY <1>7, <2>2
    <3>2. PICK r \in Offset : IsField(r, name)
      BY <1>1, <1>9, <2>2, <3>1 DEF ListsOK
    <3>3. IsField(r, name)'
      BY <1>7, <3>2 DEF IsField
    <3> QED
      BY <3>1, <3>2, <3>3
  <2>3. ASSUME NEW q \in Offset, IsListed(q)' \/ (IsLinked(q)' /\ objects'[q].type = "field"),
               NEW r \in Offset, IsListed(r)', FieldName(r)' = FieldName(q)',
               objects'[q].type = "data" => r < q
        PROVE  r <= objects'[q].list
    <3>1. IsListed(q) \/ (IsLinked(q) /\ objects[q].type = "field")
      BY <1>7, <1>9, <2>3
    <3>2. q # p
      BY <1>1, <1>4, <3>1, OffsetFacts
    <3>3. objects'[q].list = objects[q].list /\ IsListed(r) /\ FieldName(r) = FieldName(q)
          /\ (objects[q].type = "data" => r < q)
      BY <1>7, <1>9, <2>3, <3>2
    <3>4. r <= objects[q].list
      BY <1>1, <2>3, <3>1, <3>3 DEF ListsOK
    <3> QED
      BY <3>3, <3>4
  <2> QED
    BY <1>7, <2>1, <2>2, <2>3 DEF ListsOK
<1>12. /\ writer' \in Writers /\ writer'.pc = "head_data" /\ writer'.p = p /\ writer'.fp = fp
       /\ writer'.todo = writer.todo /\ writer'.want = writer.want /\ writer'.done = writer.done
  BY <1>1, <1>2, <1>3, WriterFacts DEF Writers, Steps
<1>13. DataOK'
  <2>1. IF writer'.pc = "link_data" THEN Fresh(writer.p)' ELSE IsLinked(writer.p)'
    BY <1>4, <1>7, <1>12
  <2> QED
    BY <1>4, <1>7, <1>9, <1>12, <2>1 DEF DataOK
<1>14. FieldOK'
  <2>1. IF writer'.pc = "link_field" THEN Fresh(writer.fp)' ELSE IsLinked(writer.fp)'
    BY <1>5, <1>7, <1>12
  <2>2. FieldName(writer.p)' = FieldName(p)
    BY <1>4, <1>7, <1>12
  <2>3. objects'[p].list = objects'[fp].list
    BY <1>2, <1>4, <1>5, <1>7
  <2> QED
    BY <1>5, <1>7, <1>12, <2>1, <2>2, <2>3 DEF FieldOK
<1>15. ListedOK'
  BY <1>1, <1>2, <1>3, <1>7, <1>9, <1>12 DEF ListedOK, NewData
<1>16. HeaderOK'
  <2>1. Cardinality(Of("data"))' = Cardinality(Of("data")) /\ Cardinality(Of("field"))' = Cardinality(Of("field"))
    BY <1>7
  <2> QED
    BY <1>1, <1>3, <1>7, <1>12, <2>1 DEF HeaderOK
<1>17. TailsOK'
  <2>1. \A t \in Types : \A b \in Slots(t) : IsLast(table[t][b].tail, t, b)
    BY <1>1, <1>3 DEF TailsOK, Linking
  <2>2. \A t \in Types : \A b \in Slots(t) : IsLast(table[t][b].tail, t, b)'
    BY <1>3, <1>7, <2>1
  <2> QED
    BY <2>2 DEF TailsOK, Slots
<1>18. ProgressOK' /\ EntriesOK' /\ ReaderOK'
  BY <1>1, <1>3, <1>10, <1>12, GrowsProgress, GrowsEntries, GrowsReader DEF FileInv
<1>19. TypesOK'
  BY <1>1, <1>3, <1>7, <1>12 DEF TypesOK, Slots
<1> QED
  BY <1>7, <1>11, <1>13, <1>14, <1>15, <1>16, <1>17, <1>18, <1>19 DEF FileInv, WriterOK, TablesOK

\* The field's list begins with the new data object, which is stored by that.
LEMMA SetHeadDataPreserves ==
    ASSUME FileInv, SetHeadData
    PROVE  FileInv'
<1>1. TypesOK /\ TablesOK /\ ListedOK /\ ProgressOK /\ TailsOK /\ HeaderOK /\ DataOK /\ FieldOK /\ ListsOK /\ UniqueOK
  BY DEF FileInv, WriterOK, TablesOK
<1>2. PICK p, fp, m : p = writer.p /\ fp = writer.fp /\ m = objects[fp].list
  OBVIOUS
<1>3. /\ writer.pc = "head_data" /\ objects' = [objects EXCEPT ![fp].list = p]
      /\ writer' = Stored(writer, p)
      /\ UNCHANGED <<table, header, entries, reader, orphans, used>>
  BY <1>2 DEF SetHeadData
<1>4. /\ p \in Offset /\ objects[p].type = "data" /\ IsLinked(p) /\ writer.todo # <<>>
      /\ objects[p].key = writer.todo[1] /\ \A q \in Offset : IsListed(q) => q < p
  BY <1>1, <1>2, <1>3 DEF DataOK, NewData
<1>5. /\ fp \in Offset /\ objects[fp].type = "field" /\ objects[fp].key = FieldName(p) /\ IsLinked(fp)
      /\ fp # p /\ FieldName(fp) = FieldName(p) /\ objects[p].list = m
  BY <1>1, <1>2, <1>3, <1>4 DEF FieldOK, NewField, FieldName
<1>6. p \in Nat /\ p # 0 /\ \A q \in Offset : q # 0 /\ q \in Nat
  BY <1>1, <1>4, OffsetFacts
<1>7. /\ objects' \in Seq(Objects) /\ Len(objects') = Len(objects) /\ Offset' = Offset
      /\ \A q \in Offset : /\ objects'[q].type = objects[q].type /\ objects'[q].key = objects[q].key
                           /\ objects'[q].list = IF q = fp THEN p ELSE objects[q].list
      /\ \A q : IsLinked(q)' <=> IsLinked(q)
      /\ \A q \in Offset : FieldName(q)' = FieldName(q)
      /\ \A q, t, b : IsLast(q, t, b)' <=> IsLast(q, t, b)
      /\ ObjectsOK' /\ HeadsOK' /\ NextOK' /\ UniqueOK'
      /\ \A t : Of(t)' = Of(t)
  BY <1>1, <1>3, <1>5, <1>6, ListStored
<1>8. ASSUME NEW q PROVE IsListed(q)' <=> IsListed(q) \/ q = p
  <2>1. ASSUME q \in Offset, NEW r \in Offset, objects[r].list = q PROVE \E s \in Offset : objects'[s].list = q
    <3>1. CASE r = fp
      BY <1>2, <1>4, <1>5, <1>7, <2>1, <3>1
    <3>2. CASE r # fp
      BY <1>7, <2>1, <3>2
    <3> QED
      BY <3>1, <3>2
  <2>2. ASSUME q \in Offset, NEW r \in Offset, objects'[r].list = q PROVE objects[r].list = q \/ q = p
    BY <1>7, <2>2
  <2>3. objects'[fp].list = p
    BY <1>5, <1>7
  <2> QED
    BY <1>4, <1>5, <1>7, <2>1, <2>2, <2>3 DEF IsListed
<1>9. Grows
  BY <1>3, <1>7, <1>8 DEF Grows
<1>10. ListsOK'
  <2>1. ASSUME NEW q \in Offset, objects'[q].list # 0
        PROVE  /\ IsLinked(objects[q].list)' /\ objects'[objects'[q].list].type = "data"
               /\ FieldName(objects[q].list)' = FieldName(q)'
               /\ objects'[q].type = "data" => objects'[q].list < q
    <3>1. PICK x : x = objects'[q].list
      OBVIOUS
    <3>2. /\ IsLinked(x) /\ x \in Offset /\ objects[x].type = "data" /\ FieldName(x) = FieldName(q)
          /\ objects[q].type = "data" => x < q
      <4>1. CASE q = fp
        BY <1>4, <1>5, <1>7, <3>1, <4>1
      <4>2. CASE q # fp
        <5>1. x = objects[q].list /\ x # 0
          BY <1>7, <2>1, <3>1, <4>2
        <5> QED
          BY <1>1, <2>1, <5>1 DEF ListsOK, IsLinked
      <4> QED
        BY <4>1, <4>2
    <3>3. IsLinked(x)' /\ objects'[x].type = "data" /\ FieldName(x)' = FieldName(q)'
      BY <1>7, <2>1, <3>2
    <3>4. IsLinked(objects[q].list)' /\ FieldName(objects[q].list)' = FieldName(q)'
      BY <3>1, <3>3
    <3> QED
      BY <1>7, <2>1, <3>1, <3>2, <3>3, <3>4
  <2>2. ASSUME NEW q \in Offset, IsListed(q)' PROVE \E r \in Offset : IsField(r, FieldName(q))'
    <3>1. PICK name : name = FieldName(q) /\ name = FieldName(q)'
      BY <1>7, <2>2
    <3>2. \E r \in Offset : IsField(r, name)
      <4>1. CASE q = p
        BY <1>5, <3>1, <4>1 DEF IsField
      <4>2. CASE q # p
        BY <1>1, <1>8, <2>2, <3>1, <4>2 DEF ListsOK
      <4> QED
        BY <4>1, <4>2
    <3>3. PICK r \in Offset : IsField(r, name)
      BY <3>2
    <3>4. IsField(r, name)'
      BY <1>7, <3>3 DEF IsField
    <3> QED
      BY <3>1, <3>3, <3>4
  <2>3. ASSUME NEW q \in Offset, IsListed(q)' \/ (IsLinked(q)' /\ objects'[q].type = "field"),
               NEW r \in Offset, IsListed(r)', FieldName(r)' = FieldName(q)',
               objects'[q].type = "data" => r < q
        PROVE  r <= objects'[q].list
    <3>1. (IsListed(r) \/ r = p) /\ FieldName(r) = FieldName(q) /\ (objects[q].type = "data" => r < q)
          /\ r \in Nat /\ q \in Nat
      BY <1>6, <1>7, <1>8, <2>3
    <3>2. CASE q = fp
      BY <1>4, <1>5, <1>6, <1>7, <3>1, <3>2
    <3>3. CASE q = p
      <4>1. r < p /\ IsListed(r)
        BY <1>4, <1>6, <3>1, <3>3
      <4>2. r <= m
        BY <1>1, <1>2, <1>5, <2>3, <3>1, <3>3, <4>1 DEF ListsOK
      <4> QED
        BY <1>4, <1>5, <1>7, <3>3, <4>2
    <3>4. CASE q # fp /\ q # p
      <4>1. IsListed(q) \/ (IsLinked(q) /\ objects[q].type = "field")
        BY <1>7, <1>8, <2>3, <3>4
      <4>2. r # p
        <5>1. CASE objects[q].type = "field"
          <6>1. IsLinked(q)
            BY <4>1, <5>1, <1>1, ListedIsData DEF TablesOK
          <6>2. r = p => objects[q].key = objects[fp].key
            BY <1>5, <3>1, <5>1 DEF FieldName
          <6> QED
            BY <1>1, <1>5, <2>3, <3>4, <5>1, <6>1, <6>2 DEF UniqueOK
        <5>2. CASE objects[q].type # "field"
          <6>1. objects[q].type = "data" /\ IsListed(q)
            BY <1>1, <4>1, <5>2, ListedIsData DEF TablesOK
          <6>2. r < q /\ q < p
            BY <1>4, <2>3, <3>1, <6>1
          <6> QED
            BY <1>6, <3>1, <6>2
        <5> QED
          BY <5>1, <5>2
      <4>3. r <= objects[q].list
        BY <1>1, <2>3, <3>1, <4>1, <4>2 DEF ListsOK
      <4> QED
        BY <1>7, <2>3, <3>4, <4>3
    <3> QED
      BY <3>2, <3>3, <3>4
  <2> QED
    BY <1>7, <2>1, <2>2, <2>3 DEF ListsOK
<1>12. ProgressOK' /\ writer' \in Writers /\ writer'.pc = "data"
  <2>1. PICK d : d = writer.todo[1]
    OBVIOUS
  <2>2. ItemOK(p, d)'
    BY <1>4, <1>7, <1>8, <2>1 DEF ItemOK
  <2> QED
    BY <1>1, <1>3, <1>4, <1>6, <1>9, <2>1, <2>2, StoredProgress
<1>13. DataOK' /\ FieldOK'
  BY <1>12 DEF DataOK, FieldOK, NewData, NewField
<1>14. ListedOK'
  BY <1>1, <1>2, <1>3, <1>7, <1>8, <1>12 DEF ListedOK, NewData
<1>15. HeaderOK'
  <2>1. Cardinality(Of("data"))' = Cardinality(Of("data")) /\ Cardinality(Of("field"))' = Cardinality(Of("field"))
    BY <1>7
  <2> QED
    BY <1>1, <1>3, <1>7, <1>12, <2>1 DEF HeaderOK
<1>16. TailsOK'
  <2>1. \A t \in Types : \A b \in Slots(t) : IsLast(table[t][b].tail, t, b)
    BY <1>1, <1>3 DEF TailsOK, Linking
  <2>2. \A t \in Types : \A b \in Slots(t) : IsLast(table[t][b].tail, t, b)'
    BY <1>3, <1>7, <2>1
  <2> QED
    BY <2>2 DEF TailsOK, Slots
<1>17. EntriesOK' /\ ReaderOK'
  BY <1>3, <1>9, GrowsEntries, GrowsReader DEF FileInv
<1>18. TypesOK'
  BY <1>1, <1>3, <1>7, <1>12 DEF TypesOK, Slots
<1> QED
  BY <1>7, <1>10, <1>12, <1>13, <1>14, <1>15, <1>16, <1>17, <1>18 DEF FileInv, WriterOK, TablesOK

-----------------------------------------------------------------------------
(* The store that links an object                                          *)

\* Object p of bucket b becomes the last of its chain: what points to it is the object that
\* was the last, or the head of the bucket if there was none.
Joined(p, t, b, tail) ==
    /\ objects' \in Seq(Objects) /\ Len(objects') = Len(objects) /\ Offset' = Offset
    /\ \A q \in Offset : /\ objects'[q].type = objects[q].type /\ objects'[q].key = objects[q].key
                         /\ objects'[q].hash = objects[q].hash /\ objects'[q].list = objects[q].list
                         /\ objects'[q].next = IF tail # 0 /\ q = tail THEN p ELSE objects[q].next
    /\ table' = [s \in Types |-> table'[s]] /\ \A s \in Types : table'[s] \in [Slots(s) -> Items]
    /\ \A s \in Types : \A c \in Slots(s) :
         /\ table'[s][c].head = IF tail = 0 /\ s = t /\ c = b THEN p ELSE table[s][c].head
         /\ table'[s][c].tail = table[s][c].tail

\* The object that is to be linked, and the end of its chain.
Joining(p, t, b, tail) ==
    /\ t \in Types /\ p \in Offset /\ objects[p].type = t /\ b = BucketOf(p) /\ b \in Slots(t)
    /\ Fresh(p) /\ tail \in Nat /\ tail = table[t][b].tail /\ IsLast(tail, t, b)

\* The stores of the two functions.
Patched(p, t, b) ==
    /\ table' = [table EXCEPT ![t][b].head = Patch(table[t][b], p).head]
    /\ objects' = IF Patch(table[t][b], p).object = 0 THEN objects
                  ELSE [objects EXCEPT ![Patch(table[t][b], p).object].next = p]
HeadSet(t, b, h) == table' = [table EXCEPT ![t][b].head = h]

\* The head of a bucket is stored, or stays.
LEMMA HeadStored ==
    ASSUME TypesOK, NEW t \in Types, NEW b \in Slots(t), NEW h \in Nat, HeadSet(t, b, h)
    PROVE  /\ table' = [s \in Types |-> table'[s]] /\ \A s \in Types : table'[s] \in [Slots(s) -> Items]
           /\ \A s \in Types : \A c \in Slots(s) :
                /\ table'[s][c].head = IF s = t /\ c = b THEN h ELSE table[s][c].head
                /\ table'[s][c].tail = table[s][c].tail
<1>1. table = [s \in Types |-> table[s]] /\ \A s \in Types : table[s] \in [Slots(s) -> Items]
  BY DEF TypesOK
<1>2. PICK f, g, i : f = table[t] /\ g = [i EXCEPT !.head = h] /\ i = f[b]
  OBVIOUS
<1>3. f \in [Slots(t) -> Items] /\ i \in Items
  BY <1>1, <1>2
<1>4. g \in Items /\ g.tail = i.tail /\ g.head = h
  BY <1>2, <1>3 DEF Items
<1>5. table' = [table EXCEPT ![t] = [f EXCEPT ![b] = g]]
  BY <1>2 DEF HeadSet
<1>6. DOMAIN table' = Types /\ table' = [s \in Types |-> table'[s]] /\ table'[t] = [f EXCEPT ![b] = g]
      /\ \A s \in Types : s # t => table'[s] = table[s]
  BY <1>1, <1>5
<1>7. [f EXCEPT ![b] = g] \in [Slots(t) -> Items] /\ [f EXCEPT ![b] = g][b] = g
      /\ \A c \in Slots(t) : c # b => [f EXCEPT ![b] = g][c] = f[c]
  BY <1>3, <1>4
<1>8. ASSUME NEW s \in Types PROVE table'[s] \in [Slots(s) -> Items]
  <2>1. CASE s = t
    BY <1>6, <1>7, <2>1
  <2>2. CASE s # t
    BY <1>1, <1>6, <1>8, <2>2
  <2> QED
    BY <2>1, <2>2
<1>9. ASSUME NEW s \in Types, NEW c \in Slots(s)
      PROVE  /\ table'[s][c].head = IF s = t /\ c = b THEN h ELSE table[s][c].head
             /\ table'[s][c].tail = table[s][c].tail
  <2>1. CASE s # t
    BY <1>6, <1>9, <2>1
  <2>2. CASE s = t /\ c # b
    BY <1>2, <1>6, <1>7, <1>9, <2>2
  <2>3. CASE s = t /\ c = b
    BY <1>2, <1>4, <1>6, <1>7, <2>3
  <2> QED
    BY <2>1, <2>2, <2>3
<1> QED
  BY <1>6, <1>8, <1>9

\* journal_file_link_data() and journal_file_link_field() store the offset.
LEMMA LinkStores ==
    ASSUME TypesOK, TablesOK, NEW p, NEW t, NEW b, NEW tail, Joining(p, t, b, tail),
           Patched(p, t, b)
    PROVE  Joined(p, t, b, tail)
<1>1. /\ t \in Types /\ p \in Offset /\ b \in Slots(t) /\ tail \in Nat /\ tail = table[t][b].tail
      /\ tail # 0 => tail \in Offset
  BY DEF Joining, IsLast, InChain, IsLinked
<1>2. PICK h, n : h = table[t][b].head /\ n = Len(objects)
  OBVIOUS
<1>3. objects \in Seq(Objects) /\ n \in Nat /\ Offset = 1..n /\ h \in Nat /\ p \in Nat
  BY <1>1, <1>2, OffsetFacts, ItemFacts DEF TypesOK
<1>4. CASE tail = 0
  <2>1. Patch(table[t][b], p).object = 0 /\ Patch(table[t][b], p).head = p
    BY <1>1, <1>4 DEF Patch
  <2>2. objects' = objects /\ HeadSet(t, b, p)
    BY <2>1 DEF Patched, HeadSet
  <2>3. /\ table' = [s \in Types |-> table'[s]] /\ \A s \in Types : table'[s] \in [Slots(s) -> Items]
        /\ \A s \in Types : \A c \in Slots(s) :
                /\ table'[s][c].head = IF s = t /\ c = b THEN p ELSE table[s][c].head
                /\ table'[s][c].tail = table[s][c].tail
    BY <1>1, <1>3, <2>2, HeadStored
  <2> QED
    BY <1>3, <1>4, <2>2, <2>3 DEF Joined, Offset
<1>5. CASE tail # 0
  <2>1. Patch(table[t][b], p).object = tail /\ Patch(table[t][b], p).head = h
    BY <1>1, <1>2, <1>5 DEF Patch
  <2>2. objects' = [objects EXCEPT ![tail].next = p] /\ HeadSet(t, b, h)
    BY <1>5, <2>1 DEF Patched, HeadSet
  <2>3. /\ table' = [s \in Types |-> table'[s]] /\ \A s \in Types : table'[s] \in [Slots(s) -> Items]
        /\ \A s \in Types : \A c \in Slots(s) :
                /\ table'[s][c].head = table[s][c].head
                /\ table'[s][c].tail = table[s][c].tail
    <3>1. /\ table' = [s \in Types |-> table'[s]] /\ \A s \in Types : table'[s] \in [Slots(s) -> Items]
          /\ \A s \in Types : \A c \in Slots(s) :
                /\ table'[s][c].head = IF s = t /\ c = b THEN h ELSE table[s][c].head
                /\ table'[s][c].tail = table[s][c].tail
      BY <1>1, <1>3, <2>2, HeadStored
    <3> QED
      BY <1>2, <3>1
  <2>4. PICK o, z : o = objects[tail] /\ z = [o EXCEPT !.next = p]
    OBVIOUS
  <2>5. o \in Objects /\ tail \in Offset
    BY <1>1, <1>5, <2>4, OffsetFacts
  <2>6. z \in Objects /\ z.type = o.type /\ z.key = o.key /\ z.hash = o.hash /\ z.list = o.list /\ z.next = p
    BY <1>3, <2>4, <2>5 DEF Objects
  <2>7. objects' = [objects EXCEPT ![tail] = z]
    BY <2>2, <2>4
  <2>8. objects' \in Seq(Objects) /\ Len(objects') = n /\ Offset' = Offset
    BY <1>2, <1>3, <2>5, <2>6, <2>7 DEF Offset
  <2>9. objects'[tail] = z /\ \A q \in Offset : q # tail => objects'[q] = objects[q]
    BY <1>3, <2>5, <2>7 DEF Offset
  <2>10. ASSUME NEW q \in Offset
         PROVE  /\ objects'[q].type = objects[q].type /\ objects'[q].key = objects[q].key
                /\ objects'[q].hash = objects[q].hash /\ objects'[q].list = objects[q].list
                /\ objects'[q].next = IF q = tail THEN p ELSE objects[q].next
    <3>1. CASE q = tail
      BY <2>4, <2>6, <2>9, <3>1
    <3>2. CASE q # tail
      BY <2>9, <2>10, <3>2
    <3> QED
      BY <3>1, <3>2
  <2> QED
    BY <1>2, <1>5, <2>3, <2>8, <2>10 DEF Joined
<1> QED
  BY <1>4, <1>5

\* The object is linked by that, and no other object linked or unlinked.
LEMMA JoinedLinks ==
    ASSUME TypesOK, TablesOK, NEW p, NEW t, NEW b, NEW tail, Joining(p, t, b, tail), Joined(p, t, b, tail),
           NEW q
    PROVE  IsLinked(q)' <=> IsLinked(q) \/ q = p
<1>1. /\ t \in Types /\ p \in Offset /\ objects[p].type = t /\ b = BucketOf(p) /\ b \in Slots(t)
      /\ tail \in Nat /\ tail = table[t][b].tail /\ IsLast(tail, t, b)
  BY DEF Joining
<1>2. /\ Offset' = Offset
      /\ \A x \in Offset : /\ objects'[x].type = objects[x].type /\ objects'[x].key = objects[x].key
                           /\ objects'[x].next = IF tail # 0 /\ x = tail THEN p ELSE objects[x].next
      /\ \A s \in Types : \A c \in Slots(s) :
           table'[s][c].head = IF tail = 0 /\ s = t /\ c = b THEN p ELSE table[s][c].head
  BY DEF Joined
<1>3. \A x \in Offset : BucketOf(x)' = BucketOf(x) /\ x # 0 /\ objects[x].type \in Types
                        /\ BucketOf(x) \in Slots(objects[x].type)
  BY <1>2, OffsetFacts, PointersInFile DEF BucketOf
<1>4. tail = 0 => table[t][b].head = 0
  BY <1>1 DEF TablesOK, HeadsOK, IsLast, InChain, IsLinked
<1>5. tail # 0 => tail \in Offset /\ objects[tail].next = 0
  <2>1. CASE tail # 0
    <3>1. InChain(tail, t, b) /\ tail \in Offset /\ \A x \in Offset : InChain(x, t, b) => x <= tail
      BY <1>1, <2>1 DEF IsLast, InChain, IsLinked
    <3>2. PICK m : m = objects[tail].next
      OBVIOUS
    <3>3. m # 0 => tail < m /\ m \in Offset /\ InChain(m, t, b)
      BY <3>1, <3>2 DEF TablesOK, NextOK, SameChain, InChain, IsLinked
    <3>4. m # 0 => m <= tail /\ m \in Nat
      BY <3>1, <3>3, OffsetFacts
    <3> QED
      BY <1>1, <3>1, <3>2, <3>3, <3>4
  <2> QED
    BY <2>1
<1>6. ASSUME q \in Offset, IsLinked(q), q # p PROVE IsLinked(q)'
  <2>1. PICK s, c : s = objects[q].type /\ c = BucketOf(q)
    OBVIOUS
  <2>2. s \in Types /\ c \in Slots(s) /\ s = objects'[q].type /\ c = BucketOf(q)' /\ q # 0
    BY <1>2, <1>3, <1>6, <2>1
  <2>3. CASE table[s][c].head = q
    <3>1. ~(tail = 0 /\ s = t /\ c = b)
      BY <1>4, <2>2, <2>3
    <3>2. table'[s][c].head = q
      BY <1>2, <2>2, <2>3, <3>1
    <3> QED
      BY <1>2, <1>6, <2>2, <3>2 DEF IsLinked
  <2>4. CASE table[s][c].head # q
    <3>1. PICK x \in Offset : objects[x].next = q
      BY <1>6, <2>1, <2>4 DEF IsLinked
    <3>2. objects'[x].next = q
      BY <1>2, <1>5, <2>2, <3>1
    <3> QED
      BY <1>2, <1>6, <3>1, <3>2 DEF IsLinked
  <2> QED
    BY <2>3, <2>4
<1>7. ASSUME q \in Offset, IsLinked(q)', q # p PROVE IsLinked(q)
  <2>1. PICK s, c : s = objects[q].type /\ c = BucketOf(q)
    OBVIOUS
  <2>2. s \in Types /\ c \in Slots(s) /\ s = objects'[q].type /\ c = BucketOf(q)'
    BY <1>2, <1>3, <1>7, <2>1
  <2>3. CASE table'[s][c].head = q
    <3>1. table[s][c].head = q
      BY <1>2, <1>7, <2>2, <2>3
    <3> QED
      BY <1>7, <2>1, <3>1 DEF IsLinked
  <2>4. CASE table'[s][c].head # q
    <3>1. PICK x \in Offset : objects'[x].next = q
      BY <1>2, <1>7, <2>2, <2>4 DEF IsLinked
    <3>2. objects[x].next = q
      BY <1>2, <1>7, <3>1
    <3> QED
      BY <1>7, <3>1, <3>2 DEF IsLinked
  <2> QED
    BY <2>3, <2>4
<1>8. IsLinked(p)'
  <2>1. t = objects'[p].type /\ b = BucketOf(p)'
    BY <1>1, <1>2, <1>3
  <2>2. tail = 0 => table'[t][b].head = p
    BY <1>1, <1>2
  <2>3. tail # 0 => tail \in Offset /\ objects'[tail].next = p
    BY <1>2, <1>5
  <2> QED
    BY <1>1, <1>2, <2>1, <2>2, <2>3 DEF IsLinked
<1>9. (IsLinked(q) => q \in Offset) /\ (IsLinked(q)' => q \in Offset)
  BY <1>2 DEF IsLinked
<1> QED
  BY <1>6, <1>7, <1>8, <1>9

\* The chains after that: the object is the last one of its bucket.
LEMMA JoinedChains ==
    ASSUME TypesOK, TablesOK, NEW p, NEW t, NEW b, NEW tail, Joining(p, t, b, tail), Joined(p, t, b, tail)
    PROVE  /\ \A q \in Offset : BucketOf(q)' = BucketOf(q) /\ FieldName(q)' = FieldName(q)
           /\ \A q : IsListed(q)' <=> IsListed(q)
           /\ \A q, s, c : InChain(q, s, c)' <=> InChain(q, s, c) \/ (q = p /\ s = t /\ c = b)
           /\ IsLast(p, t, b)'
           /\ \A q, s, c : (s # t \/ c # b) => (IsLast(q, s, c)' <=> IsLast(q, s, c))
<1>1. /\ p \in Offset /\ objects[p].type = t /\ b = BucketOf(p) /\ p = Len(objects)
  BY DEF Joining, Fresh
<1>2. /\ Offset' = Offset
      /\ \A x \in Offset : /\ objects'[x].type = objects[x].type /\ objects'[x].key = objects[x].key
                           /\ objects'[x].list = objects[x].list
  BY DEF Joined
<1>3. \A q \in Offset : BucketOf(q)' = BucketOf(q) /\ FieldName(q)' = FieldName(q)
  BY <1>2 DEF BucketOf, FieldName
<1>4. \A q : IsListed(q)' <=> IsListed(q)
  BY <1>2 DEF IsListed
<1>5. \A q : IsLinked(q)' <=> IsLinked(q) \/ q = p
  BY JoinedLinks
<1>6. \A q : IsLinked(q) => q \in Offset
  BY DEF IsLinked
<1>7. \A q, s, c : InChain(q, s, c)' <=> InChain(q, s, c) \/ (q = p /\ s = t /\ c = b)
  BY <1>1, <1>2, <1>3, <1>5, <1>6 DEF InChain
<1>8. IsLast(p, t, b)'
  <2>1. p # 0 /\ \A q \in Offset : q <= p
    BY <1>1, OffsetFacts
  <2> QED
    BY <1>2, <1>7, <2>1 DEF IsLast
<1>9. \A q, s, c : (s # t \/ c # b) => (IsLast(q, s, c)' <=> IsLast(q, s, c))
  BY <1>2, <1>7 DEF IsLast
<1> QED
  BY <1>3, <1>4, <1>7, <1>8, <1>9

\* The chains keep what makes them right.
LEMMA JoinedTables ==
    ASSUME TypesOK, TablesOK, NEW p, NEW t, NEW b, NEW tail, Joining(p, t, b, tail), Joined(p, t, b, tail),
           UNCHANGED orphans
    PROVE  Grows /\ TablesOK'
<1>1. /\ t \in Types /\ p \in Offset /\ objects[p].type = t /\ b = BucketOf(p) /\ b \in Slots(t)
      /\ p = Len(objects) /\ ~IsLinked(p) /\ objects[p].next = 0
      /\ tail \in Nat /\ IsLast(tail, t, b)
      /\ \A q \in Offset : ~(IsLinked(q) /\ objects[q].type = t /\ objects[q].key = objects[p].key)
  BY DEF Joining, Fresh
<1>2. /\ Offset' = Offset
      /\ \A q \in Offset : /\ objects'[q].type = objects[q].type /\ objects'[q].key = objects[q].key
                           /\ objects'[q].hash = objects[q].hash /\ objects'[q].list = objects[q].list
                           /\ objects'[q].next = IF tail # 0 /\ q = tail THEN p ELSE objects[q].next
      /\ \A s \in Types : \A c \in Slots(s) :
           table'[s][c].head = IF tail = 0 /\ s = t /\ c = b THEN p ELSE table[s][c].head
  BY DEF Joined
<1>3. /\ \A q \in Offset : BucketOf(q)' = BucketOf(q) /\ FieldName(q)' = FieldName(q)
      /\ \A q : IsListed(q)' <=> IsListed(q)
      /\ \A q, s, c : InChain(q, s, c)' <=> InChain(q, s, c) \/ (q = p /\ s = t /\ c = b)
  BY JoinedChains
<1>4. \A q : IsLinked(q)' <=> IsLinked(q) \/ q = p
  BY JoinedLinks
<1>5. /\ \A q : IsLinked(q) => q \in Offset
      /\ \A q, s, c : InChain(q, s, c) => q \in Offset
  BY DEF IsLinked, InChain
<1>6. p \in Nat /\ p # 0 /\ \A q \in Offset : q \in Nat /\ q <= p /\ q # 0
  BY <1>1, OffsetFacts
<1>7. ObjectsOK /\ HeadsOK /\ NextOK /\ UniqueOK /\ ListsOK
  BY DEF TablesOK
<1>8. ObjectsOK'
  BY <1>2, <1>7 DEF ObjectsOK
<1>9. UniqueOK'
  <2>1. ASSUME NEW q \in Offset, NEW r \in Offset, IsLinked(q)', IsLinked(r)',
               objects'[q].type = objects'[r].type, objects'[q].key = objects'[r].key
        PROVE  q = r
    <3>1. objects[q].type = objects[r].type /\ objects[q].key = objects[r].key
      BY <1>2, <2>1
    <3>2. (IsLinked(q) \/ q = p) /\ (IsLinked(r) \/ r = p)
      BY <1>4, <2>1
    <3>3. CASE q = p \/ r = p
      BY <1>1, <2>1, <3>1, <3>2, <3>3
    <3>4. CASE q # p /\ r # p
      BY <1>7, <2>1, <3>1, <3>2, <3>4 DEF UniqueOK
    <3> QED
      BY <3>3, <3>4
  <2> QED
    BY <1>2, <2>1 DEF UniqueOK
<1>10. HeadsOK'
  <2>1. ASSUME NEW s \in Types, NEW c \in Slots(s)
        PROVE  IF table'[s][c].head = 0 THEN \A q \in Offset' : ~InChain(q, s, c)'
               ELSE /\ InChain(table[s][c].head, s, c)'
                    /\ \A q \in Offset' : InChain(q, s, c)' => table'[s][c].head <= q
    <3>1. PICK h, k : h = table[s][c].head /\ k = table'[s][c].head
      OBVIOUS
    <3>2. IF h = 0 THEN \A q \in Offset : ~InChain(q, s, c)
          ELSE InChain(h, s, c) /\ \A q \in Offset : InChain(q, s, c) => h <= q
      BY <1>7, <2>1, <3>1 DEF HeadsOK
    <3>3. k = IF tail = 0 /\ s = t /\ c = b THEN p ELSE h
      BY <1>2, <2>1, <3>1
    <3>4. IF k = 0 THEN \A q \in Offset : ~InChain(q, s, c)'
          ELSE InChain(k, s, c)' /\ \A q \in Offset : InChain(q, s, c)' => k <= q
      <4>1. CASE s = t /\ c = b /\ tail = 0
        <5>1. \A q : InChain(q, s, c)' <=> q = p
          BY <1>1, <1>3, <1>5, <4>1 DEF IsLast
        <5> QED
          BY <1>6, <3>3, <4>1, <5>1
      <4>2. CASE s = t /\ c = b /\ tail # 0
        <5>1. InChain(tail, s, c) /\ tail \in Offset
          BY <1>1, <1>5, <4>2 DEF IsLast
        <5>2. k = h /\ h # 0
          BY <3>2, <3>3, <4>2, <5>1
        <5>3. InChain(h, s, c) /\ h \in Offset /\ h <= p
          BY <1>5, <1>6, <3>2, <5>2
        <5> QED
          BY <1>3, <3>2, <5>2, <5>3
      <4>3. CASE s # t \/ c # b
        <5>1. k = h /\ \A q : InChain(q, s, c)' <=> InChain(q, s, c)
          BY <1>3, <3>3, <4>3
        <5> QED
          BY <3>2, <5>1
      <4> QED
        BY <4>1, <4>2, <4>3
    <3>5. InChain(k, s, c)' => InChain(table[s][c].head, s, c)'
      BY <3>1
    <3> QED
      BY <1>2, <3>1, <3>4, <3>5
  <2> QED
    BY <2>1 DEF HeadsOK, Slots
<1>11. NextOK'
  <2>1. \A q, r \in Offset : SameChain(q, r)' <=> SameChain(q, r) \/ (r = p /\ objects[q].type = t /\ BucketOf(q) = b)
    BY <1>1, <1>2, <1>3, <1>4 DEF SameChain
  <2>2. \A q \in Offset : \A r : (SameChain(q, r) => r \in Offset)
    BY <1>5 DEF SameChain
  <2>3. ASSUME NEW q \in Offset PROVE
           IF objects'[q].next = 0 THEN IsLinked(q)' => \A r \in Offset' : SameChain(q, r)' => r <= q
           ELSE /\ IsLinked(q)' /\ q < objects'[q].next /\ SameChain(q, objects[q].next)'
                /\ \A r \in Offset' : SameChain(q, r)' /\ q < r => objects'[q].next <= r
    <3>1. PICK m, k : m = objects[q].next /\ k = objects'[q].next
      OBVIOUS
    <3>2. k = IF tail # 0 /\ q = tail THEN p ELSE m
      BY <1>2, <2>3, <3>1
    <3>3. IF m = 0 THEN IsLinked(q) => \A r \in Offset : SameChain(q, r) => r <= q
          ELSE /\ IsLinked(q) /\ q < m /\ SameChain(q, m) /\ m \in Offset
               /\ \A r \in Offset : SameChain(q, r) /\ q < r => m <= r
      BY <1>7, <2>2, <2>3, <3>1 DEF NextOK
    <3>4. IF k = 0 THEN IsLinked(q)' => \A r \in Offset : SameChain(q, r)' => r <= q
          ELSE /\ IsLinked(q)' /\ q < k /\ SameChain(q, k)'
               /\ \A r \in Offset : SameChain(q, r)' /\ q < r => k <= r
      <4>1. CASE tail # 0 /\ q = tail
        <5>1. InChain(q, t, b) /\ \A r \in Offset : InChain(r, t, b) => r <= q
          BY <1>1, <4>1 DEF IsLast
        <5>2. k = p /\ IsLinked(q) /\ objects[q].type = t /\ BucketOf(q) = b /\ q # p
          BY <1>1, <3>2, <4>1, <5>1 DEF InChain
        <5>3. \A r \in Offset : SameChain(q, r) => r <= q
          BY <5>1, <5>2 DEF InChain, SameChain
        <5>4. q < p
          BY <1>6, <2>3, <5>2
        <5>5. IsLinked(q)' /\ SameChain(q, p)'
          BY <1>1, <1>4, <2>1, <2>3, <5>2
        <5>6. ASSUME NEW r \in Offset, SameChain(q, r)', q < r PROVE p <= r
          <6>1. SameChain(q, r) \/ r = p
            BY <2>1, <2>3, <5>6
          <6>2. ~SameChain(q, r)
            BY <1>6, <2>3, <5>3, <5>6
          <6> QED
            BY <1>6, <6>1, <6>2
        <5> QED
          BY <1>6, <5>2, <5>4, <5>5, <5>6
      <4>2. CASE ~(tail # 0 /\ q = tail) /\ m = 0
        <5>1. k = 0
          BY <3>2, <4>2
        <5>2. ASSUME IsLinked(q)', NEW r \in Offset, SameChain(q, r)' PROVE r <= q
          <6>1. CASE q = p
            BY <1>6, <6>1
          <6>2. CASE q # p
            <7>1. IsLinked(q) /\ \A x \in Offset : SameChain(q, x) => x <= q
              BY <1>4, <3>3, <4>2, <5>2, <6>2
            <7>2. SameChain(q, r) \/ (r = p /\ objects[q].type = t /\ BucketOf(q) = b)
              BY <2>1, <2>3, <5>2
            <7>3. ~(objects[q].type = t /\ BucketOf(q) = b)
              <8>1. SUFFICES ASSUME objects[q].type = t, BucketOf(q) = b PROVE FALSE
                OBVIOUS
              <8>2. InChain(q, t, b)
                BY <7>1, <8>1 DEF InChain
              <8>3. tail # 0 /\ InChain(tail, t, b) /\ tail \in Offset /\ q <= tail
                BY <1>1, <1>5, <2>3, <8>2 DEF IsLast
              <8>4. SameChain(q, tail)
                BY <8>1, <8>3 DEF SameChain, InChain
              <8>5. tail <= q
                BY <7>1, <8>3, <8>4
              <8> QED
                BY <1>6, <2>3, <4>2, <8>3, <8>5
            <7> QED
              BY <5>2, <7>1, <7>2, <7>3
          <6> QED
            BY <6>1, <6>2
        <5> QED
          BY <5>1, <5>2
      <4>3. CASE ~(tail # 0 /\ q = tail) /\ m # 0
        <5>1. k = m /\ IsLinked(q)' /\ q < m /\ SameChain(q, m)'
          BY <1>4, <2>1, <2>3, <3>2, <3>3, <4>3
        <5>2. ASSUME NEW r \in Offset, SameChain(q, r)', q < r PROVE m <= r
          BY <1>6, <2>1, <2>3, <3>3, <4>3, <5>2
        <5> QED
          BY <4>3, <5>1, <5>2
      <4> QED
        BY <4>1, <4>2, <4>3
    <3>5. SameChain(q, k)' => SameChain(q, objects[q].next)'
      BY <3>1
    <3> QED
      BY <1>2, <3>1, <3>4, <3>5
  <2> QED
    BY <1>2, <2>3 DEF NextOK
<1>12. ListsOK'
  <2>1. ASSUME NEW q \in Offset, objects'[q].list # 0
        PROVE  /\ IsLinked(objects[q].list)' /\ objects'[objects'[q].list].type = "data"
               /\ FieldName(objects[q].list)' = FieldName(q)'
               /\ objects'[q].type = "data" => objects'[q].list < q
    <3>1. PICK m : m = objects[q].list /\ m = objects'[q].list /\ m # 0
      BY <1>2, <2>1
    <3>2. /\ IsLinked(m) /\ m \in Offset /\ objects[m].type = "data" /\ FieldName(m) = FieldName(q)
          /\ objects[q].type = "data" => m < q
      BY <1>5, <1>7, <2>1, <3>1 DEF ListsOK
    <3>3. IsLinked(m)' /\ FieldName(m)' = FieldName(q)' /\ objects'[m].type = "data"
      BY <1>2, <1>3, <1>4, <2>1, <3>2
    <3>4. IsLinked(objects[q].list)' /\ FieldName(objects[q].list)' = FieldName(q)'
      BY <3>1, <3>3
    <3> QED
      BY <1>2, <2>1, <3>1, <3>2, <3>3, <3>4
  <2>2. ASSUME NEW q \in Offset, IsListed(q)' PROVE \E r \in Offset : IsField(r, FieldName(q))'
    <3>1. PICK name : name = FieldName(q) /\ name = FieldName(q)'
      BY <1>3, <2>2
    <3>2. PICK r \in Offset : IsField(r, name)
      BY <1>3, <1>7, <2>2, <3>1 DEF ListsOK
    <3>3. IsField(r, name)'
      BY <1>2, <1>4, <3>2 DEF IsField
    <3> QED
      BY <3>1, <3>2, <3>3
  <2>3. ASSUME NEW q \in Offset, IsListed(q)' \/ (IsLinked(q)' /\ objects'[q].type = "field"),
               NEW r \in Offset, IsListed(r)', FieldName(r)' = FieldName(q)',
               objects'[q].type = "data" => r < q
        PROVE  r <= objects'[q].list
    <3>1. /\ objects'[q].list = objects[q].list /\ IsListed(r) /\ FieldName(r) = FieldName(q)
          /\ objects[q].type = "data" => r < q
          /\ IsListed(q) \/ ((IsLinked(q) \/ q = p) /\ objects[q].type = "field")
      BY <1>2, <1>3, <1>4, <2>3
    <3>2. IsListed(q) \/ (IsLinked(q) /\ objects[q].type = "field")
      <4>1. CASE q = p /\ objects[q].type = "field"
        <5>1. PICK f \in Offset : IsField(f, FieldName(r))
          BY <1>7, <2>3, <3>1 DEF ListsOK
        <5>2. IsLinked(f) /\ objects[f].type = "field" /\ objects[f].key = objects[p].key
          BY <3>1, <4>1, <5>1 DEF IsField, FieldName
        <5> QED
          BY <1>1, <4>1, <5>1, <5>2
      <4> QED
        BY <3>1, <4>1
    <3>3. r <= objects[q].list
      BY <1>7, <2>3, <3>1, <3>2 DEF ListsOK
    <3> QED
      BY <3>1, <3>3
  <2> QED
    BY <1>2, <2>1, <2>2, <2>3 DEF ListsOK
<1>13. Grows
  BY <1>2, <1>3, <1>4 DEF Grows
<1> QED
  BY <1>8, <1>9, <1>10, <1>11, <1>12, <1>13 DEF TablesOK

\* What links an object: both stores, or the failure to map the last object of the bucket.
LEMMA LinkObjectCases ==
    ASSUME NEW p \in Offset, NEW t \in Types, objects[p].type = t, LinkObject(t, p), NEW b, b = BucketOf(p)
    PROVE  \/ /\ Patched(p, t, b)
              /\ writer' = [writer EXCEPT !.pc = IF t = "data" THEN "tail_data" ELSE "tail_field"]
              /\ UNCHANGED <<orphans, used>>
           \/ Use("unmapped") /\ Fail /\ UNCHANGED <<table, objects>>
<1>1. b = Bucket(t, objects[p].key)
  BY DEF BucketOf
<1> QED
  BY <1>1 DEF LinkObject, Patched

\* An object that is about to be linked, when no other is.
LEMMA ReadyToJoin ==
    ASSUME TypesOK, TablesOK, TailsOK, writer.pc \in {"link_data", "link_field"},
           NEW p \in Offset, NEW t \in Types, objects[p].type = t, Fresh(p)
    PROVE  Joining(p, t, BucketOf(p), table[t][BucketOf(p)].tail)
<1>1. PICK b, tail : b = BucketOf(p) /\ tail = table[t][b].tail
  OBVIOUS
<1>2. b \in Slots(t) /\ tail \in Nat
  BY <1>1, PointersInFile, ItemFacts
<1>3. IsLast(tail, t, b)
  BY <1>1, <1>2 DEF TailsOK, Linking
<1>4. Joining(p, t, b, tail)
  BY <1>1, <1>2, <1>3 DEF Joining
<1> QED
  BY <1>1, <1>4

\* The tails when the object is linked and its tail not yet stored.
LEMMA JoinedTails ==
    ASSUME TypesOK, TablesOK, TailsOK, writer.pc \in {"link_data", "link_field"}, NEW p, NEW t, NEW b, NEW tail,
           Joining(p, t, b, tail), Joined(p, t, b, tail), Linking' = p
    PROVE  TailsOK'
<1>1. /\ t \in Types /\ b \in Slots(t) /\ p \in Offset
      /\ \A s \in Types : \A c \in Slots(s) : table'[s][c].tail = table[s][c].tail
  BY DEF Joining, Joined
<1>2. /\ \A q, s, c : InChain(q, s, c)' <=> InChain(q, s, c) \/ (q = p /\ s = t /\ c = b)
      /\ \A q, s, c : (s # t \/ c # b) => (IsLast(q, s, c)' <=> IsLast(q, s, c))
  BY JoinedChains
<1>3. p # 0
  BY <1>1, OffsetFacts
<1>4. ASSUME NEW s \in Types, NEW c \in Slots(s)
      PROVE  (Linking' # 0 /\ InChain(Linking, s, c)') \/ IsLast(table[s][c].tail, s, c)'
  <2>1. CASE s = t /\ c = b
    <3>1. InChain(p, s, c)'
      BY <1>2, <2>1
    <3>2. InChain(Linking, s, c)'
      BY <3>1
    <3> QED
      BY <1>3, <3>2
  <2>2. CASE s # t \/ c # b
    <3>1. PICK q : q = table[s][c].tail /\ q = table'[s][c].tail
      BY <1>1, <1>4
    <3>2. IsLast(q, s, c)
      BY <1>4, <3>1 DEF TailsOK, Linking
    <3>3. IsLast(q, s, c)'
      BY <1>2, <2>2, <3>2
    <3> QED
      BY <3>1, <3>3
  <2> QED
    BY <2>1, <2>2
<1> QED
  BY <1>4 DEF TailsOK, Slots

\* journal_file_link_data() links the object.
LEMMA LinkDataPreserves ==
    ASSUME FileInv, LinkData
    PROVE  FileInv'
<1>1. TypesOK /\ TablesOK /\ ListedOK /\ ProgressOK /\ TailsOK /\ HeaderOK /\ DataOK
  BY DEF FileInv, WriterOK
<1>2. PICK p : p = writer.p
  OBVIOUS
<1>3. writer.pc = "link_data" /\ LinkObject("data", p) /\ UNCHANGED <<header, entries, reader>>
  BY <1>2 DEF LinkData
<1>4. /\ p \in Offset /\ objects[p].type = "data" /\ Fresh(p) /\ writer.todo # <<>>
      /\ objects[p].key = writer.todo[1] /\ objects[p].list = 0 /\ \A q \in Offset : IsListed(q) => q < p
  BY <1>1, <1>2, <1>3 DEF DataOK, NewData
<1>5. PICK b, tail : b = BucketOf(p) /\ tail = table["data"][b].tail
  OBVIOUS
<1>6. CASE Use("unmapped") /\ Fail /\ UNCHANGED <<table, objects>>
  <2>1. used' \in Bounds /\ used'.unmapped # 0
    BY <1>1, <1>6, UseFacts DEF TypesOK
  <2> QED
    BY <1>3, <1>6, <2>1, FailPreserves
<1>7. CASE /\ Patched(p, "data", b)
           /\ writer' = [writer EXCEPT !.pc = "tail_data"]
           /\ UNCHANGED <<orphans, used>>
  <2>1. Joining(p, "data", b, tail)
    BY <1>1, <1>3, <1>4, <1>5, ReadyToJoin DEF Types
  <2>2. Joined(p, "data", b, tail)
    BY <1>1, <1>7, <2>1, LinkStores
  <2>3. /\ objects' \in Seq(Objects) /\ Len(objects') = Len(objects) /\ Offset' = Offset
        /\ \A q \in Offset : /\ objects'[q].type = objects[q].type /\ objects'[q].key = objects[q].key
                             /\ objects'[q].list = objects[q].list
        /\ table' = [s \in Types |-> table'[s]] /\ \A s \in Types : table'[s] \in [Slots(s) -> Items]
    BY <2>2 DEF Joined
  <2>4. \A q : IsLinked(q)' <=> IsLinked(q) \/ q = p
    BY <1>1, <2>1, <2>2, JoinedLinks
  <2>5. /\ \A q \in Offset : BucketOf(q)' = BucketOf(q)
        /\ \A q : IsListed(q)' <=> IsListed(q)
        /\ IsLast(p, "data", b)'
    BY <1>1, <2>1, <2>2, JoinedChains
  <2>6. Grows /\ TablesOK'
    BY <1>1, <1>7, <2>1, <2>2, JoinedTables
  <2>7. /\ writer' \in Writers /\ writer'.pc = "tail_data" /\ writer'.p = p
        /\ writer'.todo = writer.todo /\ writer'.want = writer.want /\ writer'.done = writer.done
    BY <1>1, <1>2, <1>7, WriterFacts DEF Writers, Steps
  <2>8. TailsOK'
    <3>1. Linking' = p
      BY <2>7 DEF Linking
    <3> QED
      BY <1>1, <1>3, <2>1, <2>2, <3>1, JoinedTails
  <2>9. DataOK'
    <3>1. IF writer'.pc = "link_data" THEN Fresh(writer.p)' ELSE IsLinked(writer.p)'
      BY <2>4, <2>7
    <3>2. b = BucketOf(p)'
      BY <1>4, <1>5, <2>5
    <3>3. IsLast(p, "data", BucketOf(p))'
      BY <2>5, <3>2
    <3>4. IsLast(writer.p, "data", BucketOf(writer.p))'
      BY <2>7, <3>3
    <3> QED
      BY <1>4, <2>3, <2>5, <2>7, <3>1, <3>4 DEF DataOK
  <2>10. FieldOK'
    BY <2>7 DEF FieldOK, NewField
  <2>11. ListedOK'
    BY <1>1, <1>2, <1>3, <1>7, <2>3, <2>4, <2>5, <2>7 DEF ListedOK, NewData
  <2>12. HeaderOK'
    <3>1. \A t : Of(t)' = Of(t)
      BY <1>1, <2>3, OffsetFacts DEF Of
    <3>2. Cardinality(Of("data"))' = Cardinality(Of("data")) /\ Cardinality(Of("field"))' = Cardinality(Of("field"))
      BY <3>1
    <3> QED
      BY <1>1, <1>3, <1>7, <2>3, <2>7, <3>2 DEF HeaderOK
  <2>13. ProgressOK' /\ EntriesOK' /\ ReaderOK'
    BY <1>1, <1>3, <2>6, <2>7, GrowsProgress, GrowsEntries, GrowsReader DEF FileInv
  <2>14. TypesOK'
    BY <1>1, <1>3, <1>7, <2>3, <2>7 DEF TypesOK, Slots
  <2> QED
    BY <2>6, <2>8, <2>9, <2>10, <2>11, <2>12, <2>13, <2>14 DEF FileInv, WriterOK
<1> QED
  BY <1>3, <1>4, <1>5, <1>6, <1>7, LinkObjectCases DEF Types

\* journal_file_link_field() links the object.
LEMMA LinkFieldPreserves ==
    ASSUME FileInv, LinkField
    PROVE  FileInv'
<1>1. TypesOK /\ TablesOK /\ ListedOK /\ ProgressOK /\ TailsOK /\ HeaderOK /\ DataOK /\ FieldOK
  BY DEF FileInv, WriterOK
<1>2. PICK p, fp : p = writer.p /\ fp = writer.fp
  OBVIOUS
<1>3. writer.pc = "link_field" /\ LinkObject("field", fp) /\ UNCHANGED <<header, entries, reader>>
  BY <1>2 DEF LinkField
<1>4. /\ p \in Offset /\ objects[p].type = "data" /\ IsLinked(p) /\ writer.todo # <<>>
      /\ objects[p].key = writer.todo[1] /\ objects[p].list = 0 /\ \A q \in Offset : IsListed(q) => q < p
  BY <1>1, <1>2, <1>3 DEF DataOK, NewData
<1>5. /\ fp \in Offset /\ objects[fp].type = "field" /\ objects[fp].key = FieldName(p) /\ Fresh(fp)
  BY <1>1, <1>2, <1>3 DEF FieldOK, NewField
<1>6. PICK b, tail : b = BucketOf(fp) /\ tail = table["field"][b].tail
  OBVIOUS
<1>7. CASE Use("unmapped") /\ Fail /\ UNCHANGED <<table, objects>>
  <2>1. used' \in Bounds /\ used'.unmapped # 0
    BY <1>1, <1>7, UseFacts DEF TypesOK
  <2> QED
    BY <1>3, <1>7, <2>1, FailPreserves
<1>8. CASE /\ Patched(fp, "field", b)
           /\ writer' = [writer EXCEPT !.pc = "tail_field"]
           /\ UNCHANGED <<orphans, used>>
  <2>1. Joining(fp, "field", b, tail)
    BY <1>1, <1>3, <1>5, <1>6, ReadyToJoin DEF Types
  <2>2. Joined(fp, "field", b, tail)
    BY <1>1, <1>8, <2>1, LinkStores
  <2>3. /\ objects' \in Seq(Objects) /\ Len(objects') = Len(objects) /\ Offset' = Offset
        /\ \A q \in Offset : /\ objects'[q].type = objects[q].type /\ objects'[q].key = objects[q].key
                             /\ objects'[q].list = objects[q].list
        /\ table' = [s \in Types |-> table'[s]] /\ \A s \in Types : table'[s] \in [Slots(s) -> Items]
    BY <2>2 DEF Joined
  <2>4. \A q : IsLinked(q)' <=> IsLinked(q) \/ q = fp
    BY <1>1, <2>1, <2>2, JoinedLinks
  <2>5. /\ \A q \in Offset : BucketOf(q)' = BucketOf(q) /\ FieldName(q)' = FieldName(q)
        /\ \A q : IsListed(q)' <=> IsListed(q)
        /\ IsLast(fp, "field", b)'
    BY <1>1, <2>1, <2>2, JoinedChains
  <2>6. Grows /\ TablesOK'
    BY <1>1, <1>8, <2>1, <2>2, JoinedTables
  <2>7. /\ writer' \in Writers /\ writer'.pc = "tail_field" /\ writer'.p = p /\ writer'.fp = fp
        /\ writer'.todo = writer.todo /\ writer'.want = writer.want /\ writer'.done = writer.done
    BY <1>1, <1>2, <1>8, WriterFacts DEF Writers, Steps
  <2>8. TailsOK'
    <3>1. Linking' = fp
      BY <2>7 DEF Linking
    <3> QED
      BY <1>1, <1>3, <2>1, <2>2, <3>1, JoinedTails
  <2>9. DataOK'
    <3>1. IF writer'.pc = "link_data" THEN Fresh(writer.p)' ELSE IsLinked(writer.p)'
      BY <1>4, <2>4, <2>7
    <3> QED
      BY <1>4, <2>3, <2>5, <2>7, <3>1 DEF DataOK
  <2>10. FieldOK'
    <3>1. IF writer'.pc = "link_field" THEN Fresh(writer.fp)' ELSE IsLinked(writer.fp)'
      BY <2>4, <2>7
    <3>2. b = BucketOf(fp)' /\ FieldName(p)' = FieldName(p)
      BY <1>4, <1>5, <1>6, <2>5
    <3>3. IsLast(fp, "field", BucketOf(fp))'
      BY <2>5, <3>2
    <3>4. IsLast(writer.fp, "field", BucketOf(writer.fp))' /\ FieldName(writer.p)' = FieldName(p)
      BY <2>7, <3>2, <3>3
    <3> QED
      BY <1>5, <2>3, <2>7, <3>1, <3>4 DEF FieldOK
  <2>11. ListedOK'
    BY <1>1, <1>2, <1>3, <1>5, <1>8, <2>3, <2>4, <2>5, <2>7 DEF ListedOK, NewData
  <2>12. HeaderOK'
    <3>1. \A t : Of(t)' = Of(t)
      BY <1>1, <2>3, OffsetFacts DEF Of
    <3>2. Cardinality(Of("data"))' = Cardinality(Of("data")) /\ Cardinality(Of("field"))' = Cardinality(Of("field"))
      BY <3>1
    <3> QED
      BY <1>1, <1>3, <1>8, <2>3, <2>7, <3>2 DEF HeaderOK
  <2>13. ProgressOK' /\ EntriesOK' /\ ReaderOK'
    BY <1>1, <1>3, <2>6, <2>7, GrowsProgress, GrowsEntries, GrowsReader DEF FileInv
  <2>14. TypesOK'
    BY <1>1, <1>3, <1>8, <2>3, <2>7 DEF TypesOK, Slots
  <2> QED
    BY <2>6, <2>8, <2>9, <2>10, <2>11, <2>12, <2>13, <2>14 DEF FileInv, WriterOK
<1> QED
  <2>1. \/ /\ Patched(fp, "field", b)
           /\ writer' = [writer EXCEPT !.pc = IF "field" = "data" THEN "tail_data" ELSE "tail_field"]
           /\ UNCHANGED <<orphans, used>>
        \/ Use("unmapped") /\ Fail /\ UNCHANGED <<table, objects>>
    BY <1>3, <1>5, <1>6, LinkObjectCases DEF Types
  <2> QED
    BY <1>7, <1>8, <2>1

-----------------------------------------------------------------------------
(* Every step                                                              *)

\* Nothing happens.
LEMMA StutterPreserves ==
    ASSUME FileInv, UNCHANGED vars
    PROVE  FileInv'
<1>1. /\ objects' = objects /\ table' = table /\ header' = header /\ entries' = entries /\ writer' = writer
      /\ reader' = reader /\ orphans' = orphans /\ used' = used
  BY DEF vars
<1>2. Grows
  BY <1>1, SameFile
<1>3. ReaderOK'
  BY <1>1, <1>2, GrowsReader DEF FileInv
<1> QED
  BY <1>1, <1>3, ReaderStep DEF FileInv, TypesOK

\* Every step of the writer, of the reader, and none.
LEMMA NextPreserves ==
    ASSUME FileInv, [Next]_vars
    PROVE  FileInv'
<1>1. CASE WriterNext
  BY <1>1, AppendEntryPreserves, AppendDataPreserves, LinkDataPreserves, LinkDataTailPreserves,
     AppendFieldPreserves, LinkFieldPreserves, LinkFieldTailPreserves, SetNextFieldPreserves,
     SetHeadDataPreserves, LinkEntryPreserves, KillPreserves DEF WriterNext
<1>2. CASE ReaderNext
  BY <1>2, SearchPreserves, WalkPreserves, EnumeratePreserves, ReturnPreserves DEF ReaderNext
<1>3. CASE UNCHANGED vars
  BY <1>3, StutterPreserves
<1> QED
  BY <1>1, <1>2, <1>3 DEF Next

\* The invariant of the file: after every store of the writer, wherever it fails or dies,
\* the chain of a bucket has the linked objects of the bucket in the order of the file and
\* the list of a field has the listed ones, and what the reader looks for is before it.
THEOREM FileInvariant == Spec => []FileInv
<1>1. Init => FileInv
  BY InitEstablishes
<1>2. FileInv /\ [Next]_vars => FileInv'
  BY NextPreserves
<1> QED
  BY <1>1, <1>2, PTL DEF Spec

\* A search of journal_file_find_data_object() that races the writer finds what was linked
\* when it began and nothing else.
THEOREM LookupsAreExact == Spec => []LookupExact
<1>1. FileInv => LookupExact
  BY DEF FileInv, ReaderOK
<1> QED
  BY <1>1, FileInvariant, PTL

\* An enumeration of sd_journal_enumerate_unique() that races the writer returns each value
\* of the field once, and all that were listed when it began.
THEOREM EnumerationsAreExact == Spec => []EnumerateExact
<1>1. FileInv => EnumerateExact
  BY DEF FileInv, ReaderOK
<1> QED
  BY <1>1, FileInvariant, PTL

\* What an entry refers to is found by a search for its payload, and listed by its field.
LEMMA EntriesFound ==
    ASSUME FileInv
    PROVE  EntriesExact
<1>1. TypesOK /\ ObjectsOK /\ HeadsOK /\ NextOK /\ UniqueOK /\ ListsOK /\ EntriesOK
  BY DEF FileInv, TablesOK
<1>2. ASSUME NEW e \in entries, NEW i \in DOMAIN e.items
      PROVE  /\ objects[e.items[i]].key = e.want[i]
             /\ FindObject("data", e.want[i]) = e.items[i]
             /\ e.items[i] \notin orphans => e.want[i] \in Listed(e.want[i].field)
  <2>1. PICK p, d : p = e.items[i] /\ d = e.want[i]
    OBVIOUS
  <2>2. ItemOK(p, d)
    BY <1>1, <1>2, <2>1 DEF EntriesOK
  <2>3. /\ IsLinked(p) /\ p \in Offset /\ objects[p].type = "data" /\ objects[p].key = d
        /\ p \notin orphans => IsListed(p)
    BY <2>2 DEF ItemOK, IsLinked
  <2>4. d \in Payloads /\ d \in Keys("data") /\ "data" \in Types /\ d.field \in Fields
    BY <1>1, <2>3 DEF ObjectsOK, Keys, Types, Fields
  <2>5. FindObject("data", d) = p
    <3>1. PICK q : q = FindObject("data", d)
      OBVIOUS
    <3>2. Found(q, "data", d)
      BY <1>1, <2>4, <3>1, FindFacts
    <3>3. q # 0
      BY <2>3, <3>2 DEF Found
    <3>4. IsLinked(q) /\ q \in Offset /\ objects[q].type = "data" /\ objects[q].key = d
      BY <3>2, <3>3 DEF Found, IsLinked
    <3>5. q = p
      BY <1>1, <2>3, <3>4 DEF UniqueOK
    <3> QED
      BY <3>1, <3>5
  <2>6. p \notin orphans => d \in Listed(d.field)
    <3>1. CASE p \notin orphans
      <4>1. IsListed(p) /\ FieldName(p) = d.field
        BY <2>3, <3>1 DEF FieldName
      <4>2. PICK name : name = d.field
        OBVIOUS
      <4>3. d \in Listed(name)
        BY <1>1, <2>3, <2>4, <4>1, <4>2, ListedFacts
      <4> QED
        BY <4>2, <4>3
    <3> QED
      BY <3>1
  <2> QED
    BY <2>1, <2>3, <2>5, <2>6
<1>3. \A e \in entries : Len(e.items) = Len(e.want)
  BY <1>1 DEF EntriesOK
<1> QED
  BY <1>2, <1>3 DEF EntriesExact

\* Every entry refers to the one object of each of its payloads, which a search finds and the
\* field lists.
THEOREM EntriesAreExact == Spec => []EntriesExact
<1>1. FileInv => EntriesExact
  BY EntriesFound
<1> QED
  BY <1>1, FileInvariant, PTL

\* The verifier's checks of the objects, the header, the data hash table and the entries.
LEMMA VerifierAccepts ==
    ASSUME FileInv
    PROVE  ObjectsVerify
<1>1. SUFFICES ASSUME writer.pc = "idle", used.unmapped = 0
               PROVE  VerifyObjects /\ VerifyHeader /\ VerifyHashTable /\ VerifyEntries
  BY DEF ObjectsVerify
<1>2. TypesOK /\ ObjectsOK /\ HeadsOK /\ NextOK /\ TailsOK /\ HeaderOK /\ EntriesOK /\ TablesOK
  BY DEF FileInv, TablesOK, WriterOK
<1>3. Len(objects) \in Nat /\ Offset = 1 .. Len(objects) /\ "data" \in Types
  BY <1>2, OffsetFacts DEF Types
<1>4. VerifyObjects
  BY <1>2, <1>3 DEF VerifyObjects, ObjectsOK, Of
<1>5. VerifyHeader
  <2>1. header.objects = Len(objects) + 2
    BY <1>2 DEF HeaderOK
  <2>2. header.data \in Nat /\ header.field \in Nat
    BY <1>2 DEF TypesOK
  <2>3. header.data = Cardinality(Of("data")) /\ header.field = Cardinality(Of("field"))
    BY <1>1, <1>2, <2>2 DEF HeaderOK
  <2>4. header["data"] = Cardinality(Of("data")) /\ header["field"] = Cardinality(Of("field"))
    BY <2>3
  <2> QED
    BY <2>1, <2>4 DEF VerifyHeader, Types
<1>6. \A p \in Offset : objects[p].type = "data" => objects[p].hash % Buckets["data"] = BucketOf(p)
  BY <1>2 DEF ObjectsOK, BucketOf, Bucket
<1>7. VerifyHashTable
  <2>1. ASSUME NEW b \in Slots("data")
        PROVE  /\ HashChain("data", b)[0] = 0 => table["data"][b].tail = 0
               /\ \A p \in Offsets(HashChain("data", b)) :
                    /\ objects[p].type = "data" /\ objects[p].hash % Buckets["data"] = b
                    /\ IF NextHash[p] = 0 THEN table["data"][b].tail = p ELSE p < NextHash[p]
    <3>1. PICK tail, h : tail = table["data"][b].tail /\ h = table["data"][b].head
      OBVIOUS
    <3>2. Offsets(HashChain("data", b)) = {p \in Offset : InChain(p, "data", b)} /\ HashChain("data", b)[0] = h
      BY <1>2, <1>3, <2>1, <3>1, HashChainFacts
    <3>3. IsLast(tail, "data", b)
      BY <1>1, <1>2, <1>3, <2>1, <3>1 DEF TailsOK, Linking
    <3>4. h = 0 => \A p \in Offset : ~InChain(p, "data", b)
      BY <1>2, <1>3, <2>1, <3>1 DEF HeadsOK
    <3>5. h = 0 => tail = 0
      BY <3>3, <3>4 DEF IsLast, InChain, IsLinked
    <3>6. ASSUME NEW p \in Offset, InChain(p, "data", b)
          PROVE  /\ objects[p].type = "data" /\ objects[p].hash % Buckets["data"] = b
                 /\ IF NextHash[p] = 0 THEN tail = p ELSE p < NextHash[p]
      <4>1. objects[p].type = "data" /\ BucketOf(p) = b /\ IsLinked(p)
        BY <3>6 DEF InChain
      <4>2. PICK m : m = objects[p].next
        OBVIOUS
      <4>3. NextHash[p] = m
        BY <1>2, <3>6, <4>2, OffsetFacts DEF NextHash
      <4>4. m # 0 => p < m
        BY <1>2, <3>6, <4>2 DEF NextOK
      <4>5. m = 0 => \A q \in Offset : InChain(q, "data", b) => q <= p
        BY <1>2, <3>6, <4>1, <4>2 DEF NextOK, SameChain, InChain
      <4>6. tail \in Offset /\ InChain(tail, "data", b) /\ p <= tail
        BY <3>3, <3>6 DEF IsLast, InChain, IsLinked
      <4>7. m = 0 => tail = p
        BY <1>3, <3>6, <4>5, <4>6
      <4> QED
        BY <1>6, <3>6, <4>1, <4>3, <4>4, <4>7
    <3> QED
      BY <3>1, <3>2, <3>5, <3>6
  <2> QED
    BY <2>1 DEF VerifyHashTable, Slots
<1>8. VerifyEntries
  <2>1. ASSUME NEW e \in entries, NEW i \in DOMAIN e.items PROVE InHashTable(e.items[i])
    <3>1. PICK p, d : p = e.items[i] /\ d = e.want[i]
      OBVIOUS
    <3>2. ItemOK(p, d)
      BY <1>2, <2>1, <3>1 DEF EntriesOK
    <3>3. IsLinked(p) /\ p \in Offset /\ objects[p].type = "data"
      BY <3>2 DEF ItemOK, IsLinked
    <3>4. PICK b : b = BucketOf(p) /\ b = objects[p].hash % Buckets["data"]
      BY <1>6, <3>3
    <3>5. b \in Slots("data")
      BY <1>2, <3>3, <3>4, PointersInFile
    <3>6. Offsets(HashChain("data", b)) = {q \in Offset : InChain(q, "data", b)}
      BY <1>2, <1>3, <3>5, HashChainFacts
    <3>7. p \in Offsets(HashChain("data", b))
      BY <3>3, <3>4, <3>6 DEF InChain
    <3>8. InHashTable(p)
      BY <3>4, <3>7 DEF InHashTable
    <3> QED
      BY <3>1, <3>8
  <2> QED
    BY <2>1 DEF VerifyEntries
<1> QED
  BY <1>4, <1>5, <1>7, <1>8

\* Between two appends, unless one was ended because an object could not be mapped, the
\* verifier accepts the objects, the tables and the entries.
THEOREM ObjectsAlwaysVerify == Spec => []ObjectsVerify
<1>1. FileInv => ObjectsVerify
  BY VerifierAccepts
<1> QED
  BY <1>1, FileInvariant, PTL
=============================================================================
