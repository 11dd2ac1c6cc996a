-------------------------- MODULE EntryIndexProofs --------------------------
(***************************************************************************)
(* Proofs about EntryIndex and about its reader EntrySearch, for every set *)
(* of data objects, every least capacity of an array, any number of        *)
(* entries and any size of the chain cache.                                *)
(***************************************************************************)
EXTENDS EntrySearch, Recursion, TLAPS

-----------------------------------------------------------------------------
(* Chains of arrays as one long vector                                     *)

Capacity(arrays) ==
    IF arrays = <<>> THEN 0 ELSE End(arrays[Len(arrays)])

\* Index i lies in array j.
Holds(arrays, j, i) ==
    /\ j \in DOMAIN arrays
    /\ arrays[j].start <= i
    /\ i < End(arrays[j])

\* The arrays follow each other, and every index below the capacity lies in
\* one of them.
Shape(arrays) ==
    /\ arrays \in Seq(Array)
    /\ arrays # <<>> => arrays[1].start = 0
    /\ \A j \in DOMAIN arrays : arrays[j].items # <<>>
    /\ \A j \in DOMAIN arrays : \A k \in DOMAIN arrays :
          k = j + 1 => arrays[k].start = End(arrays[j])
    /\ \A j \in DOMAIN arrays : \A k \in DOMAIN arrays :
          j < k => End(arrays[j]) <= arrays[k].start
    /\ \A i \in Nat : i < Capacity(arrays) => \E j \in Nat : Holds(arrays, j, i)

\* The types of the parts of a chain in shape.
LEMMA ShapeTypes ==
    ASSUME NEW arrays, Shape(arrays)
    PROVE  /\ Len(arrays) \in Nat /\ DOMAIN arrays = 1..Len(arrays)
           /\ arrays # <<>> => Len(arrays) >= 1
           /\ \A j \in DOMAIN arrays :
                 /\ arrays[j] \in Array
                 /\ arrays[j].start \in Nat
                 /\ arrays[j].items \in Seq(Nat)
                 /\ Len(arrays[j].items) \in Nat /\ Len(arrays[j].items) >= 1
                 /\ DOMAIN arrays[j].items = 1..Len(arrays[j].items)
                 /\ End(arrays[j]) \in Nat
                 /\ End(arrays[j]) = arrays[j].start + Len(arrays[j].items)
           /\ Capacity(arrays) \in Nat
<1>1. arrays \in Seq(Array) /\ \A j \in DOMAIN arrays : arrays[j].items # <<>>
  BY DEF Shape
<1>2. Len(arrays) \in Nat /\ DOMAIN arrays = 1..Len(arrays)
  BY <1>1
<1>3. arrays # <<>> => Len(arrays) >= 1
  BY <1>1
<1>4. ASSUME NEW j \in DOMAIN arrays
      PROVE  /\ arrays[j] \in Array
             /\ arrays[j].start \in Nat
             /\ arrays[j].items \in Seq(Nat)
             /\ Len(arrays[j].items) \in Nat /\ Len(arrays[j].items) >= 1
             /\ DOMAIN arrays[j].items = 1..Len(arrays[j].items)
             /\ End(arrays[j]) \in Nat
             /\ End(arrays[j]) = arrays[j].start + Len(arrays[j].items)
  <2>1. arrays[j] \in Array
    BY <1>1
  <2>2. arrays[j].start \in Nat /\ arrays[j].items \in Seq(Nat)
    BY <2>1 DEF Array
  <2>3. Len(arrays[j].items) \in Nat /\ Len(arrays[j].items) >= 1
        /\ DOMAIN arrays[j].items = 1..Len(arrays[j].items)
    BY <2>2, <1>1
  <2> QED
    BY <2>1, <2>2, <2>3 DEF End
<1>5. Capacity(arrays) \in Nat
  BY <1>2, <1>3, <1>4 DEF Capacity
<1> QED
  BY <1>2, <1>3, <1>4, <1>5

\* The item at an index can be read off any array that holds the index: only
\* one does.
LEMMA ItemOfArray ==
    ASSUME NEW arrays, Shape(arrays), NEW i \in Nat, NEW j \in Nat,
           Holds(arrays, j, i)
    PROVE  ArrayItem(arrays, i) = arrays[j].items[i - arrays[j].start + 1]
<1> DEFINE P(m) == m \in DOMAIN arrays
                     /\ arrays[m].start <= i /\ i < End(arrays[m])
           k == CHOOSE m \in DOMAIN arrays :
                   arrays[m].start <= i /\ i < End(arrays[m])
<1>1. P(k)
  BY DEF Holds
<1>2. k = j
  BY <1>1, ShapeTypes DEF Shape, Holds
<1> QED
  BY <1>2 DEF ArrayItem

\* An array has room for an index exactly if the index is below the capacity.
LEMMA RoomIsCapacity ==
    ASSUME NEW arrays, Shape(arrays), NEW i \in Nat
    PROVE  Room(arrays, i) # {} <=> i < Capacity(arrays)
<1>1. ASSUME NEW j \in Room(arrays, i) PROVE i < Capacity(arrays)
  <2>1. j \in DOMAIN arrays /\ i < End(arrays[j])
    BY DEF Room
  <2>2. arrays # <<>> /\ Len(arrays) \in DOMAIN arrays /\ j <= Len(arrays)
    BY <2>1, ShapeTypes
  <2>3. End(arrays[j]) <= End(arrays[Len(arrays)])
    <3>1. CASE j = Len(arrays)
      BY <3>1, <2>2, ShapeTypes
    <3>2. CASE j < Len(arrays)
      <4>1. End(arrays[j]) <= arrays[Len(arrays)].start
        BY <3>2, <2>1, <2>2 DEF Shape
      <4> QED
        BY <4>1, <2>1, <2>2, ShapeTypes
    <3> QED
      BY <2>1, <2>2, <3>1, <3>2, ShapeTypes
  <2> QED
    BY <2>1, <2>2, <2>3, ShapeTypes DEF Capacity
<1>2. ASSUME i < Capacity(arrays) PROVE Room(arrays, i) # {}
  BY <1>2 DEF Shape, Holds, Room
<1> QED
  BY <1>1, <1>2

\* The array that is added holds at least one item.
LEMMA NewCapacityPositive ==
    ASSUME NEW arrays, Shape(arrays), NEW i \in Nat
    PROVE  NewCapacity(arrays, i) \in Nat \ {0}
BY IndexAssumption DEF NewCapacity, Shape, Array

\* What storing an item does to the vector: it has the item at its index, every
\* other index keeps its item, and the arrays stay in shape.
LEMMA StoreItemLemma ==
    ASSUME NEW arrays, Shape(arrays), NEW h \in Nat, h <= Capacity(arrays),
           NEW p \in Nat
    PROVE  LET new == StoreItem(arrays, h, p) IN
           /\ Shape(new)
           /\ h < Capacity(new)
           /\ Capacity(arrays) <= Capacity(new)
           /\ ArrayItem(new, h) = p
           /\ \A i \in Nat : i < Capacity(arrays) /\ i # h =>
                 ArrayItem(new, i) = ArrayItem(arrays, i)
<1> DEFINE new == StoreItem(arrays, h, p)
<1>0. Capacity(arrays) \in Nat
  BY ShapeTypes
<1>1. CASE h < Capacity(arrays)
  <2>1. PICK j \in Nat : Holds(arrays, j, h)
    BY <1>1 DEF Shape
  <2>2. j \in Room(arrays, h) /\ \A i \in Room(arrays, h) : j <= i
    BY <2>1, ShapeTypes DEF Room, Holds, Shape
  <2>3. (CHOOSE m \in Room(arrays, h) : \A i \in Room(arrays, h) : m <= i) = j
    <3> DEFINE m == CHOOSE m \in Room(arrays, h) : \A i \in Room(arrays, h) : m <= i
    <3>1. m \in Room(arrays, h) /\ \A i \in Room(arrays, h) : m <= i
      BY <2>2
    <3> QED
      BY <3>1, <2>2, ShapeTypes DEF Room
  <2>4. new = [arrays EXCEPT ![j].items[h - arrays[j].start + 1] = p]
    BY <2>2, <2>3 DEF StoreItem
  <2> DEFINE x == h - arrays[j].start + 1
  <2>5. /\ j \in DOMAIN arrays /\ x \in 1..Len(arrays[j].items)
        /\ arrays[j].items \in Seq(Nat) /\ arrays[j] \in Array
    BY <2>1, ShapeTypes, SMTT(20) DEF Holds
  <2>6. /\ new \in Seq(Array) /\ Len(new) = Len(arrays)
        /\ DOMAIN new = DOMAIN arrays
        /\ \A k \in DOMAIN arrays :
              /\ new[k].start = arrays[k].start
              /\ Len(new[k].items) = Len(arrays[k].items)
              /\ new[k].items \in Seq(Nat)
              /\ \A y \in DOMAIN arrays[k].items :
                    new[k].items[y] = IF k = j /\ y = x THEN p
                                                       ELSE arrays[k].items[y]
    <3> DEFINE items == [arrays[j].items EXCEPT ![x] = p]
               array == [arrays[j] EXCEPT !.items = items]
    <3>1. /\ items \in Seq(Nat) /\ Len(items) = Len(arrays[j].items)
          /\ \A y \in DOMAIN arrays[j].items :
                items[y] = IF y = x THEN p ELSE arrays[j].items[y]
      BY <2>5
    <3> HIDE DEF items
    <3>2. /\ array \in Array /\ array.items = items
          /\ array.start = arrays[j].start
      BY <2>5, <3>1 DEF Array
    <3>3. new = [arrays EXCEPT ![j] = array]
      BY <2>4 DEF items
    <3> HIDE DEF new, array, x
    <3>4. arrays \in Seq(Array)
      BY DEF Shape
    <3>5. /\ new \in Seq(Array) /\ Len(new) = Len(arrays)
          /\ DOMAIN new = DOMAIN arrays
          /\ \A k \in DOMAIN arrays : new[k] = IF k = j THEN array ELSE arrays[k]
      BY <3>2, <3>3, <3>4, <2>5
    <3>6. \A k \in DOMAIN arrays : arrays[k].items \in Seq(Nat)
      BY ShapeTypes
    <3> QED
      BY <3>1, <3>2, <3>5, <3>6
  <2>7. \A k \in DOMAIN arrays : End(new[k]) = End(arrays[k])
    BY <2>6 DEF End
  <2>8. Capacity(new) = Capacity(arrays)
    BY <2>6, <2>7, ShapeTypes DEF Capacity
  <2>9. \A k \in Nat, i \in Nat : Holds(new, k, i) <=> Holds(arrays, k, i)
    BY <2>6, <2>7 DEF Holds
  <2>10. Shape(new)
    <3> HIDE DEF new
    <3>1. ASSUME NEW k \in DOMAIN arrays PROVE new[k].items # <<>>
      BY <2>6, ShapeTypes
    <3>2. new # <<>> => new[1].start = 0
      BY <2>6, ShapeTypes DEF Shape
    <3>3. ASSUME NEW k \in DOMAIN new, NEW m \in DOMAIN new
          PROVE  /\ m = k + 1 => new[m].start = End(new[k])
                 /\ k < m => End(new[k]) <= new[m].start
      BY <2>6, <2>7 DEF Shape
    <3>4. ASSUME NEW i \in Nat, i < Capacity(new)
          PROVE  \E k \in Nat : Holds(new, k, i)
      BY <3>4, <2>8, <2>9 DEF Shape
    <3> QED
      BY <2>6, <3>1, <3>2, <3>3, <3>4 DEF Shape
  <2>11. ArrayItem(new, h) = p
    <3>1. Holds(new, j, h)
      BY <2>1, <2>9
    <3>2. ArrayItem(new, h) = new[j].items[h - new[j].start + 1]
      BY <3>1, <2>10, ItemOfArray
    <3>3. new[j].start = arrays[j].start /\ new[j].items[x] = p
      BY <2>5, <2>6, ShapeTypes
    <3> QED
      BY <3>2, <3>3
  <2>12. ASSUME NEW i \in Nat, i < Capacity(arrays), i # h
         PROVE  ArrayItem(new, i) = ArrayItem(arrays, i)
    <3>1. PICK k \in Nat : Holds(arrays, k, i)
      BY <2>12 DEF Shape
    <3>2. ArrayItem(arrays, i) = arrays[k].items[i - arrays[k].start + 1]
      BY <3>1, ItemOfArray
    <3>3. ArrayItem(new, i) = new[k].items[i - new[k].start + 1]
      BY <3>1, <2>9, <2>10, ItemOfArray
    <3>4. i - arrays[k].start + 1 \in DOMAIN arrays[k].items
      BY <3>1, ShapeTypes DEF Holds
    <3>5. ~(k = j /\ i - arrays[k].start + 1 = x)
      BY <2>12, <2>5, <3>1, ShapeTypes DEF Holds
    <3> HIDE DEF new, x
    <3> QED
      BY <2>6, <3>1, <3>2, <3>3, <3>4, <3>5 DEF Holds
  <2> HIDE DEF new
  <2>13. \A i \in Nat : i < Capacity(arrays) /\ i # h =>
                 ArrayItem(new, i) = ArrayItem(arrays, i)
    BY <2>12
  <2> QED
    BY <1>0, <1>1, <2>8, <2>10, <2>11, <2>13 DEF new
<1>2. CASE h = Capacity(arrays)
  <2> DEFINE N     == NewCapacity(arrays, h)
             L     == Len(arrays)
             items == [k \in 1..N |-> IF k = 1 THEN p ELSE 0]
             array == [start |-> h, items |-> items]
  <2>1. Room(arrays, h) = {}
    BY <1>0, <1>2, RoomIsCapacity
  <2>2. N \in Nat \ {0}
    BY NewCapacityPositive
  <2>3. new = Append(arrays, array)
    <3>1. h = IF arrays = <<>> THEN 0 ELSE End(arrays[Len(arrays)])
      BY <1>2 DEF Capacity
    <3>2. \A k \in 1..N : (k = h - h + 1) <=> (k = 1)
      BY <2>2
    <3> QED
      BY <2>1, <3>1, <3>2 DEF StoreItem
  <2>4. items \in Seq(Nat) /\ Len(items) = N /\ items[1] = p
    BY <2>2
  <2>5. /\ array \in Array /\ array.start = h /\ array.items = items
        /\ End(array) = h + N
    BY <2>4 DEF Array, End
  <2> HIDE DEF N, items, array, new
  <2>6. /\ new \in Seq(Array) /\ Len(new) = L + 1 /\ DOMAIN new = 1..L + 1
        /\ \A k \in 1..L : new[k] = arrays[k]
        /\ new[L + 1] = array
    BY <2>3, <2>5 DEF Shape
  <2>7. Capacity(new) = h + N
    BY <2>5, <2>6, ShapeTypes DEF Capacity
  <2>8. \A k \in 1..L : End(arrays[k]) <= h
    <3> SUFFICES ASSUME NEW k \in 1..L PROVE End(arrays[k]) <= h
      OBVIOUS
    <3>1. h = End(arrays[L]) /\ L \in DOMAIN arrays
      BY <1>2, ShapeTypes DEF Capacity
    <3>2. CASE k = L
      BY <3>1, <3>2, <1>0, <1>2
    <3>3. CASE k < L
      <4>1. End(arrays[k]) <= arrays[L].start
        BY <3>1, <3>3, ShapeTypes DEF Shape
      <4> QED
        BY <4>1, <3>1, ShapeTypes
    <3> QED
      BY <3>2, <3>3, ShapeTypes
  <2>9. \A k \in Nat, i \in Nat : Holds(arrays, k, i) => Holds(new, k, i)
    BY <2>6, ShapeTypes DEF Holds
  <2>10. \A i \in Nat : h <= i /\ i < h + N => Holds(new, L + 1, i)
    BY <2>5, <2>6, ShapeTypes DEF Holds
  <2>11. Shape(new)
    <3>1. new # <<>> => new[1].start = 0
      <4>1. CASE L = 0
        <5>1. arrays = <<>> /\ h = 0
          BY <4>1, <1>2, ShapeTypes DEF Capacity
        <5> QED
          BY <4>1, <5>1, <2>5, <2>6
      <4>2. CASE L > 0
        BY <4>2, <2>6, ShapeTypes DEF Shape
      <4> QED
        BY <4>1, <4>2, ShapeTypes
    <3>2. ASSUME NEW k \in DOMAIN new PROVE new[k].items # <<>>
      <4>1. CASE k = L + 1
        <5>1. Len(items) # 0
          BY <2>2, <2>4
        <5> QED
          BY <4>1, <5>1, <2>5, <2>6
      <4>2. CASE k \in 1..L
        BY <4>2, <2>6, ShapeTypes DEF Shape
      <4> QED
        BY <4>1, <4>2, <2>6, ShapeTypes
    <3>3. ASSUME NEW k \in DOMAIN new, NEW m \in DOMAIN new
          PROVE  /\ m = k + 1 => new[m].start = End(new[k])
                 /\ k < m => End(new[k]) <= new[m].start
      <4>1. CASE m = L + 1
        <5>1. k = L => h = End(arrays[L])
          BY <1>2, <2>6, ShapeTypes DEF Capacity
        <5> QED
          BY <4>1, <5>1, <2>5, <2>6, <2>8, ShapeTypes
      <4>2. CASE m \in 1..L
        <5>1. CASE k \in 1..L
          BY <4>2, <5>1, <2>6, ShapeTypes DEF Shape
        <5>2. CASE k = L + 1
          BY <4>2, <5>2, ShapeTypes
        <5> QED
          BY <5>1, <5>2, <2>6, ShapeTypes
      <4> QED
        BY <4>1, <4>2, <2>6, ShapeTypes
    <3>4. ASSUME NEW i \in Nat, i < Capacity(new)
          PROVE  \E k \in Nat : Holds(new, k, i)
      <4>1. CASE i < h
        BY <4>1, <1>2, <2>9 DEF Shape
      <4>2. CASE h <= i
        BY <4>2, <3>4, <2>7, <2>10, ShapeTypes
      <4> QED
        BY <4>1, <4>2
    <3> QED
      BY <2>6, <3>1, <3>2, <3>3, <3>4 DEF Shape
  <2>12. ArrayItem(new, h) = p
    <3>1. Holds(new, L + 1, h)
      BY <2>2, <2>10
    <3>2. ArrayItem(new, h) = new[L + 1].items[h - new[L + 1].start + 1]
      BY <3>1, <2>11, ItemOfArray, ShapeTypes
    <3> QED
      BY <3>2, <2>4, <2>5, <2>6
  <2>13. ASSUME NEW i \in Nat, i < Capacity(arrays)
         PROVE  ArrayItem(new, i) = ArrayItem(arrays, i)
    <3>1. PICK k \in Nat : Holds(arrays, k, i)
      BY <2>13 DEF Shape
    <3>2. ArrayItem(arrays, i) = arrays[k].items[i - arrays[k].start + 1]
      BY <3>1, ItemOfArray
    <3>3. ArrayItem(new, i) = new[k].items[i - new[k].start + 1]
      BY <3>1, <2>9, <2>11, ItemOfArray
    <3> QED
      BY <2>6, <3>1, <3>2, <3>3, ShapeTypes DEF Holds
  <2>14. h < Capacity(new) /\ Capacity(arrays) <= Capacity(new)
    BY <1>2, <2>2, <2>7
  <2> QED
    BY <2>11, <2>12, <2>13, <2>14 DEF new
<1> QED
  BY <1>0, <1>1, <1>2
-----------------------------------------------------------------------------
(* The inductive invariant                                                 *)

\* The array slots that chain c's counter covers.
Used(c) ==
    IF c = Header \/ chain[c].n = 0 THEN chain[c].n ELSE chain[c].n - 1

ChainsInShape ==
    \A c \in Chains : /\ Shape(chain[c].arrays)
                      /\ Used(c) <= Capacity(chain[c].arrays)

\* Between the two steps of linking, the next item of the chain is in place.
Pending ==
    writer.pc = "count" =>
        /\ Item(Target, chain[Target].n) = Current
        /\ Target = Header \/ chain[Target].n > 0 =>
             ArrayIndex(Target, chain[Target].n) < Capacity(chain[Target].arrays)

ItemsAreEntries ==
    \A c \in Chains : \A i \in Indices(c) : Item(c, i) \in DOMAIN entry

\* Until its entry is linked into the main chain, the writer's entry is newer
\* than all that are; afterwards it is one of them.
HeaderFirst ==
    /\ writer.pc # "idle" /\ writer.at = 0 =>
         \A i \in Indices(Header) : Item(Header, i) < Current
    /\ writer.pc # "idle" /\ writer.at > 0 => Linked(Header, Current)

IndexInv ==
    /\ IndexTypeOK
    /\ ChainsInShape
    /\ Pending
    /\ ItemsAreEntries
    /\ HeaderFirst
    /\ ChainsSorted
    /\ IndexSound

\* The chain the writer works on, and its entry.
LEMMA TargetTypes ==
    ASSUME IndexTypeOK, writer.pc # "idle"
    PROVE  /\ Target \in Chains /\ Current \in Nat \ {0}
           /\ Current \in DOMAIN entry /\ entry[Current] \in Seq(Data)
           /\ writer.at \in Nat /\ (writer.at = 0 <=> Target = Header)
<1>1. Current \in Nat \ {0} /\ Current \in DOMAIN entry
  BY DEF IndexTypeOK, Current
<1>2. entry[Current] \in Seq(Data) /\ writer.at \in Nat
  BY <1>1 DEF IndexTypeOK
<1>3. writer.at # 0 => entry[Current][writer.at] \in Data
  BY <1>2 DEF IndexTypeOK
<1> QED
  BY <1>1, <1>2, <1>3, IndexAssumption DEF Target, Chains, Header

\* The parts of the index have their types.
LEMMA ChainTypes ==
    ASSUME IndexTypeOK, NEW c \in Chains
    PROVE  /\ chain[c] \in Chain /\ chain[c].n \in Nat
           /\ chain[c].extra \in Nat /\ chain[c].arrays \in Seq(Array)
           /\ Used(c) \in Nat
           /\ \/ c # Header /\ chain[c].n = 0
              \/ ArrayIndex(c, chain[c].n) = Used(c)
           /\ Indices(c) = {i \in Nat : i < chain[c].n}
BY DEF IndexTypeOK, Chain, Used, ArrayIndex, Indices

\* A file that was just created has no arrays.
LEMMA InitIndexInv == IndexInit => IndexInv
<1> SUFFICES ASSUME IndexInit PROVE IndexInv
  OBVIOUS
<1> USE DEF IndexInit
<1>1. \A c \in Chains : chain[c] = EmptyChain
  OBVIOUS
<1>2. \A c \in Chains : Indices(c) = {}
  BY <1>1 DEF Indices, EmptyChain
<1>3. IndexTypeOK
  <2>1. EmptyChain \in Chain
    BY DEF EmptyChain, Chain
  <2> QED
    BY <2>1 DEF IndexTypeOK, Idle
<1>4. ChainsInShape
  <2>1. Shape(<<>>) /\ Capacity(<<>>) = 0
    BY DEF Shape, Capacity
  <2> QED
    BY <1>1, <2>1 DEF ChainsInShape, Used, EmptyChain
<1>5. Pending /\ HeaderFirst
  BY DEF Pending, HeaderFirst, Idle
<1>6. ItemsAreEntries /\ ChainsSorted
  BY <1>2 DEF ItemsAreEntries, ChainsSorted
<1>7. IndexSound
  BY <1>2 DEF IndexSound, Chains
<1> QED
  BY <1>3, <1>4, <1>5, <1>6, <1>7 DEF IndexInv

\* Storing an item raises no counter, keeps what is counted and puts the next
\* item in place.
LEMMA StoreKeepsItems ==
    ASSUME IndexInv, StoreEntry
    PROVE  /\ chain' \in [Chains -> Chain]
           /\ \A c \in Chains :
                 /\ chain'[c].n = chain[c].n
                 /\ Shape(chain'[c].arrays)
                 /\ Capacity(chain[c].arrays) <= Capacity(chain'[c].arrays)
                 /\ Capacity(chain'[c].arrays) \in Nat
                 /\ \A i \in Indices(c) : Item(c, i)' = Item(c, i)
           /\ Pending'
<1>0. PICK t \in Chains, p \in Nat \ {0}, n \in Nat :
          t = Target /\ p = Current /\ n = chain[t].n
  BY TargetTypes, ChainTypes DEF IndexInv, StoreEntry
<1> DEFINE h == ArrayIndex(t, n)
<1>1. /\ IndexTypeOK /\ ChainsInShape
      /\ writer.pc = "store" /\ writer' = [writer EXCEPT !.pc = "count"]
      /\ entry' = entry
      /\ chain' = [chain EXCEPT ![t] = Stored(t, p)]
  BY <1>0 DEF IndexInv, StoreEntry
<1>2. chain[t] \in Chain /\ chain \in [Chains -> Chain] /\ n = chain[t].n
  BY <1>0, <1>1 DEF IndexTypeOK
<1>3. Target' = t /\ Current' = p
  BY <1>0, <1>1 DEF Target, Current, IndexTypeOK
<1>4. /\ \A c \in Chains : c # t => chain'[c] = chain[c]
      /\ chain'[t] = Stored(t, p)
  BY <1>1, <1>2
<1>5. ASSUME NEW c \in Chains, c # t
      PROVE  /\ chain'[c] \in Chain
             /\ chain'[c].n = chain[c].n
             /\ Shape(chain'[c].arrays)
             /\ Capacity(chain[c].arrays) <= Capacity(chain'[c].arrays)
             /\ Capacity(chain'[c].arrays) \in Nat
             /\ \A i \in Indices(c) : Item(c, i)' = Item(c, i)
  <2>1. chain'[c] = chain[c]
    BY <1>4, <1>5
  <2>2. Shape(chain[c].arrays) /\ chain[c] \in Chain
    BY <1>1, <1>2 DEF ChainsInShape
  <2>3. Capacity(chain[c].arrays) \in Nat
    BY <2>2, ShapeTypes
  <2>4. \A i \in Indices(c) : Item(c, i)' = Item(c, i)
    BY <2>1 DEF Item, ArrayItem, ArrayIndex, Header
  <2> QED
    BY <2>1, <2>2, <2>3, <2>4
<1>6. /\ chain'[t] \in Chain
      /\ chain'[t].n = chain[t].n
      /\ Shape(chain'[t].arrays)
      /\ Capacity(chain[t].arrays) <= Capacity(chain'[t].arrays)
      /\ Capacity(chain'[t].arrays) \in Nat
      /\ \A i \in Indices(t) : Item(t, i)' = Item(t, i)
      /\ Item(t, n)' = p
      /\ t = Header \/ n > 0 => h < Capacity(chain'[t].arrays)
  <2>0. Shape(chain[t].arrays) /\ Used(t) <= Capacity(chain[t].arrays)
        /\ Capacity(chain[t].arrays) \in Nat
    BY <1>1, <1>2, ShapeTypes DEF ChainsInShape
  <2>1. CASE t # Header /\ n = 0
    <3>1. chain'[t] = [chain[t] EXCEPT !.extra = p]
      BY <1>2, <1>4, <2>1 DEF Stored
    <3>2. /\ chain'[t] \in Chain /\ chain'[t].n = chain[t].n
          /\ chain'[t].arrays = chain[t].arrays /\ chain'[t].extra = p
      BY <3>1, <1>2 DEF Chain
    <3>3. Indices(t) = {}
      BY <1>2, <2>1 DEF Indices
    <3>4. Item(t, n)' = p
      BY <3>2, <2>1, <1>3 DEF Item, Header
    <3> QED
      BY <3>2, <3>3, <3>4, <2>0, <2>1
  <2>2. CASE t = Header \/ n > 0
    <3> DEFINE old == chain[t].arrays
               new == StoreItem(old, h, p)
    <3>1. chain'[t] = [chain[t] EXCEPT !.arrays = new]
      BY <1>2, <1>4, <2>2 DEF Stored
    <3>2. h = Used(t) /\ h \in Nat /\ h <= Capacity(old)
      BY <1>2, <2>0, <2>2 DEF Used, ArrayIndex
    <3>3. /\ Shape(new) /\ h < Capacity(new) /\ Capacity(old) <= Capacity(new)
          /\ ArrayItem(new, h) = p
          /\ \A i \in Nat : i < Capacity(old) /\ i # h =>
                ArrayItem(new, i) = ArrayItem(old, i)
      BY <3>2, <2>0, <1>2, StoreItemLemma
    <3> HIDE DEF new
    <3>4. new \in Seq(Array) /\ Capacity(new) \in Nat
      BY <3>3, ShapeTypes DEF Shape
    <3>5. /\ chain'[t] \in Chain /\ chain'[t].n = chain[t].n
          /\ chain'[t].arrays = new /\ chain'[t].extra = chain[t].extra
      BY <3>1, <3>4, <1>2 DEF Chain
    <3>6. ASSUME NEW i \in Indices(t) PROVE Item(t, i)' = Item(t, i)
      <4>1. i \in Nat /\ i < n
        BY <1>2 DEF Indices
      <4>2. CASE t # Header /\ i = 0
        BY <4>2, <3>5, <1>3 DEF Item, Header
      <4>3. CASE t = Header \/ i > 0
        <5>1. /\ ArrayIndex(t, i) \in Nat /\ ArrayIndex(t, i) < h
              /\ ArrayIndex(t, i) < Capacity(old)
          BY <4>1, <4>3, <3>2, <2>0, <1>2 DEF ArrayIndex
        <5>2. ArrayItem(new, ArrayIndex(t, i)) = ArrayItem(old, ArrayIndex(t, i))
          BY <5>1, <3>3, <3>2
        <5>3. Item(t, i) = ArrayItem(old, ArrayIndex(t, i))
          BY <4>1, <4>3 DEF Item
        <5>4. Item(t, i)' = ArrayItem(new, ArrayIndex(t, i))
          BY <4>1, <4>3, <3>5, <1>3 DEF Item, ArrayIndex, Header
        <5> QED
          BY <5>2, <5>3, <5>4
      <4> QED
        BY <4>1, <4>2, <4>3
    <3>7. Item(t, n)' = p
      BY <2>2, <3>3, <3>5, <1>3 DEF Item, ArrayIndex, Header
    <3> QED
      BY <3>3, <3>4, <3>5, <3>6, <3>7
  <2> QED
    BY <2>1, <2>2, <1>2
<1>7. Pending'
  <2>1. chain'[t].n = n /\ Item(t, n)' = p
    BY <1>2, <1>6
  <2> QED
    BY <1>3, <1>6, <2>1 DEF Pending, ArrayIndex, Header, Item
<1>8. chain' \in [Chains -> Chain]
  <2>1. Stored(t, p) \in Chain
    BY <1>4, <1>6
  <2> QED
    BY <1>1, <1>2, <2>1
<1> QED
  BY <1>5, <1>6, <1>7, <1>8

\* journal_file_append_entry() up to the store of the item.
LEMMA AppendEntryInv ==
    ASSUME IndexInv, NEW items \in Items, AppendEntry(items)
    PROVE  IndexInv'
<1>1. /\ IndexTypeOK /\ writer = Idle /\ entry' = Append(entry, items)
      /\ writer' = [pc |-> "store", at |-> 0]
      /\ chain' = chain /\ unlinked' = unlinked
  BY DEF IndexInv, AppendEntry
<1>2. /\ items \in Seq(Data) /\ entry \in Seq(Seq(Data))
      /\ Len(entry) \in Nat /\ DOMAIN entry = 1..Len(entry)
      /\ entry' \in Seq(Seq(Data)) /\ Len(entry') = Len(entry) + 1
      /\ DOMAIN entry' = 1..Len(entry) + 1
      /\ \A p \in DOMAIN entry : entry'[p] = entry[p]
      /\ entry'[Len(entry) + 1] = items
  <2>1. items \in Seq(Data) /\ entry \in Seq(Seq(Data))
    BY <1>1, IndexAssumption DEF IndexTypeOK
  <2> QED
    BY <1>1, <2>1
<1>3. /\ \A c \in Chains : Indices(c)' = Indices(c)
      /\ \A c \in Chains : \A i \in Indices(c) : Item(c, i)' = Item(c, i)
      /\ \A p : Linked(Header, p)' = Linked(Header, p)
  BY <1>1 DEF Indices, Item, ArrayItem, ArrayIndex, Header, Linked
<1>4. IndexTypeOK'
  <2>1. entry' # <<>> /\ Current' = Len(entry) + 1 /\ 0 <= Len(entry'[Current'])
    BY <1>2 DEF Current
  <2>2. unlinked' \subseteq DOMAIN entry'
    BY <1>1, <1>2 DEF IndexTypeOK
  <2> QED
    BY <1>1, <1>2, <2>1, <2>2 DEF IndexTypeOK
<1>5. ChainsInShape'
  BY <1>1 DEF IndexInv, ChainsInShape, Used, Header, Chains
<1>6. Pending'
  BY <1>1 DEF Pending
<1>7. ItemsAreEntries'
  BY <1>2, <1>3 DEF IndexInv, ItemsAreEntries
<1>8. HeaderFirst'
  <2>1. \A i \in Indices(Header) : Item(Header, i) \in 1..Len(entry)
    BY <1>2 DEF IndexInv, ItemsAreEntries, Chains
  <2>2. Header \in Chains /\ Current' = Len(entry) + 1
    BY <1>2 DEF Chains, Current
  <2>3. \A i \in Indices(Header)' : Item(Header, i)' < Current'
    BY <1>2, <1>3, <2>1, <2>2
  <2> QED
    BY <1>1, <2>3 DEF HeaderFirst
<1>9. ChainsSorted'
  BY <1>3 DEF IndexInv, ChainsSorted
<1>10. IndexSound'
  BY <1>2, <1>3 DEF IndexInv, IndexSound, ItemsAreEntries, Chains
<1> QED
  BY <1>4, <1>5, <1>6, <1>7, <1>8, <1>9, <1>10 DEF IndexInv

\* The store of the item.
LEMMA StoreEntryInv == ASSUME IndexInv, StoreEntry PROVE IndexInv'
<1>1. /\ IndexTypeOK /\ writer.pc = "store" /\ entry' = entry
      /\ writer' = [writer EXCEPT !.pc = "count"]
      /\ unlinked' = unlinked
  BY DEF IndexInv, StoreEntry
<1>2. /\ writer'.pc = "count" /\ writer'.at = writer.at /\ Current' = Current
      /\ writer' \in [pc : {"idle", "store", "count"}, at : Nat]
  BY <1>1 DEF IndexTypeOK, Current
<1>3. /\ \A c \in Chains : Indices(c)' = Indices(c)
      /\ \A c \in Chains : \A i \in Indices(c) : Item(c, i)' = Item(c, i)
      /\ \A p : Linked(Header, p)' = Linked(Header, p)
  <2>1. \A c \in Chains : Indices(c)' = Indices(c)
    BY StoreKeepsItems DEF Indices
  <2>2. \A c \in Chains : \A i \in Indices(c) : Item(c, i)' = Item(c, i)
    BY StoreKeepsItems
  <2>3. Header \in Chains
    BY DEF Chains
  <2> QED
    BY <2>1, <2>2, <2>3 DEF Linked
<1>4. IndexTypeOK'
  BY <1>1, <1>2, StoreKeepsItems DEF IndexTypeOK
<1>5. ChainsInShape'
  <2> SUFFICES ASSUME NEW c \in Chains
               PROVE  Shape(chain'[c].arrays) /\ Used(c)' <= Capacity(chain'[c].arrays)
    BY DEF ChainsInShape, Chains, Header
  <2>1. Used(c)' = Used(c)
    BY StoreKeepsItems DEF Used, Header
  <2>2. Used(c) <= Capacity(chain[c].arrays) /\ Shape(chain[c].arrays)
    BY DEF IndexInv, ChainsInShape
  <2>3. Used(c) \in Nat /\ Capacity(chain[c].arrays) \in Nat
    BY <1>1, <2>2, ChainTypes, ShapeTypes
  <2> QED
    BY <2>1, <2>2, <2>3, StoreKeepsItems
<1>6. Pending'
  BY StoreKeepsItems
<1>7. ItemsAreEntries'
  BY <1>1, <1>3 DEF IndexInv, ItemsAreEntries
<1>8. HeaderFirst'
  BY <1>1, <1>2, <1>3 DEF IndexInv, HeaderFirst, Chains
<1>9. ChainsSorted'
  BY <1>3 DEF IndexInv, ChainsSorted
<1>10. IndexSound'
  BY <1>1, <1>3 DEF IndexInv, IndexSound, Chains
<1> QED
  BY <1>4, <1>5, <1>6, <1>7, <1>8, <1>9, <1>10 DEF IndexInv

\* The allocation of an array fails.
LEMMA StoreFailsInv == ASSUME IndexInv, StoreFails PROVE IndexInv'
<1>1. /\ IndexTypeOK /\ writer.pc = "store" /\ entry' = entry /\ chain' = chain
      /\ writer' = Idle /\ unlinked' = unlinked \cup {Current}
  BY DEF IndexInv, StoreFails
<1>2. /\ \A c \in Chains : Indices(c)' = Indices(c)
      /\ \A c \in Chains : \A i \in Indices(c) : Item(c, i)' = Item(c, i)
      /\ \A p : Linked(Header, p)' = Linked(Header, p)
  BY <1>1 DEF Indices, Item, ArrayItem, ArrayIndex, Header, Linked
<1>3. IndexTypeOK'
  <2>1. Current \in DOMAIN entry
    BY <1>1, TargetTypes
  <2> QED
    BY <1>1, <2>1 DEF IndexTypeOK, Idle
<1>4. ChainsInShape'
  BY <1>1 DEF IndexInv, ChainsInShape, Used, Header, Chains
<1>5. Pending' /\ HeaderFirst'
  BY <1>1 DEF Pending, HeaderFirst, Idle
<1>6. ItemsAreEntries' /\ ChainsSorted'
  BY <1>1, <1>2 DEF IndexInv, ItemsAreEntries, ChainsSorted
<1>7. IndexSound'
  BY <1>1, <1>2 DEF IndexInv, IndexSound, Chains
<1> QED
  BY <1>3, <1>4, <1>5, <1>6, <1>7 DEF IndexInv
\* Raising the counter publishes the item in place and changes no other.
LEMMA CountAddsItem ==
    ASSUME IndexInv, CountEntry
    PROVE  /\ chain' \in [Chains -> Chain]
           /\ \A c \in Chains :
                 /\ chain'[c].arrays = chain[c].arrays
                 /\ Indices(c)' = Indices(c) \cup
                       (IF c = Target THEN {chain[c].n} ELSE {})
                 /\ chain'[c].n = chain[c].n + (IF c = Target THEN 1 ELSE 0)
                 /\ \A i \in Nat : Item(c, i)' = Item(c, i)
           /\ Item(Target, chain[Target].n) = Current
<1>1. /\ IndexTypeOK /\ Pending /\ chain \in [Chains -> Chain]
      /\ writer.pc = "count"
      /\ chain' = [chain EXCEPT ![Target].n = @ + 1]
  BY DEF IndexInv, IndexTypeOK, CountEntry
<1>2. Target \in Chains
  BY <1>1, TargetTypes
<1>3. ASSUME NEW c \in Chains
      PROVE  /\ chain'[c] \in Chain
             /\ chain'[c].arrays = chain[c].arrays
             /\ chain'[c].extra = chain[c].extra
             /\ chain'[c].n = chain[c].n + (IF c = Target THEN 1 ELSE 0)
  <2>1. chain[c] \in Chain /\ chain[c].n \in Nat
    BY <1>1 DEF Chain
  <2>2. CASE c = Target
    <3>1. chain'[c] = [chain[c] EXCEPT !.n = chain[c].n + 1]
      BY <1>1, <1>2, <2>2
    <3> QED
      BY <2>1, <2>2, <3>1 DEF Chain
  <2>3. CASE c # Target
    BY <1>1, <1>2, <2>1, <2>3 DEF Chain
  <2> QED
    BY <2>2, <2>3
<1>4. ASSUME NEW c \in Chains
      PROVE  /\ Indices(c)' = Indices(c) \cup
                  (IF c = Target THEN {chain[c].n} ELSE {})
             /\ \A i \in Nat : Item(c, i)' = Item(c, i)
  <2>1. chain[c].n \in Nat
    BY <1>1 DEF Chain
  <2>2. Indices(c)' = {i \in 0..chain'[c].n : i < chain'[c].n}
    BY DEF Indices
  <2>3. \A i \in Nat : Item(c, i)' = Item(c, i)
    BY <1>3 DEF Item, ArrayIndex, Header
  <2>4. CASE c = Target
    BY <1>3, <2>1, <2>2, <2>3, <2>4 DEF Indices
  <2>5. CASE c # Target
    <3>1. chain'[c].n = chain[c].n
      BY <1>3, <2>1, <2>5
    <3> QED
      BY <2>2, <2>3, <2>5, <3>1 DEF Indices
  <2> QED
    BY <2>4, <2>5
<1>5. chain' \in [Chains -> Chain]
  BY <1>1, <1>3
<1>6. Item(Target, chain[Target].n) = Current
  BY <1>1 DEF Pending
<1> QED
  BY <1>3, <1>4, <1>5, <1>6

\* The increment of n_entries.
LEMMA CountEntryInv == ASSUME IndexInv, CountEntry PROVE IndexInv'
<1>1. /\ IndexTypeOK /\ ChainsInShape /\ Pending /\ ItemsAreEntries
      /\ HeaderFirst /\ ChainsSorted /\ IndexSound
      /\ writer.pc = "count" /\ entry' = entry /\ unlinked' = unlinked
      /\ writer' = IF writer.at < Len(entry[Current])
                   THEN [pc |-> "store", at |-> writer.at + 1] ELSE Idle
  BY DEF IndexInv, CountEntry
<1>2. PICK t \in Chains, p \in Nat \ {0} :
          /\ t = Target /\ p = Current /\ Current' = p
          /\ p \in DOMAIN entry /\ p = Len(entry) /\ DOMAIN entry = 1..p
          /\ entry[p] \in Seq(Data)
          /\ writer.at \in Nat /\ (writer.at = 0 <=> t = Header)
          /\ t # Header => t = entry[p][writer.at] /\ writer.at <= Len(entry[p])
  <2>1. Current' = Current /\ Current = Len(entry) /\ DOMAIN entry = 1..Len(entry)
    BY <1>1 DEF Current, IndexTypeOK
  <2>2. Target # Header => Target = entry[Current][writer.at]
                           /\ writer.at <= Len(entry[Current])
    BY <1>1 DEF Target, IndexTypeOK
  <2> QED
    BY <1>1, <2>1, <2>2, TargetTypes
<1>3. PICK n \in Nat : n = chain[t].n /\ Item(t, n) = p
  BY <1>1, <1>2, CountAddsItem, ChainTypes
<1>4. \A c \in Chains :
        /\ chain'[c].arrays = chain[c].arrays
        /\ Indices(c)' = Indices(c) \cup (IF c = t THEN {n} ELSE {})
        /\ chain'[c].n = chain[c].n + (IF c = t THEN 1 ELSE 0)
        /\ \A i \in Nat : Item(c, i)' = Item(c, i)
  BY <1>2, <1>3, CountAddsItem
<1>5. \A c \in Chains : Indices(c) = {i \in Nat : i < chain[c].n}
  BY <1>1, ChainTypes
<1>6. Header \in Chains /\ \A d \in Data : d \in Chains /\ d # Header
  BY IndexAssumption DEF Chains, Header
<1>7. writer.at > 0 => Linked(Header, p)'
  BY <1>1, <1>2, <1>4, <1>5, <1>6 DEF HeaderFirst, Linked
<1>8. writer.at = 0 => Linked(Header, p)'
  BY <1>2, <1>3, <1>4, <1>6 DEF Linked
<1>9. IndexTypeOK'
  <2>1. /\ writer' \in [pc : {"idle", "store", "count"}, at : Nat]
        /\ writer'.pc = "idle" => writer'.at = 0
        /\ writer'.pc # "idle" => writer'.at <= Len(entry[p])
    BY <1>1, <1>2 DEF Idle
  <2> QED
    BY <1>1, <1>2, <2>1, CountAddsItem DEF IndexTypeOK
<1>10. ChainsInShape'
  <2> SUFFICES ASSUME NEW c \in Chains
               PROVE  Shape(chain'[c].arrays) /\ Used(c)' <= Capacity(chain'[c].arrays)
    BY DEF ChainsInShape, Chains, Header
  <2>1. /\ Shape(chain[c].arrays) /\ Used(c) <= Capacity(chain[c].arrays)
        /\ Capacity(chain[c].arrays) \in Nat /\ chain[c].n \in Nat
    BY <1>1, ShapeTypes, ChainTypes DEF ChainsInShape
  <2>2. CASE c = t
    <3>1. c = Header \/ n > 0 => ArrayIndex(c, n) < Capacity(chain[c].arrays)
      BY <1>1, <1>2, <1>3, <2>2 DEF Pending
    <3>2. chain'[c].n = n + 1
      BY <1>3, <1>4, <2>2
    <3> QED
      BY <1>3, <1>4, <2>1, <2>2, <3>1, <3>2 DEF Used, ArrayIndex, Header
  <2>3. CASE c # t
    BY <1>4, <2>1, <2>3 DEF Used, Header
  <2> QED
    BY <2>2, <2>3
<1>11. Pending'
  BY <1>1 DEF Pending, Idle
<1>12. ItemsAreEntries'
  BY <1>1, <1>2, <1>3, <1>4, <1>5 DEF ItemsAreEntries
<1>13. HeaderFirst'
  <2>1. writer'.pc # "idle" => writer'.at > 0
    BY <1>1, <1>2 DEF Idle
  <2> QED
    BY <1>2, <1>7, <1>8, <2>1 DEF HeaderFirst
<1>14. ChainsSorted'
  <2> SUFFICES ASSUME NEW c \in Chains, NEW i \in Indices(c)',
                      NEW j \in Indices(c)', i < j
               PROVE  IF c = Header THEN Item(c, i)' < Item(c, j)'
                                    ELSE Item(c, i)' <= Item(c, j)'
    BY DEF ChainsSorted, Chains, Header
  <2>1. i \in Nat /\ j \in Nat /\ Item(c, i)' = Item(c, i)
        /\ Item(c, j)' = Item(c, j)
    BY <1>3, <1>4, <1>5
  <2>2. CASE j \in Indices(c)
    <3>1. i \in Indices(c)
      BY <1>3, <1>4, <1>5, <2>1, <2>2
    <3> QED
      BY <1>1, <2>1, <2>2, <3>1 DEF ChainsSorted
  <2>3. CASE c = t /\ j = n
    <3>1. i \in Indices(c) /\ Item(c, j) = p
      BY <1>3, <1>4, <1>5, <2>1, <2>3
    <3>2. Item(c, i) \in 1..p
      BY <1>1, <1>2, <3>1 DEF ItemsAreEntries
    <3>3. c = Header => Item(c, i) < p
      BY <1>1, <1>2, <2>3, <3>1 DEF HeaderFirst
    <3> QED
      BY <2>1, <3>1, <3>2, <3>3
  <2> QED
    BY <1>4, <2>2, <2>3
<1>15. IndexSound'
  <2> SUFFICES ASSUME NEW d \in Data, NEW i \in Indices(d)', NEW q,
                      q = Item(d, i)'
               PROVE  /\ \E k \in DOMAIN entry'[q] : entry'[q][k] = d
                      /\ Linked(Header, q)'
    BY DEF IndexSound, Linked
  <2>1. i \in Nat /\ q = Item(d, i)
    BY <1>3, <1>4, <1>5, <1>6
  <2>2. CASE i \in Indices(d)
    <3>1. /\ \E k \in DOMAIN entry[q] : entry[q][k] = d
          /\ Linked(Header, q)
      BY <1>1, <2>1, <2>2 DEF IndexSound
    <3> QED
      BY <1>1, <1>4, <1>5, <1>6, <3>1 DEF Linked
  <2>3. CASE d = t /\ i = n
    <3>1. q = p /\ writer.at > 0
      BY <1>2, <1>3, <1>6, <2>1, <2>3
    <3>2. writer.at \in DOMAIN entry[p] /\ entry[p][writer.at] = d
      BY <1>2, <1>6, <2>3, <3>1
    <3> QED
      BY <1>1, <1>7, <3>1, <3>2
  <2> QED
    BY <1>4, <1>6, <2>2, <2>3
<1> QED
  BY <1>9, <1>10, <1>11, <1>12, <1>13, <1>14, <1>15 DEF IndexInv

\* Every step of the writer keeps the invariant.
LEMMA IndexStep == ASSUME IndexInv, [WriterNext]_indexVars PROVE IndexInv'
<1>1. ASSUME NEW items \in Items, AppendEntry(items) PROVE IndexInv'
  BY <1>1, AppendEntryInv
<1>2. CASE StoreEntry
  BY <1>2, StoreEntryInv
<1>3. CASE StoreFails
  BY <1>3, StoreFailsInv
<1>4. CASE CountEntry
  BY <1>4, CountEntryInv
<1>5. CASE UNCHANGED indexVars
  <2>1. /\ entry' = entry /\ chain' = chain
        /\ writer' = writer /\ unlinked' = unlinked
    BY <1>5 DEF indexVars
  <2>2. IndexTypeOK' /\ ChainsInShape'
    BY <2>1 DEF IndexInv, IndexTypeOK, ChainsInShape, Used, Current
  <2>3. Pending' /\ HeaderFirst'
    BY <2>1 DEF IndexInv, Pending, HeaderFirst, Linked, Indices, Item,
                ArrayIndex, Target, Current
  <2>4. ItemsAreEntries' /\ ChainsSorted' /\ IndexSound'
    BY <2>1 DEF IndexInv, ItemsAreEntries, ChainsSorted, IndexSound, Linked,
                Indices, Item, ArrayIndex
  <2> QED
    BY <2>2, <2>3, <2>4 DEF IndexInv
<1> QED
  BY <1>1, <1>2, <1>3, <1>4, <1>5 DEF WriterNext

\* The invariant of the writer of journal-file.c, at every step of every append.
THEOREM IndexInvariant == IndexSpec => []IndexInv
<1>1. IndexInv /\ [WriterNext]_indexVars => IndexInv'
  BY IndexStep
<1> QED
  BY InitIndexInv, <1>1, PTL DEF IndexSpec

-----------------------------------------------------------------------------
(* What the invariant gives                                                *)

\* Type correctness of the writer.
THEOREM TypeCorrect == IndexSpec => []IndexTypeOK
BY IndexInvariant, PTL DEF IndexInv

\* The arrays of every chain are laid end to end, for all growth steps of
\* link_entry_into_array().
THEOREM ShapeCorrect == IndexSpec => []ChainShape
<1>1. IndexInv => ChainShape
  BY DEF IndexInv, ChainsInShape, Shape, ChainShape
<1> QED
  BY <1>1, IndexInvariant, PTL

\* Every index below a counter holds an entry: lock-free readers of the mapped
\* file never meet an unset item.
THEOREM CountedCorrect == IndexSpec => []CountedItemsSet
<1>1. IndexInv => CountedItemsSet
  <2> SUFFICES ASSUME IndexInv, NEW c \in Chains, NEW i \in Indices(c)
               PROVE  /\ c # Header \/ Room(chain[c].arrays, ArrayIndex(c, i)) # {}
                      /\ Item(c, i) \in DOMAIN entry
    BY DEF CountedItemsSet
  <2>1. c = Header => Room(chain[c].arrays, ArrayIndex(c, i)) # {}
    <3> SUFFICES ASSUME c = Header PROVE Room(chain[c].arrays, i) # {}
      BY DEF ArrayIndex
    <3>1. Shape(chain[c].arrays) /\ Used(c) <= Capacity(chain[c].arrays)
      BY DEF IndexInv, ChainsInShape
    <3>2. i \in Nat /\ i < Used(c) /\ Used(c) \in Nat
      BY ChainTypes DEF IndexInv, Used
    <3>3. Capacity(chain[c].arrays) \in Nat
      BY <3>1, ShapeTypes
    <3> QED
      BY <3>1, <3>2, <3>3, RoomIsCapacity
  <2> QED
    BY <2>1 DEF IndexInv, ItemsAreEntries
<1> QED
  BY <1>1, IndexInvariant, PTL

\* Every chain is sorted, which generic_array_bisect() takes for granted.
THEOREM SortedCorrect == IndexSpec => []ChainsSorted
BY IndexInvariant, PTL DEF IndexInv

\* A match on a data object yields only entries that carry it and that are in
\* the main chain.
THEOREM SoundCorrect == IndexSpec => []IndexSound
BY IndexInvariant, PTL DEF IndexInv

\* No step changes or removes an item that has been counted.
THEOREM AppendOnlyCorrect == IndexSpec => AppendOnly
<1> DEFINE Keeps == \A c \in Chains :
                      /\ chain[c].n <= chain'[c].n
                      /\ \A i \in Indices(c) : Item(c, i)' = Item(c, i)
<1>1. ASSUME IndexInv, [WriterNext]_indexVars PROVE Keeps
  <2>0. \A c \in Chains : chain[c].n \in Nat /\ Indices(c) \subseteq Nat
    BY <1>1, ChainTypes DEF IndexInv
  <2>1. CASE chain' = chain
    BY <2>0, <2>1 DEF Item, ArrayIndex
  <2>2. CASE StoreEntry
    BY <1>1, <2>0, <2>2, StoreKeepsItems
  <2>3. CASE CountEntry
    BY <1>1, <2>0, <2>3, CountAddsItem
  <2> QED
    BY <1>1, <2>1, <2>2, <2>3 DEF WriterNext, AppendEntry, StoreFails, indexVars
<1>2. IndexInv /\ [WriterNext]_indexVars => [Keeps]_indexVars
  BY <1>1
<1> QED
  BY <1>2, IndexInvariant, PTL DEF IndexSpec, AppendOnly

-----------------------------------------------------------------------------
(* Completeness                                                            *)

\* The items of the writer's entry that its loop has passed are linked.
LinkedSoFar ==
    writer.pc # "idle" =>
        \A k \in DOMAIN entry[Current] :
            k < writer.at => Linked(entry[Current][k], Current)

CompleteInv == LinkedSoFar /\ IndexComplete

\* A step takes no entry out of a chain.
LEMMA LinkedStays ==
    ASSUME IndexInv, [WriterNext]_indexVars, NEW c \in Chains, NEW p,
           Linked(c, p)
    PROVE  Linked(c, p)'
<1>1. PICK i \in Indices(c) : Item(c, i) = p
  BY DEF Linked
<1>2. IndexTypeOK
  BY DEF IndexInv
<1>3. i \in Nat /\ i < chain[c].n /\ chain[c].n \in Nat
  BY <1>2, ChainTypes
<1>4. CASE chain' = chain
  BY <1>1, <1>4 DEF Linked, Indices, Item, ArrayIndex
<1>5. CASE StoreEntry
  <2>1. Item(c, i)' = p /\ chain'[c].n = chain[c].n
    BY <1>1, <1>5, StoreKeepsItems
  <2> QED
    BY <1>3, <2>1 DEF Linked, Indices
<1>6. CASE CountEntry
  <2>1. Item(c, i)' = p /\ i \in Indices(c)'
    BY <1>1, <1>3, <1>6, CountAddsItem
  <2> QED
    BY <2>1 DEF Linked
<1> QED
  BY <1>4, <1>5, <1>6 DEF WriterNext, AppendEntry, StoreFails, indexVars

\* An entry of the main chain names data objects only.
LEMMA HeaderItems ==
    ASSUME IndexInv, NEW i \in Indices(Header)
    PROVE  /\ Item(Header, i) \in DOMAIN entry
           /\ \A k \in DOMAIN entry[Item(Header, i)] :
                 entry[Item(Header, i)][k] \in Chains
<1>1. Item(Header, i) \in DOMAIN entry
  BY DEF IndexInv, ItemsAreEntries, Chains
<1>2. entry[Item(Header, i)] \in Seq(Data)
  BY <1>1 DEF IndexInv, IndexTypeOK
<1> QED
  BY <1>1, <1>2 DEF Chains

\* A step links an entry into all chains it belongs to, or notes that it was not.
LEMMA CompleteStep ==
    ASSUME IndexInv, CompleteInv, [WriterNext]_indexVars
    PROVE  CompleteInv'
<1>0. IndexTypeOK /\ entry \in Seq(Seq(Data)) /\ Header \in Chains
  BY DEF IndexInv, IndexTypeOK, Chains
<1>1. ASSUME NEW items \in Items, AppendEntry(items) PROVE CompleteInv'
  <2>1. /\ writer = Idle /\ writer' = [pc |-> "store", at |-> 0]
        /\ chain' = chain /\ unlinked' = unlinked
        /\ \A p \in DOMAIN entry : entry'[p] = entry[p]
    <3>1. items \in Seq(Data)
      BY IndexAssumption
    <3> QED
      BY <1>0, <1>1, <3>1 DEF AppendEntry
  <2>2. LinkedSoFar'
    <3>1. entry' \in Seq(Seq(Data)) /\ entry' # <<>>
      BY <1>0, <1>1, IndexAssumption DEF AppendEntry
    <3>2. entry'[Current'] \in Seq(Data)
      BY <3>1 DEF Current
    <3>3. \A k \in DOMAIN entry'[Current'] : ~(k < 0)
      BY <3>2
    <3> QED
      BY <2>1, <3>3 DEF LinkedSoFar
  <2>3. ASSUME NEW i \in Indices(Header)', NEW p, p = Item(Header, i)'
        PROVE  p \in unlinked' \/ (\A k \in DOMAIN entry[p] : Linked(entry[p][k], p))'
    <3>1. i \in Indices(Header) /\ p = Item(Header, i)
      BY <2>1, <2>3 DEF Indices, Item, ArrayIndex
    <3>2. entry'[p] = entry[p]
      BY <2>1, <3>1, HeaderItems
    <3>3. p \in unlinked \/ \A k \in DOMAIN entry[p] : Linked(entry[p][k], p)
      BY <2>1, <3>1 DEF CompleteInv, IndexComplete
    <3> QED
      BY <2>1, <3>2, <3>3 DEF Linked, Indices, Item, ArrayIndex
  <2>4. IndexComplete'
    BY <2>3 DEF IndexComplete
  <2> QED
    BY <2>2, <2>4 DEF CompleteInv
<1>2. CASE StoreEntry
  <2>1. /\ entry' = entry /\ unlinked' = unlinked /\ Current' = Current
        /\ writer.pc = "store" /\ writer'.pc = "count" /\ writer'.at = writer.at
        /\ writer' # Idle
    BY <1>0, <1>2 DEF StoreEntry, IndexTypeOK, Current, Idle
  <2>2. LinkedSoFar'
    <3> SUFFICES ASSUME NEW k \in DOMAIN entry[Current], k < writer.at, NEW p,
                        p = Current
                 PROVE  Linked(entry[p][k], p)'
      BY <2>1 DEF LinkedSoFar
    <3>1. Linked(entry[p][k], p)
      BY <2>1 DEF CompleteInv, LinkedSoFar
    <3>2. entry[p][k] \in Chains
      BY <1>0, <2>1, TargetTypes DEF Chains
    <3>3. PICK c \in Chains : c = entry[p][k]
      BY <3>2
    <3>4. Linked(c, p)'
      BY <3>1, <3>3, LinkedStays
    <3> QED
      BY <2>1, <3>3, <3>4 DEF Linked, Item, Indices, ArrayIndex
  <2>3. ASSUME NEW i \in Indices(Header)', NEW p, p = Item(Header, i)',
               p # Current, p \notin unlinked, NEW k \in DOMAIN entry[p]
        PROVE  Linked(entry[p][k], p)'
    <3>1. i \in Indices(Header) /\ p = Item(Header, i)
      BY <1>0, <1>2, <2>3, StoreKeepsItems DEF Indices
    <3>2. PICK c \in Chains : c = entry[p][k]
      BY <2>3, <3>1, HeaderItems
    <3>3. Linked(c, p)
      BY <2>3, <3>1, <3>2 DEF CompleteInv, IndexComplete
    <3>4. Linked(c, p)'
      BY <3>3, LinkedStays
    <3> QED
      BY <2>1, <3>2, <3>4 DEF Linked, Item, Indices, ArrayIndex
  <2>4. IndexComplete'
    BY <2>1, <2>3 DEF IndexComplete
  <2> QED
    BY <2>2, <2>4 DEF CompleteInv
<1>3. CASE StoreFails
  <2>1. /\ entry' = entry /\ chain' = chain /\ writer' = Idle
        /\ unlinked' = unlinked \cup {Current}
    BY <1>3 DEF StoreFails
  <2>2. LinkedSoFar'
    BY <2>1 DEF LinkedSoFar, Idle
  <2>3. IndexComplete'
    BY <2>1 DEF CompleteInv, IndexComplete, Linked, Item, Indices, ArrayIndex
  <2> QED
    BY <2>2, <2>3 DEF CompleteInv
<1>4. CASE UNCHANGED indexVars
  BY <1>4 DEF CompleteInv, LinkedSoFar, IndexComplete, Linked, Item, Indices,
              ArrayIndex, Current, indexVars
<1>5. CASE CountEntry
  <2>1. /\ entry' = entry /\ unlinked' = unlinked /\ Current' = Current
        /\ writer.pc = "count"
        /\ writer' = IF writer.at < Len(entry[Current])
                     THEN [pc |-> "store", at |-> writer.at + 1] ELSE Idle
    BY <1>5 DEF CountEntry, Current
  <2>2. /\ Target \in Chains /\ entry[Current] \in Seq(Data) /\ writer.at \in Nat
        /\ Current \in DOMAIN entry
        /\ writer.at # 0 => Target = entry[Current][writer.at]
    BY <1>0, <2>1, TargetTypes DEF Target
  <2>3. ASSUME NEW k \in DOMAIN entry[Current], k <= writer.at, NEW p, p = Current
        PROVE  Linked(entry[p][k], p)'
    <3>1. PICK c \in Chains : c = entry[p][k]
      BY <2>2, <2>3 DEF Chains
    <3>2. CASE k < writer.at
      BY <2>1, <2>3, <3>1, <3>2, LinkedStays DEF CompleteInv, LinkedSoFar
    <3>3. CASE k = writer.at
      <4>1. c = Target /\ Item(c, chain[c].n) = p /\ chain[c].n \in Nat
        BY <1>0, <1>5, <2>2, <2>3, <3>1, <3>3, CountAddsItem, ChainTypes
      <4>2. PICK n \in Nat : n = chain[c].n
        BY <4>1
      <4>3. Item(c, n)' = p /\ n \in Indices(c)'
        BY <1>5, <4>1, <4>2, CountAddsItem
      <4>4. Linked(c, p)'
        BY <4>3 DEF Linked
      <4> QED
        BY <2>1, <3>1, <4>4 DEF Linked, Item, Indices, ArrayIndex
    <3> QED
      BY <2>2, <2>3, <3>2, <3>3
  <2>4. LinkedSoFar'
    <3> SUFFICES ASSUME writer'.pc # "idle", NEW k \in DOMAIN entry[Current],
                        k < writer'.at, NEW p, p = Current
                 PROVE  Linked(entry[p][k], p)'
      BY <2>1 DEF LinkedSoFar
    <3>1. writer'.at = writer.at + 1
      BY <2>1 DEF Idle
    <3>2. k <= writer.at
      BY <2>2, <3>1
    <3> QED
      BY <2>3, <3>2
  <2>5. ASSUME NEW i \in Indices(Header)', NEW p, p = Item(Header, i)',
               p # Current, p \notin unlinked, NEW k \in DOMAIN entry[p]
        PROVE  Linked(entry[p][k], p)'
    <3>1. i \in Indices(Header) /\ p = Item(Header, i)
      <4>1. chain[Header].n \in Nat /\ Indices(Header) \subseteq Nat
        BY <1>0, ChainTypes
      <4>2. i \in Nat /\ p = Item(Header, i)
        BY <1>0, <1>5, <2>5, <4>1, CountAddsItem
      <4>3. i \in Indices(Header) \/ (Target = Header /\ i = chain[Header].n)
        BY <1>0, <1>5, <2>5, CountAddsItem
      <4> QED
        BY <1>5, <2>5, <4>2, <4>3, CountAddsItem
    <3>2. PICK c \in Chains : c = entry[p][k]
      BY <2>5, <3>1, HeaderItems
    <3>3. Linked(c, p)
      BY <2>5, <3>1, <3>2 DEF CompleteInv, IndexComplete
    <3>4. Linked(c, p)'
      BY <3>3, LinkedStays
    <3> QED
      BY <2>1, <3>2, <3>4 DEF Linked, Item, Indices, ArrayIndex
  <2>6. ASSUME writer' = Idle, NEW p, p = Current, NEW k \in DOMAIN entry[p]
        PROVE  Linked(entry[p][k], p)'
    <3>1. ~(writer.at < Len(entry[Current]))
      BY <2>1, <2>6 DEF Idle
    <3>2. k \in DOMAIN entry[Current] /\ k <= writer.at
      BY <2>2, <2>6, <3>1
    <3> QED
      BY <2>3, <2>6, <3>2
  <2>7. IndexComplete'
    BY <2>1, <2>5, <2>6 DEF IndexComplete
  <2> QED
    BY <2>4, <2>7 DEF CompleteInv
<1> QED
  BY <1>1, <1>2, <1>3, <1>4, <1>5 DEF WriterNext

\* Every published entry is found through each of its data objects, except the
\* one journal_file_link_entry() is working on and those it gave up.
THEOREM CompleteCorrect == IndexSpec => []IndexComplete
<1>1. IndexInit => CompleteInv
  <2> SUFFICES ASSUME IndexInit PROVE CompleteInv
    OBVIOUS
  <2>1. Indices(Header) = {}
    BY DEF IndexInit, Indices, EmptyChain, Chains
  <2> QED
    BY <2>1 DEF IndexInit, CompleteInv, LinkedSoFar, IndexComplete, Idle
<1>2. IndexInv /\ CompleteInv /\ [WriterNext]_indexVars => CompleteInv'
  BY CompleteStep
<1>3. CompleteInv => IndexComplete
  BY DEF CompleteInv
<1> QED
  BY <1>1, <1>2, <1>3, IndexInvariant, PTL DEF IndexSpec

-----------------------------------------------------------------------------
(* The verifier                                                            *)

\* As long as no linking failed, the main chain has all entries, but for one that has just
\* been written.
CountsAll ==
    unlinked = {} =>
        chain[Header].n + (IF writer.pc # "idle" /\ writer.at = 0 THEN 1 ELSE 0) = Len(entry)

\* A data object has its first entry, and its first array, no earlier than its counter says,
\* but for the item that is about to be counted.
AtWork(d) == writer.pc = "count" /\ Target = d
NothingSpare ==
    \A d \in Data :
        /\ chain[d].n = 0 => chain[d].extra = 0 \/ AtWork(d)
        /\ chain[d].arrays # <<>> => chain[d].n >= 1 /\ (chain[d].n >= 2 \/ AtWork(d))

\* An entry is in the chain of a data object twice only if it has the object twice: the
\* writer has linked it no further than its loop has come.
TwiceIfRepeated ==
    \A d \in Data : \A i, j \in Indices(d) : i < j /\ Item(d, i) = Item(d, j) => Repeats(Item(d, i))
NoneAhead ==
    writer.pc # "idle" =>
        \A d \in Data : Linked(d, Current) =>
            \E k \in DOMAIN entry[Current] : k < writer.at /\ entry[Current][k] = d

VerifyInv == CountsAll /\ NothingSpare /\ TwiceIfRepeated /\ NoneAhead

\* An entry is appended: nothing is linked to it yet.
LEMMA AppendEntryVerify ==
    ASSUME IndexInv, VerifyInv, NEW items \in Items, AppendEntry(items)
    PROVE  VerifyInv'
<1>1. /\ IndexTypeOK /\ ItemsAreEntries /\ CountsAll /\ NothingSpare /\ TwiceIfRepeated
      /\ entry \in Seq(Seq(Data)) /\ items \in Seq(Data)
  BY IndexAssumption DEF IndexInv, VerifyInv, IndexTypeOK
<1>2. /\ writer.pc = "idle" /\ writer'.pc = "store" /\ writer'.at = 0
      /\ chain' = chain /\ unlinked' = unlinked /\ entry' = Append(entry, items)
  BY DEF AppendEntry, Idle
<1>3. PICK m \in Nat : m = Len(entry)
  BY <1>1
<1>4. /\ Len(entry') = m + 1 /\ Current' = m + 1 /\ DOMAIN entry = 1..m /\ DOMAIN entry' = 1..(m + 1)
      /\ \A p \in DOMAIN entry : entry'[p] = entry[p]
  BY <1>1, <1>2, <1>3 DEF Current
<1>5. /\ \A c : Indices(c)' = Indices(c)
      /\ \A c, i : Item(c, i)' = Item(c, i)
      /\ \A c, p : Linked(c, p)' <=> Linked(c, p)
  BY <1>2 DEF Linked, Indices, Item, ArrayIndex
<1>6. \A d \in Data : d \in Chains /\ \A i \in Indices(d) : Item(d, i) \in DOMAIN entry
  BY <1>1 DEF ItemsAreEntries, Chains
<1>7. CountsAll'
  <2>1. chain[Header].n \in Nat
    BY <1>1, ChainTypes DEF Chains
  <2>2. unlinked = {} => chain[Header].n = m
    BY <1>1, <1>2, <1>3, <2>1 DEF CountsAll
  <2>3. (IF writer'.pc # "idle" /\ writer'.at = 0 THEN 1 ELSE 0) = 1
    BY <1>2
  <2>4. unlinked' = {} => chain'[Header].n + 1 = Len(entry')
    BY <1>2, <1>4, <2>2
  <2> QED
    BY <2>3, <2>4 DEF CountsAll
<1>8. NothingSpare'
  BY <1>1, <1>2 DEF NothingSpare, AtWork
<1>9. TwiceIfRepeated'
  <2>1. ASSUME NEW d \in Data, NEW i \in Indices(d), NEW j \in Indices(d), i < j, Item(d, i) = Item(d, j)
        PROVE  Repeats(Item(d, i))'
    <3>1. PICK p : p = Item(d, i) /\ p = Item(d, i)' /\ p \in DOMAIN entry
      BY <1>5, <1>6, <2>1
    <3>2. Repeats(p)
      BY <1>1, <2>1, <3>1 DEF TwiceIfRepeated
    <3>3. Repeats(p)'
      BY <1>4, <3>1, <3>2 DEF Repeats
    <3> QED
      BY <3>1, <3>3
  <2> QED
    BY <1>5, <2>1 DEF TwiceIfRepeated
<1>10. NoneAhead'
  <2>1. ASSUME NEW d \in Data PROVE ~Linked(d, Current)'
    <3>1. ~Linked(d, m + 1)
      BY <1>4, <1>6 DEF Linked
    <3>2. ~Linked(d, m + 1)'
      BY <1>5, <3>1
    <3> QED
      BY <1>4, <3>2
  <2> QED
    BY <2>1 DEF NoneAhead
<1> QED
  BY <1>7, <1>8, <1>9, <1>10 DEF VerifyInv

\* An item is stored: nothing is published by that.
LEMMA StoreEntryVerify ==
    ASSUME IndexInv, VerifyInv, StoreEntry
    PROVE  VerifyInv'
<1>1. IndexTypeOK /\ CountsAll /\ NothingSpare /\ TwiceIfRepeated /\ NoneAhead /\ chain \in [Chains -> Chain]
  BY DEF IndexInv, VerifyInv, IndexTypeOK
<1>2. PICK t, p : t \in Chains /\ t = Target /\ p = Current
  BY <1>1, TargetTypes DEF StoreEntry
<1>3. /\ writer.pc = "store" /\ writer' = [writer EXCEPT !.pc = "count"] /\ entry' = entry
      /\ unlinked' = unlinked /\ chain' = [chain EXCEPT ![t] = Stored(t, p)]
  BY <1>2 DEF StoreEntry
<1>4. writer'.pc = "count" /\ writer'.at = writer.at
  BY <1>1, <1>3 DEF IndexTypeOK
<1>5. Target' = t /\ Current' = p
  BY <1>2, <1>3, <1>4 DEF Target, Current
<1>6. /\ \A c \in Chains : Indices(c)' = Indices(c) /\ chain'[c].n = chain[c].n
      /\ \A c \in Chains : \A i \in Indices(c) : Item(c, i)' = Item(c, i)
  BY StoreKeepsItems DEF Indices
<1>7. \A c \in Chains : \A q : Linked(c, q)' <=> Linked(c, q)
  BY <1>6 DEF Linked
<1>8. Header \in Chains /\ \A d \in Data : d \in Chains /\ d # Header
  BY IndexAssumption DEF Chains, Header
<1>9. CountsAll'
  BY <1>1, <1>3, <1>4, <1>6, <1>8 DEF CountsAll
<1>10. NothingSpare'
  <2>1. ASSUME NEW d \in Data
        PROVE  /\ chain'[d].n = 0 => chain'[d].extra = 0 \/ (writer'.pc = "count" /\ Target' = d)
               /\ chain'[d].arrays # <<>> =>
                    chain'[d].n >= 1 /\ (chain'[d].n >= 2 \/ (writer'.pc = "count" /\ Target' = d))
    <3>1. d \in Chains /\ d # Header /\ chain[d] \in Chain /\ chain[d].n \in Nat
      BY <1>1, <1>8, <2>1, ChainTypes
    <3>2. /\ chain[d].n = 0 => chain[d].extra = 0
          /\ chain[d].arrays # <<>> => chain[d].n >= 2
      BY <1>1, <1>3, <2>1 DEF NothingSpare, AtWork
    <3>3. CASE d = t
      <4>1. chain'[d].n = chain[d].n
        BY <1>6, <3>1
      <4>2. chain[d].n = 0 => chain'[d].arrays = chain[d].arrays
        <5>1. CASE chain[d].n = 0
          <6>1. chain'[d] = [chain[d] EXCEPT !.extra = p]
            BY <1>1, <1>3, <3>1, <3>3, <5>1 DEF Stored
          <6> QED
            BY <3>1, <6>1 DEF Chain
        <5> QED
          BY <5>1
      <4> QED
        BY <1>4, <1>5, <3>1, <3>2, <3>3, <4>1, <4>2
    <3>4. CASE d # t
      <4>1. chain'[d] = chain[d]
        BY <1>1, <1>3, <3>1, <3>4
      <4> QED
        BY <3>1, <3>2, <4>1
    <3> QED
      BY <3>3, <3>4
  <2> QED
    BY <2>1 DEF NothingSpare, AtWork
<1>11. TwiceIfRepeated'
  <2>1. ASSUME NEW d \in Data, NEW i \in Indices(d), NEW j \in Indices(d), i < j, Item(d, i)' = Item(d, j)'
        PROVE  Repeats(Item(d, i))'
    <3>1. PICK q : q = Item(d, i) /\ q = Item(d, i)' /\ q = Item(d, j)
      BY <1>6, <1>8, <2>1
    <3>2. Repeats(q)
      BY <1>1, <2>1, <3>1 DEF TwiceIfRepeated
    <3>3. Repeats(q)'
      BY <1>3, <3>2 DEF Repeats
    <3> QED
      BY <3>1, <3>3
  <2> QED
    BY <1>6, <1>8, <2>1 DEF TwiceIfRepeated
<1>12. NoneAhead'
  <2>1. ASSUME NEW d \in Data, Linked(d, Current)'
        PROVE  \E k \in DOMAIN entry'[Current'] : k < writer'.at /\ entry'[Current'][k] = d
    <3>1. Linked(d, p)'
      BY <1>5, <2>1
    <3>2. Linked(d, p)
      BY <1>7, <1>8, <2>1, <3>1
    <3>3. \E k \in DOMAIN entry[p] : k < writer.at /\ entry[p][k] = d
      BY <1>1, <1>2, <1>3, <2>1, <3>2 DEF NoneAhead
    <3> QED
      BY <1>3, <1>4, <1>5, <3>3
  <2> QED
    BY <2>1 DEF NoneAhead
<1> QED
  BY <1>9, <1>10, <1>11, <1>12 DEF VerifyInv

\* An item is counted.
LEMMA CountEntryVerify ==
    ASSUME IndexInv, VerifyInv, CountEntry
    PROVE  VerifyInv'
<1>1. /\ IndexTypeOK /\ CountsAll /\ NothingSpare /\ TwiceIfRepeated /\ NoneAhead
      /\ chain \in [Chains -> Chain] /\ ItemsAreEntries
  BY DEF IndexInv, VerifyInv, IndexTypeOK
<1>2. PICK t \in Chains, p, a \in Nat : t = Target /\ p = Current /\ a = writer.at
  BY <1>1, TargetTypes DEF CountEntry
<1>3. /\ writer.pc = "count" /\ entry' = entry /\ unlinked' = unlinked
      /\ chain' = [chain EXCEPT ![t].n = @ + 1] /\ Current' = p
      /\ writer' = IF a < Len(entry[p]) THEN [pc |-> "store", at |-> a + 1] ELSE Idle
  BY <1>2 DEF CountEntry, Current
<1>4. /\ p \in DOMAIN entry /\ entry[p] \in Seq(Data) /\ (a = 0 <=> t = Header)
      /\ a # 0 => t = entry[p][a] /\ a \in DOMAIN entry[p]
  <2>1. p \in DOMAIN entry /\ entry[p] \in Seq(Data) /\ (a = 0 <=> t = Header) /\ a <= Len(entry[p])
    BY <1>1, <1>2, <1>3, TargetTypes DEF IndexTypeOK
  <2> QED
    BY <1>2, <2>1 DEF Target
<1>5. writer'.pc # "idle" => writer'.pc = "store" /\ writer'.at = a + 1
  BY <1>3 DEF Idle
<1>6. Header \in Chains /\ \A d \in Data : d \in Chains /\ d # Header
  BY IndexAssumption DEF Chains, Header
<1>7. /\ \A c \in Chains :
           /\ chain'[c].arrays = chain[c].arrays
           /\ Indices(c)' = Indices(c) \cup (IF c = t THEN {chain[c].n} ELSE {})
           /\ chain'[c].n = chain[c].n + (IF c = t THEN 1 ELSE 0)
           /\ \A i \in Nat : Item(c, i)' = Item(c, i)
      /\ Item(t, chain[t].n) = p
  BY <1>2, CountAddsItem
<1>8. \A c \in Chains : chain[c] \in Chain /\ chain[c].n \in Nat /\ Indices(c) = {i \in Nat : i < chain[c].n}
  BY <1>1, ChainTypes
<1>9. CountsAll'
  <2>1. Len(entry) \in Nat
    BY <1>1 DEF IndexTypeOK
  <2> QED
    BY <1>1, <1>2, <1>3, <1>4, <1>5, <1>6, <1>7, <1>8, <2>1 DEF CountsAll
<1>10. NothingSpare'
  <2>1. ASSUME NEW d \in Data
        PROVE  /\ chain'[d].n = 0 => chain'[d].extra = 0
               /\ chain'[d].arrays # <<>> => chain'[d].n >= 1 /\ chain'[d].n >= 2
    <3>1. d \in Chains /\ chain[d] \in Chain /\ chain[d].n \in Nat /\ chain'[d].arrays = chain[d].arrays
      BY <1>6, <1>7, <1>8, <2>1
    <3>2. CASE d = t
      <4>1. chain'[d].n = chain[d].n + 1
        BY <1>7, <3>1, <3>2
      <4> QED
        BY <1>1, <2>1, <3>1, <4>1 DEF NothingSpare
    <3>3. CASE d # t
      <4>1. chain'[d] = chain[d]
        BY <1>1, <1>3, <3>1, <3>3
      <4> QED
        BY <1>1, <1>2, <2>1, <3>1, <3>3, <4>1 DEF NothingSpare, AtWork
    <3> QED
      BY <3>2, <3>3
  <2> QED
    BY <2>1 DEF NothingSpare
<1>11. ASSUME NEW d \in Data, d = t, Linked(d, p) PROVE Repeats(p)
  <2>1. PICK k \in DOMAIN entry[p] : k < a /\ entry[p][k] = d
    BY <1>1, <1>2, <1>3, <1>11 DEF NoneAhead
  <2>2. a # 0 /\ a \in DOMAIN entry[p] /\ entry[p][a] = d
    BY <1>4, <1>6, <1>11
  <2>3. k # a
    BY <1>4, <2>1, <2>2
  <2> QED
    BY <2>1, <2>2, <2>3 DEF Repeats
<1>12. TwiceIfRepeated'
  <2>1. ASSUME NEW d \in Data, NEW i \in Indices(d)', NEW j \in Indices(d)', i < j, Item(d, i)' = Item(d, j)'
        PROVE  Repeats(Item(d, i))'
    <3>1. PICK n \in Nat : n = chain[d].n
      BY <1>6, <1>8, <2>1
    <3>2. /\ Indices(d) = {x \in Nat : x < n}
          /\ i \in Indices(d) \/ (d = t /\ i = n)
          /\ j \in Indices(d) \/ (d = t /\ j = n)
      BY <1>6, <1>7, <1>8, <2>1, <3>1
    <3>3. i \in Nat /\ j \in Nat /\ i \in Indices(d)
      BY <2>1, <3>1, <3>2
    <3>4. PICK q : q = Item(d, i) /\ q = Item(d, i)' /\ q = Item(d, j)
      BY <1>6, <1>7, <2>1, <3>3
    <3>5. Repeats(q)
      <4>1. CASE j \in Indices(d)
        BY <1>1, <2>1, <3>3, <3>4, <4>1 DEF TwiceIfRepeated
      <4>2. CASE d = t /\ j = n
        <5>1. q = p
          BY <1>7, <3>1, <3>4, <4>2
        <5>2. Linked(d, p)
          BY <3>3, <3>4, <5>1 DEF Linked
        <5> QED
          BY <1>11, <2>1, <4>2, <5>1, <5>2
      <4> QED
        BY <3>2, <4>1, <4>2
    <3>6. Repeats(q)'
      BY <1>3, <3>5 DEF Repeats
    <3> QED
      BY <3>4, <3>6
  <2> QED
    BY <2>1 DEF TwiceIfRepeated
<1>13. NoneAhead'
  <2>1. ASSUME writer'.pc # "idle", NEW d \in Data, Linked(d, Current)'
        PROVE  \E k \in DOMAIN entry'[Current'] : k < writer'.at /\ entry'[Current'][k] = d
    <3>1. Linked(d, p)'
      BY <1>3, <2>1
    <3>2. PICK i \in Indices(d)' : Item(d, i)' = p
      BY <3>1 DEF Linked
    <3>3. d \in Chains /\ i \in Nat /\ (i \in Indices(d) \/ d = t)
      BY <1>6, <1>7, <1>8, <2>1, <3>2
    <3>4. CASE d = t
      <4>1. a # 0 /\ a \in DOMAIN entry[p] /\ entry[p][a] = d
        BY <1>4, <1>6, <2>1, <3>4
      <4> QED
        BY <1>2, <1>3, <1>5, <2>1, <4>1
    <3>5. CASE d # t
      <4>1. Item(d, i) = p /\ i \in Indices(d)
        BY <1>7, <3>2, <3>3, <3>5
      <4>2. PICK k \in DOMAIN entry[p] : k < a /\ entry[p][k] = d
        BY <1>1, <1>2, <1>3, <2>1, <4>1 DEF NoneAhead, Linked
      <4>3. k \in Nat
        BY <1>4, <4>2
      <4> QED
        BY <1>2, <1>3, <1>5, <2>1, <4>2, <4>3
    <3> QED
      BY <3>4, <3>5
  <2> QED
    BY <2>1 DEF NoneAhead
<1> QED
  BY <1>9, <1>10, <1>12, <1>13 DEF VerifyInv

\* The linking fails, or nothing happens.
LEMMA OtherVerify ==
    ASSUME IndexInv, VerifyInv, StoreFails \/ UNCHANGED indexVars
    PROVE  VerifyInv'
<1>1. CASE StoreFails
  <2>1. /\ entry' = entry /\ chain' = chain /\ writer'.pc = "idle" /\ writer.pc = "store"
        /\ unlinked' # {}
    BY <1>1 DEF StoreFails, Idle
  <2>2. CountsAll' /\ NoneAhead'
    BY <2>1 DEF CountsAll, NoneAhead
  <2>3. NothingSpare'
    BY <2>1 DEF VerifyInv, NothingSpare, AtWork
  <2>4. TwiceIfRepeated'
    BY <2>1 DEF VerifyInv, TwiceIfRepeated, Repeats, Indices, Item, ArrayIndex
  <2> QED
    BY <2>2, <2>3, <2>4 DEF VerifyInv
<1>2. CASE UNCHANGED indexVars
  BY <1>2 DEF indexVars, VerifyInv, CountsAll, NoneAhead, NothingSpare, AtWork, Target, Current,
              TwiceIfRepeated, Repeats, Linked, Indices, Item, ArrayIndex
<1> QED
  BY <1>1, <1>2

\* What the verifier asks of a file without failed appends and without repeated fields.
LEMMA VerifyHolds ==
    ASSUME IndexInv, VerifyInv
    PROVE  VerifyAccepts
<1> SUFFICES ASSUME writer = Idle, entry # <<>>, unlinked = {}, \A p \in DOMAIN entry : ~Repeats(p)
             PROVE  Verify
  BY DEF VerifyAccepts
<1>1. /\ IndexTypeOK /\ ChainsInShape /\ ItemsAreEntries /\ ChainsSorted /\ IndexSound
      /\ CountsAll /\ NothingSpare /\ TwiceIfRepeated /\ writer.pc = "idle"
  BY DEF IndexInv, VerifyInv, Idle
<1>2. Header \in Chains /\ \A d \in Data : d \in Chains /\ d # Header
  BY IndexAssumption DEF Chains, Header
<1>3. Len(entry) \in Nat /\ Len(entry) > 0 /\ chain[Header].n = Len(entry)
  <2>1. entry \in Seq(Seq(Data)) /\ chain[Header].n \in Nat
    BY <1>1, <1>2, ChainTypes DEF IndexTypeOK
  <2> QED
    BY <1>1, <2>1 DEF CountsAll
<1>4. ASSUME NEW c \in Chains, NEW i \in Indices(c), c = Header \/ i # 0
      PROVE  Room(chain[c].arrays, ArrayIndex(c, i)) # {}
  <2>1. Shape(chain[c].arrays) /\ Used(c) <= Capacity(chain[c].arrays) /\ Capacity(chain[c].arrays) \in Nat
    BY <1>1, ShapeTypes DEF ChainsInShape
  <2>2. PICK h : h = ArrayIndex(c, i)
    OBVIOUS
  <2>3. h \in Nat /\ h < Used(c) /\ Used(c) \in Nat
    <3>1. chain[c].n \in Nat /\ i \in Nat /\ i < chain[c].n /\ Used(c) \in Nat
      BY <1>1, <1>4, ChainTypes
    <3> QED
      BY <1>4, <2>2, <3>1 DEF ArrayIndex, Used
  <2>4. h < Capacity(chain[c].arrays)
    BY <2>1, <2>3
  <2> QED
    BY <2>1, <2>2, <2>3, <2>4, RoomIsCapacity
<1>5. ASSUME NEW c \in Chains, NEW i \in Indices(c), i > 0 PROVE Item(c, i - 1) < Item(c, i)
  <2>1. PICK j : j = i - 1
    OBVIOUS
  <2>2. j \in Indices(c) /\ j < i
    BY <1>1, <1>5, <2>1, ChainTypes
  <2>3. PICK p, q : p = Item(c, j) /\ q = Item(c, i)
    OBVIOUS
  <2>4. p \in DOMAIN entry /\ q \in DOMAIN entry /\ p \in Nat /\ q \in Nat
    BY <1>1, <1>5, <2>2, <2>3 DEF ItemsAreEntries, IndexTypeOK
  <2>5. p < q
    <3>1. CASE c = Header
      BY <1>1, <1>5, <2>2, <2>3, <3>1 DEF ChainsSorted
    <3>2. CASE c # Header
      <4>1. p <= q
        BY <1>1, <1>5, <2>2, <2>3, <3>2 DEF ChainsSorted
      <4>2. c \in Data
        BY <3>2 DEF Chains
      <4>3. p # q
        BY <1>1, <1>5, <2>2, <2>3, <2>4, <4>2 DEF TwiceIfRepeated
      <4> QED
        BY <2>4, <4>1, <4>3
    <3> QED
      BY <3>1, <3>2
  <2> QED
    BY <2>1, <2>3, <2>5
<1>6. \A c \in Chains : VerifyChain(c)
  BY <1>4, <1>5 DEF VerifyChain
<1>7. chain[Header].arrays # <<>>
  <2>1. 0 \in Indices(Header)
    BY <1>1, <1>2, <1>3, ChainTypes
  <2>2. Room(chain[Header].arrays, ArrayIndex(Header, 0)) # {}
    BY <1>2, <1>4, <2>1
  <2> QED
    BY <2>2 DEF Room
<1>8. VerifyEntryArray
  BY <1>1, <1>2, <1>6 DEF VerifyEntryArray, ItemsAreEntries
<1>9. ASSUME NEW d \in Data PROVE VerifyData(d)
  <2>1. d \in Chains /\ d # Header /\ chain[d].n \in Nat /\ Indices(d) = {i \in Nat : i < chain[d].n}
    BY <1>1, <1>2, <1>9, ChainTypes
  <2>2. chain[d].n = 0 => chain[d].extra = 0
    BY <1>1, <1>9 DEF NothingSpare, AtWork
  <2>3. chain[d].n # 0 => chain[d].extra # 0
    <3>1. CASE chain[d].n # 0
      <4>1. 0 \in Indices(d)
        BY <2>1, <3>1
      <4>2. Item(d, 0) \in DOMAIN entry /\ Item(d, 0) = chain[d].extra
        BY <1>1, <2>1, <4>1 DEF ItemsAreEntries, Item
      <4>3. 0 \notin DOMAIN entry
        BY <1>1 DEF IndexTypeOK
      <4> QED
        BY <4>2, <4>3
    <3> QED
      BY <3>1
  <2>4. chain[d].arrays # <<>> => chain[d].n >= 2
    BY <1>1, <1>9 DEF NothingSpare, AtWork
  <2>5. ASSUME NEW i \in Indices(d) PROVE EntryPointsToData(Item(d, i), d)
    BY <1>1, <1>9, <2>1, <2>5 DEF EntryPointsToData, ItemsAreEntries, IndexSound
  <2> QED
    BY <1>6, <2>1, <2>2, <2>3, <2>4, <2>5 DEF VerifyData
<1> QED
  BY <1>3, <1>7, <1>8, <1>9 DEF Verify

\* journal_file_verify() accepts the index of every file whose appends all succeeded and
\* none of whose entries has a field twice.
THEOREM VerifierAlwaysAccepts == IndexSpec => []VerifyAccepts
<1>1. IndexInit => VerifyInv
  <2> SUFFICES ASSUME IndexInit PROVE VerifyInv
    OBVIOUS
  <2>1. /\ entry = <<>> /\ writer.pc = "idle" /\ \A c \in Chains : chain[c] = EmptyChain
        /\ Header \in Chains /\ Data \subseteq Chains
    BY DEF IndexInit, Idle, Chains
  <2>2. \A c \in Chains : chain[c].n = 0 /\ chain[c].extra = 0 /\ chain[c].arrays = <<>> /\ Indices(c) = {}
    BY <2>1 DEF EmptyChain, Indices
  <2>3. CountsAll
    BY <2>1, <2>2 DEF CountsAll
  <2>4. NothingSpare /\ NoneAhead
    BY <2>1, <2>2 DEF NothingSpare, NoneAhead
  <2>5. TwiceIfRepeated
    BY <2>1, <2>2 DEF TwiceIfRepeated
  <2> QED
    BY <2>3, <2>4, <2>5 DEF VerifyInv
<1>2. IndexInv /\ VerifyInv /\ [WriterNext]_indexVars => VerifyInv'
  BY AppendEntryVerify, StoreEntryVerify, CountEntryVerify, OtherVerify DEF WriterNext
<1>3. IndexInv /\ VerifyInv => VerifyAccepts
  BY VerifyHolds
<1> QED
  BY <1>1, <1>2, <1>3, IndexInvariant, PTL DEF IndexSpec
-----------------------------------------------------------------------------
(* Searching while the writer appends                                      *)

\* The entries of chain c that are not in its arrays.
Plus(c) == IF c = Header THEN 0 ELSE 1

\* Entry p lies on the side of the needle that the query asks for.
Side(q, p) == IF q.dir = Down THEN IsRight(q, p) ELSE ~IsRight(q, p)

\* The first n entries of the query's chain end with an array, and the last of
\* them is the one to find upwards.
Full(q, n) ==
    /\ q.dir = Up /\ n > 0 /\ Side(q, Item(q.c, n - 1))
    /\ \E j \in DOMAIN chain[q.c].arrays :
          End(chain[q.c].arrays[j]) = ArrayIndex(q.c, n)

\* p at index i, or nothing (p = 0), is what the query may find among the first
\* n entries of its chain.
Answer(q, n, p, i) ==
    /\ p # 0 => i < n /\ p = Item(q.c, i) /\ Side(q, p)
    /\ ~Full(q, n) =>
         \A j \in Indices(q.c) : j < n /\ Side(q, Item(q.c, j)) =>
            p # 0 /\ IF q.dir = Down THEN i <= j ELSE j <= i

CallType ==
    [name : {"none", "seek", "next", "skip", "both"}, c : Chains, dir : {Down, Up},
     test : {"offset", "time"}, arg : Nat, boot : Chains, seen : Nat]

QueryType ==
    [c : Chains, test : {"offset", "time"}, needle : Nat, dir : {Down, Up}]

LoopType == [a : Nat, n : Nat, t : Nat, last : Nat \cup {NONE}, prev : Nat]

ReaderType ==
    [pc : {"idle", "count", "head", "begin", "array", "skip", "get", "done"},
     call : CallType, query : QueryType, n : Nat, extra : Nat, at : LoopType,
     count : Nat, res : Nat, idx : Nat]

CacheType ==
    [first : Chains, array : Nat, total : Nat, begin : Nat, last : Nat \cup {NONE}]

\* A cached position is that of a counted entry at the start of an array, and of
\* another one in the same array; there is one for a chain.
CacheItemOK(ci) ==
    LET arrays == chain[ci.first].arrays IN
    /\ ci.array \in DOMAIN arrays
    /\ ci.total = arrays[ci.array].start
    /\ ci.total + Plus(ci.first) < chain[ci.first].n
    /\ ci.begin = Item(ci.first, ci.total + Plus(ci.first))
    /\ ci.last # NONE =>
         /\ ci.last < Len(arrays[ci.array].items)
         /\ ci.total + ci.last + Plus(ci.first) < chain[ci.first].n

CacheInv(s) ==
    /\ s \in Seq(CacheType) /\ Len(s) <= CHAIN_CACHE_MAX
    /\ \A k \in DOMAIN s : CacheItemOK(s[k])
    /\ \A j, k \in DOMAIN s : s[j].first = s[k].first => j = k

\* The steps of a bisection: the counter was read (and what the cache has was
\* counted before), the first array was read, the loop is at an array.
CounterRead(r) ==
    LET c == r.query.c IN
    /\ r.n <= chain[c].n
    /\ r.pc # "array" => \A k \in Cached(c) :
          cache[k].last # NONE => cache[k].total + cache[k].last + Plus(c) < r.n

HeadRead(r) ==
    LET c == r.query.c IN
    /\ c # Header /\ r.n > 0 => r.extra = Item(c, 0)
    /\ r.at.a = 0 => r.n <= Plus(c)
    /\ r.at.a # 0 => r.at.a = 1 /\ chain[c].arrays # <<>>
    /\ r.at.t = 0 /\ r.at.last = NONE

InLoop(r) ==
    LET c      == r.query.c
        at     == r.at
        arrays == chain[c].arrays
    IN  /\ c # Header => r.n > 0 /\ r.extra = Item(c, 0)
        /\ at.a \in DOMAIN arrays /\ at.t = arrays[at.a].start
        /\ at.t + at.n + Plus(c) = r.n
        /\ at.last # NONE => at.last < at.n /\ at.last < Len(arrays[at.a].items)
        /\ \A i \in Indices(c) : i < at.t + Plus(c) => ~IsRight(r.query, Item(c, i))
        /\ at.t > 0 => \/ at.prev = Item(c, at.t + Plus(c) - 1)
                       \/ at.n > 0 /\ ~IsRight(r.query, Item(c, at.t + Plus(c)))

\* Where a bisection is.
BisectInv(r) ==
    /\ r.pc \in {"count", "head"} => r.at.t = 0 /\ r.at.last = NONE
    /\ r.pc \in {"head", "begin", "array"} => CounterRead(r)
    /\ r.pc = "begin" => HeadRead(r)
    /\ r.pc = "array" => InLoop(r)

Bisecting(r) == r.pc \in {"count", "head", "begin", "array"}

\* The entries counted as far as the bisection is concerned.
Counted(r) == IF r.pc = "count" THEN chain[r.query.c].n ELSE r.n

\* journal_file_move_to_entry_by_*()
SeekInv(r) ==
    /\ Bisecting(r) \/ r.pc = "done"
    /\ r.query = [c |-> r.call.c, test |-> r.call.test, needle |-> r.call.arg,
                  dir |-> r.call.dir]
    /\ r.pc = "done" => r.n <= chain[r.query.c].n /\ Answer(r.query, r.n, r.res, r.idx)

\* The entry that a step starts from, at index i.
From(i, p) == i \in Indices(Header) /\ Item(Header, i) = p

FindStart(r, p) ==
    /\ r.query = [c |-> Header, test |-> "offset", needle |-> p, dir |-> Down]
    /\ \E i \in Indices(Header) : From(i, p) /\ i < Counted(r)

\* The index that journal_file_next_entry() goes to, if there is one.
NextIndex(r, i) ==
    \/ r.call.arg = 0 /\ i = IF r.call.dir = Down THEN 0 ELSE r.count - 1
    \/ /\ r.call.arg # 0
       /\ \E k \in Indices(Header) :
            From(k, r.call.arg) /\ IF r.call.dir = Down THEN i = k + 1 ELSE i = k - 1

\* journal_file_next_entry(), journal_file_next_entry_for_data()
NextInv(r) ==
    LET c == r.call.c IN
    /\ r.pc # "skip" /\ r.query.c = c /\ r.count <= chain[c].n
    /\ r.call.arg # 0 => c = Header /\ \E i \in Indices(Header) :
                                         From(i, r.call.arg) /\ i < r.count
    /\ Bisecting(r) => r.call.arg # 0 /\ FindStart(r, r.call.arg)
    /\ r.pc = "get" => r.idx < r.count /\ NextIndex(r, r.idx)
    /\ r.pc = "done" =>
         \/ r.res = 0 /\ \A i \in Indices(c) : i < r.count => ~NextIndex(r, i)
         \/ r.idx < r.count /\ NextIndex(r, r.idx) /\ r.res = Item(c, r.idx)

\* journal_file_skip_entry()
SkipTo(r, k) ==
    IF r.call.dir = Down
    THEN \/ r.idx = k + r.call.arg
         \/ r.idx = r.count - 1 /\ r.idx < k + r.call.arg
    ELSE \/ r.idx + r.call.arg = k
         \/ r.idx = 0 /\ k < r.call.arg

SkipInv(r) ==
    /\ r.query.c = Header
    /\ \E k \in Indices(Header) : From(k, r.query.needle)
    /\ Bisecting(r) => FindStart(r, r.query.needle)
    /\ r.pc = "skip" => From(r.idx, r.query.needle)
    /\ r.pc \in {"get", "done"} =>
         /\ r.idx < r.count /\ r.count <= chain[Header].n
         /\ \E k \in Indices(Header) : From(k, r.query.needle) /\ SkipTo(r, k)
    /\ r.pc = "done" => r.res = Item(Header, r.idx)

\* journal_file_move_to_entry_by_monotonic_for_data(): the time is on the right
\* side, and no entry to find lies before the offset searched for.
TimeSide(call, p) ==
    IF call.dir = Down THEN Key("time", p) >= call.arg
                       ELSE Key("time", p) <= call.arg

InBoth(call, p) == Linked(call.c, p) /\ Linked(call.boot, p) /\ TimeSide(call, p)

BothInv(r) ==
    LET call == r.call
        q    == r.query
    IN  /\ Bisecting(r) \/ r.pc = "done"
        /\ call.c \in Data /\ call.boot \in Data
        /\ call.seen <= Current /\ (call.seen = Current => writer = Idle)
        /\ q.dir = call.dir
        /\ Bisecting(r) /\ r.pc # "count" =>
             \A p \in 1..call.seen : Linked(q.c, p) =>
                \E i \in Indices(q.c) : i < r.n /\ Item(q.c, i) = p
        /\ Bisecting(r) /\ q.test = "time" =>
             q.c = call.boot /\ q.needle = call.arg /\ r.count = 0
        /\ Bisecting(r) /\ q.test = "offset" =>
             /\ TimeSide(call, q.needle)
             /\ call.dir = Down => \A p \in 1..call.seen :
                                     InBoth(call, p) => q.needle <= p
             /\ IF r.count = 0 THEN q.c = call.c
                ELSE q.c = call.boot /\ q.needle = r.count /\ Linked(call.c, r.count)
        /\ r.pc = "done" =>
             /\ r.res # 0 => InBoth(call, r.res)
             /\ call.dir = Down =>
                  \A p \in 1..call.seen : InBoth(call, p) => r.res # 0 /\ r.res <= p

\* What holds of the function called.
CallInv(r) ==
    /\ r.call.name # "none"
    /\ r.call.name = "seek" => SeekInv(r)
    /\ r.call.name = "next" => NextInv(r)
    /\ r.call.name = "skip" => SkipInv(r)
    /\ r.call.name = "both" => BothInv(r)

ReaderInv(r) ==
    /\ r \in ReaderType
    /\ BisectInv(r)
    /\ r.pc = "idle" => r = IdleReader
    /\ r.pc # "idle" => CallInv(r)

SearchInv == scope \in Scopes /\ IndexInv /\ CacheInv(cache) /\ ReaderInv(reader)

\* The attribute compared ascends with the offset.
LEMMA KeyAscends ==
    ASSUME NEW test, NEW p \in Nat, NEW s \in Nat, p <= s
    PROVE  Key(test, p) \in Nat /\ Key(test, p) <= Key(test, s)
<1>1. CASE test = "offset"
  BY <1>1 DEF Key
<1>2. CASE test # "offset"
  <2>1. (p + 1) \div 2 \in Nat /\ (p + 1) \div 2 <= (s + 1) \div 2
    OBVIOUS
  <2> QED
    BY <1>2, <2>1 DEF Key
<1> QED
  BY <1>1, <1>2

\* What lies behind an entry to the right of the needle is to the right, too.
LEMMA RightAscends ==
    ASSUME NEW q \in QueryType, NEW p \in Nat, NEW s \in Nat, p <= s, IsRight(q, p)
    PROVE  IsRight(q, s)
<1>1. q.needle \in Nat
  BY DEF QueryType
<1>2. Key(q.test, p) \in Nat /\ Key(q.test, s) \in Nat /\ Key(q.test, p) <= Key(q.test, s)
  BY KeyAscends
<1> QED
  BY <1>1, <1>2 DEF IsRight

\* h is the function of the loop that halves a range.
Halves(h, q, items) ==
    \A l, r \in 0..Len(items) :
        LET i == (l + r) \div 2 IN
        h[<<l, r>>] = IF l >= r THEN l
                      ELSE IF IsRight(q, items[i + 1]) THEN h[<<l, i>>]
                                                       ELSE h[<<i + 1, r>>]

\* There is such a function.
LEMMA HalveExists ==
    ASSUME NEW q, NEW items, Len(items) \in Nat
    PROVE  Halves(Halve(q, items), q, items)
<1>m. PICK m \in Nat : m = Len(items)
  OBVIOUS
<1> DEFINE D == (0..m) \X (0..m)
           R(i) == IsRight(q, items[i + 1])
           Mid(w) == (w[1] + w[2]) \div 2
           Sub(w) == IF R(Mid(w)) THEN <<w[1], Mid(w)>> ELSE <<Mid(w) + 1, w[2]>>
           F(x, w) == IF w[1] >= w[2] THEN w[1] ELSE x[Sub(w)]
           S == [D -> 0..m]
           g == [x \in Nat \X S |-> [w \in D |-> F(x[2], w)]]
           one == [w \in D |-> w[1]]
<1>1. ASSUME NEW w \in D, ~(w[1] >= w[2])
      PROVE  /\ Sub(w) \in D
             /\ Sub(w)[2] - Sub(w)[1] < w[2] - w[1]
             /\ w[1] \in 0..m /\ w[2] \in 0..m
             /\ Sub(w)[1] \in 0..m /\ Sub(w)[2] \in 0..m
  <2>1. w[1] \in 0..m /\ w[2] \in 0..m /\ w[1] < w[2]
    BY <1>1
  <2>2. Mid(w) \in 0..m /\ w[1] <= Mid(w) /\ Mid(w) < w[2] /\ Mid(w) + 1 \in 0..m
    BY <2>1
  <2> HIDE DEF Mid, R
  <2>3. CASE R(Mid(w))
    <3>1. Sub(w) = <<w[1], Mid(w)>>
      BY <2>3
    <3> HIDE DEF Sub
    <3>2. Sub(w) \in D /\ Sub(w)[1] = w[1] /\ Sub(w)[2] = Mid(w)
      BY <2>1, <2>2, <3>1
    <3> QED
      BY <2>1, <2>2, <3>2
  <2>4. CASE ~R(Mid(w))
    <3>1. Sub(w) = <<Mid(w) + 1, w[2]>>
      BY <2>4
    <3> HIDE DEF Sub
    <3>2. Sub(w) \in D /\ Sub(w)[1] = Mid(w) + 1 /\ Sub(w)[2] = w[2]
      BY <2>1, <2>2, <3>1
    <3> QED
      BY <2>1, <2>2, <3>2
  <2> QED
    BY <2>3, <2>4
<1>2. one \in S /\ \A w \in D : w[1] \in 0..m /\ w[2] \in 0..m
  OBVIOUS
<1> HIDE DEF Sub
<1>3. ASSUME NEW x \in S PROVE [w \in D |-> F(x, w)] \in S
  <2>1. ASSUME NEW w \in D PROVE F(x, w) \in 0..m
    <3>1. CASE w[1] >= w[2]
      BY <1>2, <3>1
    <3>2. CASE ~(w[1] >= w[2])
      BY <1>1, <3>2
    <3> QED
      BY <3>1, <3>2
  <2> QED
    BY <2>1
<1>4. g \in [Nat \X S -> S]
  <2> HIDE DEF S, F
  <2>1. \A x \in Nat \X S : x[2] \in S
    OBVIOUS
  <2> QED
    BY <1>3, <2>1
<1>5. PICK f : Iterates(f, S, g, one, m + 1)
  <2>1. one \in S
    BY <1>2
  <2>2. m + 1 \in Nat
    OBVIOUS
  <2> HIDE DEF S, g, one
  <2> QED
    BY <1>4, <2>1, <2>2, Iteration
<1>6. /\ f \in [0..(m + 1) -> S] /\ f[0] = one
      /\ \A k \in 1..(m + 1) : f[k] = [w \in D |-> F(f[k - 1], w)]
  <2> HIDE DEF S, one, F
  <2>1. f \in [0..(m + 1) -> S] /\ f[0] = one
    BY <1>5 DEF Iterates
  <2>2. ASSUME NEW k \in 1..(m + 1) PROVE f[k] = [w \in D |-> F(f[k - 1], w)]
    <3>1. k - 1 \in 0..(m + 1) /\ k \in Nat
      OBVIOUS
    <3>2. <<k, f[k - 1]>> \in Nat \X S
      BY <2>1, <3>1
    <3>3. f[k] = g[<<k, f[k - 1]>>]
      BY <1>5 DEF Iterates
    <3> QED
      BY <3>2, <3>3
  <2> QED
    BY <2>1, <2>2
<1>7. \A k \in 0..m : \A w \in D : w[2] - w[1] <= k => f[k][w] = f[k + 1][w]
  <2> DEFINE T == {k \in 0..m : \A w \in D : w[2] - w[1] <= k => f[k][w] = f[k + 1][w]}
  <2>1. 0 \in T
    <3> SUFFICES ASSUME NEW w \in D, w[2] - w[1] <= 0 PROVE f[0][w] = f[0 + 1][w]
      OBVIOUS
    <3>1. w[1] \in 0..m /\ w[2] \in 0..m /\ w[1] >= w[2]
      BY <1>2
    <3>a. 1 \in 1..(m + 1) /\ 1 - 1 = 0
      OBVIOUS
    <3>2. f[1] = [v \in D |-> F(f[0], v)]
      <4> HIDE DEF F, D, S, one
      <4> QED
        BY <1>6, <3>a
    <3>3. f[1][w] = w[1]
      BY <3>1, <3>2
    <3> QED
      BY <1>6, <3>3
  <2>2. ASSUME NEW k \in 1..m, k - 1 \in T PROVE k \in T
    <3> SUFFICES ASSUME NEW w \in D, w[2] - w[1] <= k PROVE f[k][w] = f[k + 1][w]
      OBVIOUS
    <3>1. k \in 1..(m + 1) /\ k + 1 \in 1..(m + 1) /\ (k + 1) - 1 = k
      OBVIOUS
    <3>2. f[k] = [v \in D |-> F(f[k - 1], v)] /\ f[k + 1] = [v \in D |-> F(f[k], v)]
      BY <1>6, <3>1
    <3>3. f[k][w] = F(f[k - 1], w) /\ f[k + 1][w] = F(f[k], w)
      BY <3>2
    <3>4. CASE w[1] >= w[2]
      BY <3>3, <3>4
    <3>5. CASE ~(w[1] >= w[2])
      <4>1. Sub(w) \in D /\ Sub(w)[2] - Sub(w)[1] <= k - 1
        <5>1. /\ Sub(w) \in D /\ Sub(w)[2] - Sub(w)[1] < w[2] - w[1]
              /\ w[1] \in 0..m /\ w[2] \in 0..m
              /\ Sub(w)[1] \in 0..m /\ Sub(w)[2] \in 0..m
          BY <1>1, <3>5
        <5> QED
          BY <5>1
      <4>2. f[k - 1][Sub(w)] = f[(k - 1) + 1][Sub(w)]
        BY <2>2, <4>1
      <4>3. (k - 1) + 1 = k
        OBVIOUS
      <4> QED
        BY <3>3, <3>5, <4>2, <4>3
    <3> QED
      BY <3>4, <3>5
  <2>3. \A k \in 0..m : k \in T
    <3> HIDE DEF T
    <3> QED
      BY <2>1, <2>2, IntervalInduction
  <2> QED
    BY <2>3
<1> DEFINE e == f[m + 1]
<1>8. e = [w \in D |-> F(e, w)]
  <2>1. e = [w \in D |-> F(f[m], w)]
    <3>1. m + 1 \in 1..(m + 1) /\ (m + 1) - 1 = m
      OBVIOUS
    <3> QED
      BY <1>6, <3>1
  <2>2. ASSUME NEW w \in D PROVE F(f[m], w) = F(e, w)
    <3>1. CASE w[1] >= w[2]
      BY <3>1
    <3>2. CASE ~(w[1] >= w[2])
      <4>1. Sub(w) \in D /\ Sub(w)[2] - Sub(w)[1] <= m
        <5>1. /\ Sub(w) \in D
              /\ Sub(w)[1] \in 0..m /\ Sub(w)[2] \in 0..m
          BY <1>1, <3>2
        <5> QED
          BY <5>1
      <4>2. m \in 0..m
        OBVIOUS
      <4>3. f[m][Sub(w)] = f[m + 1][Sub(w)]
        BY <1>7, <4>1, <4>2
      <4> QED
        BY <3>2, <4>3
    <3> QED
      BY <3>1, <3>2
  <2> QED
    BY <2>1, <2>2
<1> DEFINE z == CHOOSE x :
                 x = [w \in (0..Len(items)) \X (0..Len(items)) |->
                        IF w[1] >= w[2] THEN w[1]
                        ELSE LET i == (w[1] + w[2]) \div 2
                             IN  IF IsRight(q, items[i + 1]) THEN x[<<w[1], i>>]
                                                             ELSE x[<<i + 1, w[2]>>]]
<1>a. Halve(q, items) = z
  BY DEF Halve
<1>9. z = [w \in D |-> F(z, w)]
  <2>1. ASSUME NEW x
        PROVE  [w \in D |-> F(x, w)] =
                  [w \in (0..Len(items)) \X (0..Len(items)) |->
                        IF w[1] >= w[2] THEN w[1]
                        ELSE LET i == (w[1] + w[2]) \div 2
                             IN  IF IsRight(q, items[i + 1]) THEN x[<<w[1], i>>]
                                                             ELSE x[<<i + 1, w[2]>>]]
    BY <1>m DEF Sub
  <2>2. e = [w \in (0..Len(items)) \X (0..Len(items)) |->
                        IF w[1] >= w[2] THEN w[1]
                        ELSE LET i == (w[1] + w[2]) \div 2
                             IN  IF IsRight(q, items[i + 1]) THEN e[<<w[1], i>>]
                                                             ELSE e[<<i + 1, w[2]>>]]
    <3> HIDE DEF F, e, D
    <3> QED
      BY <1>8, <2>1
  <2>3. z = [w \in (0..Len(items)) \X (0..Len(items)) |->
                        IF w[1] >= w[2] THEN w[1]
                        ELSE LET i == (w[1] + w[2]) \div 2
                             IN  IF IsRight(q, items[i + 1]) THEN z[<<w[1], i>>]
                                                             ELSE z[<<i + 1, w[2]>>]]
    <3> HIDE DEF e
    <3> QED
      BY <2>2
  <2> HIDE DEF F, D, z
  <2> QED
    BY <2>1, <2>3
<1>10. ASSUME NEW w \in D PROVE z[w] = F(z, w)
  <2> HIDE DEF F, z, D
  <2> QED
    BY <1>9
<1> HIDE DEF z
<1>11. ASSUME NEW l \in 0..m, NEW r \in 0..m
       PROVE  LET i == (l + r) \div 2 IN
              z[<<l, r>>] = IF l >= r THEN l
                            ELSE IF IsRight(q, items[i + 1]) THEN z[<<l, i>>]
                                                             ELSE z[<<i + 1, r>>]
  <2>1. <<l, r>> \in D /\ <<l, r>>[1] = l /\ <<l, r>>[2] = r
    OBVIOUS
  <2>2. z[<<l, r>>] = F(z, <<l, r>>)
    <3> HIDE DEF F, D
    <3> QED
      BY <1>10, <2>1
  <2> QED
    BY <2>1, <2>2 DEF Sub
<1>12. Halves(z, q, items)
  BY <1>m, <1>11 DEF Halves
<1> QED
  BY <1>a, <1>12

\* The loop finds the first item to the right of the needle.
LEMMA HalveFinds ==
    ASSUME NEW q \in QueryType, NEW items \in Seq(Nat), NEW top \in Nat,
           top < Len(items),
           \A i, j \in 0..top :
              i <= j /\ IsRight(q, items[i + 1]) => IsRight(q, items[j + 1]),
           NEW left \in 0..top, NEW right \in 0..top, left <= right,
           IsRight(q, items[right + 1])
    PROVE  LET k == Halve(q, items)[<<left, right>>] IN
           /\ k \in left..right /\ IsRight(q, items[k + 1])
           /\ \A i \in left..right : i < k => ~IsRight(q, items[i + 1])
<1> DEFINE R(i) == IsRight(q, items[i + 1])
           h == Halve(q, items)
           Good(l, r, k) == /\ k \in l..r /\ R(k)
                            /\ \A i \in l..r : i < k => ~R(i)
           T == {n \in Nat : \A l, r \in 0..top :
                    l <= r /\ r - l <= n /\ R(r) => Good(l, r, h[<<l, r>>])}
<1>1. PICK m \in Nat : m = Len(items) /\ top < m
  OBVIOUS
<1>2. ASSUME NEW l \in 0..top, NEW r \in 0..top
      PROVE  /\ l >= r => h[<<l, r>>] = l
             /\ ~(l >= r) => LET i == (l + r) \div 2
                             IN  h[<<l, r>>] = IF R(i) THEN h[<<l, i>>]
                                                       ELSE h[<<i + 1, r>>]
  <2>1. l \in 0..Len(items) /\ r \in 0..Len(items)
    BY <1>1
  <2>2. Halves(h, q, items)
    BY HalveExists
  <2> HIDE DEF h
  <2> QED
    BY <2>1, <2>2 DEF Halves
<1> HIDE DEF h
<1>3. \A i, j \in 0..top : i <= j /\ R(i) => R(j)
  OBVIOUS
<1> HIDE DEF R
<1>4. 0 \in T
  <2> SUFFICES ASSUME NEW l \in 0..top, NEW r \in 0..top, l <= r, r - l <= 0, R(r)
               PROVE  Good(l, r, h[<<l, r>>])
    OBVIOUS
  <2>1. l = r
    OBVIOUS
  <2>2. h[<<l, r>>] = l
    BY <1>2, <2>1
  <2> QED
    BY <2>1, <2>2
<1>5. ASSUME NEW n \in Nat, n \in T PROVE n + 1 \in T
  <2>0. n + 1 \in Nat
    OBVIOUS
  <2> SUFFICES ASSUME NEW l \in 0..top, NEW r \in 0..top, l <= r, r - l <= n + 1, R(r)
               PROVE  Good(l, r, h[<<l, r>>])
    <3> HIDE DEF Good
    <3> QED
      BY <2>0
  <2>1. CASE l = r
    <3>1. h[<<l, r>>] = l
      BY <1>2, <2>1
    <3> QED
      BY <2>1, <3>1
  <2>2. CASE l < r
    <3>1. PICK i \in Nat : i = (l + r) \div 2
      OBVIOUS
    <3>2. l <= i /\ i < r /\ i \in 0..top /\ i + 1 \in 0..top
      BY <2>2, <3>1
    <3>3. h[<<l, r>>] = IF R(i) THEN h[<<l, i>>] ELSE h[<<i + 1, r>>]
      BY <1>2, <2>2, <3>1
    <3>4. CASE R(i)
      <4>1. Good(l, i, h[<<l, i>>])
        <5>1. l <= i /\ i - l <= n
          BY <2>2, <3>2
        <5> HIDE DEF Good
        <5> QED
          BY <1>5, <3>2, <3>4, <5>1
      <4>2. PICK k : k = h[<<l, i>>]
        OBVIOUS
      <4>3. k \in l..i /\ R(k) /\ \A j \in l..i : j < k => ~R(j)
        BY <4>1, <4>2
      <4>4. Good(l, r, k)
        BY <3>2, <4>3
      <4> QED
        BY <3>3, <3>4, <4>2, <4>4
    <3>5. CASE ~R(i)
      <4>1. Good(i + 1, r, h[<<i + 1, r>>])
        <5>1. i + 1 <= r /\ r - (i + 1) <= n
          BY <2>2, <3>2
        <5> HIDE DEF Good
        <5> QED
          BY <1>5, <3>2, <5>1
      <4>2. PICK k : k = h[<<i + 1, r>>]
        OBVIOUS
      <4>3. k \in (i + 1)..r /\ R(k) /\ \A j \in (i + 1)..r : j < k => ~R(j)
        BY <4>1, <4>2
      <4>4. \A j \in l..r : j <= i => ~R(j)
        BY <1>3, <3>2, <3>5
      <4>5. Good(l, r, k)
        <5>1. ASSUME NEW j \in l..r, j < k PROVE ~R(j)
          <6>1. CASE j <= i
            BY <4>4, <6>1
          <6>2. CASE ~(j <= i)
            BY <3>2, <4>3, <5>1, <6>2
          <6> QED
            BY <6>1, <6>2
        <5>2. k \in l..r
          BY <3>2, <4>3
        <5> QED
          BY <4>3, <5>1, <5>2
      <4> QED
        BY <3>3, <3>5, <4>2, <4>5
    <3> QED
      BY <3>4, <3>5
  <2>3. l = r \/ l < r
    OBVIOUS
  <2> HIDE DEF Good
  <2> QED
    BY <2>1, <2>2, <2>3
<1>6. right - left \in Nat /\ right - left \in T
  <2>1. right - left \in Nat
    OBVIOUS
  <2>2. \A n \in Nat : n \in T
    <3> HIDE DEF T
    <3> QED
      BY <1>4, <1>5, Induction
  <2> QED
    BY <2>1, <2>2
<1>7. R(right)
  BY DEF R
<1>8. Good(left, right, h[<<left, right>>])
  <2> HIDE DEF Good
  <2> QED
    BY <1>6, <1>7
<1> QED
  BY <1>8 DEF R, h

\* Looking at the neighbours of the index used last leaves a range that still
\* holds the first item to the right of the needle.
LEMMA NarrowKeeps ==
    ASSUME NEW q \in QueryType, NEW items \in Seq(Nat), NEW top \in Nat,
           top < Len(items),
           \A i, j \in 0..top :
              i <= j /\ IsRight(q, items[i + 1]) => IsRight(q, items[j + 1]),
           NEW last \in Nat \cup {NONE}, last # NONE => last <= top,
           IsRight(q, items[top + 1])
    PROVE  \E left, right \in 0..top :
             /\ Narrow(q, items, last, top) = <<left, right>>
             /\ left <= right /\ IsRight(q, items[right + 1])
             /\ \A i \in 0..top : i < left => ~IsRight(q, items[i + 1])
<1> DEFINE R(i) == IsRight(q, items[i + 1])
           Good(left, right) ==
             /\ left \in 0..top /\ right \in 0..top /\ left <= right /\ R(right)
             /\ \A i \in 0..top : i < left => ~R(i)
<1>1. \A i, j \in 0..top : i <= j /\ R(i) => R(j)
  OBVIOUS
<1>2. R(top)
  OBVIOUS
<1>3. last \in Nat /\ last # 0 => (IsRight(q, items[last]) <=> R(last - 1))
  <2>1. last \in Nat => (last - 1) + 1 = last
    OBVIOUS
  <2> QED
    BY <2>1
<1>4. last \in Nat => (IsRight(q, items[last + 2]) <=> R(last + 1))
  <2>1. last \in Nat => (last + 1) + 1 = last + 2
    OBVIOUS
  <2> QED
    BY <2>1
<1>5. last = NONE \/ (last \in Nat /\ last <= top /\ last # NONE)
  BY DEF NONE
<1> HIDE DEF R
<1> DEFINE x == IF last = NONE \/ last = 0 THEN <<0, top>>
                ELSE IF R(last - 1) THEN <<0, last - 1>> ELSE <<last, top>>
           y == IF last = NONE \/ last >= x[2] THEN x
                ELSE IF R(last + 1) THEN <<x[1], last + 1>> ELSE <<last + 2, x[2]>>
<1>6. Narrow(q, items, last, top) = y
  BY <1>3, <1>4, <1>5 DEF Narrow
<1>7. CASE last = NONE
  <2>1. y = <<0, top>>
    BY <1>7
  <2>2. Good(0, top)
    BY <1>2
  <2> QED
    BY <1>6, <2>1, <2>2 DEF R
<1>8. CASE last \in Nat /\ last <= top /\ last # NONE
  <2>1. CASE last # 0 /\ R(last - 1)
    <3>1. x = <<0, last - 1>> /\ x[2] = last - 1
      BY <1>8, <2>1
    <3>2. y = <<0, last - 1>>
      BY <1>8, <3>1
    <3>3. Good(0, last - 1)
      BY <1>8, <2>1
    <3> QED
      BY <1>6, <3>2, <3>3 DEF R
  <2>2. CASE last = 0 \/ ~R(last - 1)
    <3>1. x = <<last, top>> /\ x[1] = last /\ x[2] = top
      BY <1>8, <2>2
    <3>2. \A i \in 0..top : i < last => ~R(i)
      BY <1>1, <1>8, <2>2
    <3>3. CASE last >= top
      <4>1. y = <<last, top>>
        BY <3>1, <3>3
      <4>2. Good(last, top)
        BY <1>2, <1>8, <3>2, <3>3
      <4> QED
        BY <1>6, <4>1, <4>2 DEF R
    <3>4. CASE last < top /\ R(last + 1)
      <4>1. y = <<last, last + 1>>
        BY <1>8, <3>1, <3>4
      <4>2. Good(last, last + 1)
        BY <1>8, <3>2, <3>4
      <4> QED
        BY <1>6, <4>1, <4>2 DEF R
    <3>5. CASE last < top /\ ~R(last + 1)
      <4>1. y = <<last + 2, top>>
        BY <1>8, <3>1, <3>5
      <4>2. last + 1 # top
        BY <1>2, <3>5
      <4>3. \A i \in 0..top : i < last + 2 => ~R(i)
        BY <1>1, <1>8, <3>5
      <4>4. Good(last + 2, top)
        BY <1>2, <1>8, <3>5, <4>2, <4>3
      <4> QED
        BY <1>6, <4>1, <4>4 DEF R
    <3> QED
      BY <1>8, <3>3, <3>4, <3>5
  <2> QED
    BY <2>1, <2>2
<1> QED
  BY <1>5, <1>7, <1>8

\* What a reader may rely on in a chain: its counted items are entries, and they
\* ascend.
LEMMA ChainFacts ==
    ASSUME IndexInv, NEW c \in Chains
    PROVE  /\ chain[c].n \in Nat
           /\ Plus(c) \in 0..1
           /\ c # Header => Item(c, 0) = chain[c].extra
           /\ \A i \in Nat : i \in Indices(c) <=> i < chain[c].n
           /\ \A i \in Indices(c) : i \in Nat /\ Item(c, i) \in Nat \ {0}
           /\ \A i, j \in Indices(c) : i <= j => Item(c, i) <= Item(c, j)
           /\ c = Header => \A i, j \in Indices(c) : i < j => Item(c, i) < Item(c, j)
<1>1. IndexTypeOK /\ ItemsAreEntries /\ ChainsSorted
  BY DEF IndexInv
<1>2. chain[c].n \in Nat /\ Indices(c) = {i \in Nat : i < chain[c].n}
  BY <1>1, ChainTypes
<1>3. ASSUME NEW i \in Indices(c) PROVE i \in Nat /\ Item(c, i) \in Nat \ {0}
  <2>1. Item(c, i) \in DOMAIN entry /\ entry \in Seq(Seq(Data))
    BY <1>1 DEF ItemsAreEntries, IndexTypeOK
  <2> QED
    BY <1>2, <2>1
<1>4. ASSUME NEW i \in Indices(c), NEW j \in Indices(c), i <= j
      PROVE  Item(c, i) <= Item(c, j) /\ (c = Header /\ i < j => Item(c, i) < Item(c, j))
  <2>0. i \in Nat /\ j \in Nat /\ Item(c, i) \in Nat /\ Item(c, j) \in Nat
    BY <1>3
  <2>1. CASE i = j
    BY <2>0, <2>1
  <2>2. CASE i < j
    BY <1>1, <2>0, <2>2 DEF ChainsSorted
  <2> QED
    BY <1>4, <2>0, <2>1, <2>2
<1>5. Plus(c) \in 0..1 /\ (c # Header => Item(c, 0) = chain[c].extra)
  BY DEF Plus, Item
<1>6. ASSUME NEW i \in Indices(c), NEW j \in Indices(c), i < j, c = Header
      PROVE  Item(c, i) < Item(c, j)
  <2>1. i <= j
    BY <1>3, <1>6
  <2> QED
    BY <1>4, <1>6, <2>1
<1> QED
  BY <1>2, <1>3, <1>4, <1>5, <1>6

\* The items of one array are those of the chain from the array's start.
LEMMA ArrayFacts ==
    ASSUME IndexInv, NEW c \in Chains, NEW a \in DOMAIN chain[c].arrays
    PROVE  LET array == chain[c].arrays[a] IN
           /\ a \in Nat \ {0} /\ Len(chain[c].arrays) \in Nat
           /\ DOMAIN chain[c].arrays = 1..Len(chain[c].arrays)
           /\ array.start \in Nat /\ array.items \in Seq(Nat)
           /\ Len(array.items) \in Nat \ {0}
           /\ End(array) = array.start + Len(array.items)
           /\ \A k \in Nat : k < Len(array.items) =>
                 array.items[k + 1] = Item(c, array.start + k + Plus(c))
<1>1. Shape(chain[c].arrays)
  BY DEF IndexInv, ChainsInShape
<1>2. PICK arrays : arrays = chain[c].arrays
  OBVIOUS
<1>3. /\ arrays[a].start \in Nat /\ arrays[a].items \in Seq(Nat)
      /\ Len(arrays[a].items) \in Nat \ {0}
      /\ End(arrays[a]) = arrays[a].start + Len(arrays[a].items)
      /\ a \in Nat \ {0} /\ Len(arrays) \in Nat /\ DOMAIN arrays = 1..Len(arrays)
  BY <1>1, <1>2, ShapeTypes
<1>4. ASSUME NEW k \in Nat, k < Len(arrays[a].items)
      PROVE  arrays[a].items[k + 1] = Item(c, arrays[a].start + k + Plus(c))
  <2>0. PICK s \in Nat, l \in Nat : s = arrays[a].start /\ l = Len(arrays[a].items)
    BY <1>3
  <2>1. PICK x \in Nat : x = s + k
    OBVIOUS
  <2>a. k < l
    BY <1>4, <2>0
  <2>2. s <= x /\ x < s + l /\ x - s + 1 = k + 1
    BY <2>1, <2>a
  <2>5. End(arrays[a]) = s + l
    BY <1>3, <2>0
  <2>6. Holds(arrays, a, x)
    BY <1>2, <2>0, <2>2, <2>5 DEF Holds
  <2>7. ArrayItem(arrays, x) = arrays[a].items[x - arrays[a].start + 1]
    BY <1>1, <1>2, <1>3, <2>6, ItemOfArray
  <2>3. ArrayItem(arrays, x) = arrays[a].items[k + 1]
    BY <2>0, <2>2, <2>7
  <2>4. Item(c, x + Plus(c)) = ArrayItem(arrays, x)
    <3>1. ~(c # Header /\ x + Plus(c) = 0) /\ ArrayIndex(c, x + Plus(c)) = x
      BY DEF Plus, ArrayIndex
    <3> QED
      BY <1>2, <3>1 DEF Item
  <2> QED
    BY <2>0, <2>1, <2>3, <2>4
<1> QED
  BY <1>2, <1>3, <1>4

\* The counted entries have room in the arrays, which lie end to end.
LEMMA ArraysReach ==
    ASSUME IndexInv, NEW c \in Chains
    PROVE  LET arrays == chain[c].arrays IN
           /\ Len(arrays) \in Nat /\ DOMAIN arrays = 1..Len(arrays)
           /\ arrays # <<>> => 1 \in DOMAIN arrays /\ arrays[1].start = 0
           /\ arrays = <<>> => chain[c].n <= Plus(c)
           /\ arrays # <<>> => chain[c].n <= End(arrays[Len(arrays)]) + Plus(c)
           /\ \A j, k \in DOMAIN arrays : k = j + 1 => arrays[k].start = End(arrays[j])
           /\ \A i \in Nat : i + Plus(c) < chain[c].n =>
                 \E j \in DOMAIN arrays : arrays[j].start <= i /\ i < End(arrays[j])
           /\ \A j, k \in DOMAIN arrays : j < k => End(arrays[j]) <= arrays[k].start
<1>1. PICK arrays : arrays = chain[c].arrays
  OBVIOUS
<1>2. Shape(arrays) /\ Used(c) <= Capacity(arrays) /\ IndexTypeOK
  BY <1>1 DEF IndexInv, ChainsInShape
<1>3. Len(arrays) \in Nat /\ DOMAIN arrays = 1..Len(arrays) /\ Capacity(arrays) \in Nat
      /\ (arrays # <<>> => Len(arrays) >= 1)
  BY <1>2, ShapeTypes
<1>4. PICK n \in Nat : n = chain[c].n
  BY <1>2, ChainTypes
<1>5. n <= Capacity(arrays) + Plus(c)
  BY <1>2, <1>3, <1>4 DEF Used, Plus
<1>6. arrays # <<>> => arrays[1].start = 0 /\ 1 \in DOMAIN arrays
  BY <1>2, <1>3 DEF Shape
<1>7. arrays = <<>> => n <= Plus(c)
  BY <1>4, <1>5 DEF Capacity, Plus
<1>8. arrays # <<>> => n <= End(arrays[Len(arrays)]) + Plus(c)
  BY <1>5 DEF Capacity
<1>9. /\ \A j, k \in DOMAIN arrays : k = j + 1 => arrays[k].start = End(arrays[j])
      /\ \A j, k \in DOMAIN arrays : j < k => End(arrays[j]) <= arrays[k].start
  BY <1>2 DEF Shape
<1>10. ASSUME NEW i \in Nat, i + Plus(c) < n
       PROVE  \E j \in DOMAIN arrays : arrays[j].start <= i /\ i < End(arrays[j])
  <2>1. i < Capacity(arrays)
    BY <1>3, <1>4, <1>5, <1>10 DEF Plus
  <2>2. PICK j \in Nat : Holds(arrays, j, i)
    BY <1>2, <2>1 DEF Shape
  <2> QED
    BY <2>2 DEF Holds
<1> QED
  BY <1>1, <1>3, <1>4, <1>6, <1>7, <1>8, <1>9, <1>10

\* Storing an item leaves every array where it is, with its capacity.
LEMMA StoreKeepsArrays ==
    ASSUME NEW arrays, Shape(arrays), NEW h \in Nat, h <= Capacity(arrays), NEW p \in Nat,
           NEW j \in DOMAIN arrays
    PROVE  LET new == StoreItem(arrays, h, p) IN
           /\ j \in DOMAIN new /\ new[j].start = arrays[j].start
           /\ Len(new[j].items) = Len(arrays[j].items)
<1>1. arrays \in Seq(Array) /\ arrays[j] \in Array /\ arrays[j].items \in Seq(Nat)
      /\ Len(arrays) \in Nat /\ DOMAIN arrays = 1..Len(arrays)
      /\ \A k \in DOMAIN arrays : arrays[k] \in Array
  BY ShapeTypes DEF Shape
<1>2. CASE Room(arrays, h) # {}
  <2> DEFINE m == CHOOSE m \in Room(arrays, h) : \A i \in Room(arrays, h) : m <= i
  <2>1. StoreItem(arrays, h, p) = [arrays EXCEPT ![m].items[h - arrays[m].start + 1] = p]
    BY <1>2 DEF StoreItem
  <2>2. PICK k : k = m
    OBVIOUS
  <2> HIDE DEF m
  <2>3. PICK x : x = h - arrays[k].start + 1
    OBVIOUS
  <2>4. PICK new : new = [arrays EXCEPT ![k].items[x] = p]
    OBVIOUS
  <2>5. StoreItem(arrays, h, p) = new
    BY <2>1, <2>2, <2>3, <2>4
  <2>6. DOMAIN new = DOMAIN arrays
    BY <2>4
  <2>7. CASE j = k
    <3>1. new[j] = [arrays[j] EXCEPT !.items = [arrays[j].items EXCEPT ![x] = p]]
      BY <1>1, <2>4, <2>7
    <3>2. PICK its : its = [arrays[j].items EXCEPT ![x] = p]
      OBVIOUS
    <3>3. DOMAIN its = DOMAIN arrays[j].items
      BY <3>2
    <3>4. DOMAIN its = 1..Len(arrays[j].items) /\ Len(arrays[j].items) \in Nat
      BY <1>1, <3>3
    <3>5. Len(its) = Len(arrays[j].items)
      BY <1>1, <3>2
    <3>6. new[j].start = arrays[j].start /\ new[j].items = its
      BY <1>1, <3>1, <3>2 DEF Array
    <3> QED
      BY <2>5, <2>6, <3>5, <3>6
  <2>8. CASE j # k
    <3>1. new[j] = arrays[j]
      BY <1>1, <2>4, <2>8
    <3> QED
      BY <2>5, <2>6, <3>1
  <2> QED
    BY <2>7, <2>8
<1>3. CASE Room(arrays, h) = {}
  <2>1. PICK x : StoreItem(arrays, h, p) = Append(arrays, x)
    BY <1>3 DEF StoreItem
  <2>2. PICK new : new = Append(arrays, x)
    OBVIOUS
  <2>3. j \in DOMAIN new /\ new[j] = arrays[j]
    BY <1>1, <2>2
  <2> QED
    BY <2>1, <2>2, <2>3
<1> QED
  BY <1>2, <1>3

\* What a step of the writer leaves as it was: the counted items, and the place
\* and capacity of every array.
LEMMA WriterKeeps ==
    ASSUME IndexInv, [WriterNext]_indexVars, NEW c \in Chains
    PROVE  /\ chain[c].n \in Nat /\ chain'[c].n \in Nat /\ chain[c].n <= chain'[c].n
           /\ \A i \in Indices(c) : i \in Indices(c)' /\ Item(c, i)' = Item(c, i)
           /\ \A j \in DOMAIN chain[c].arrays :
                 /\ j \in DOMAIN chain'[c].arrays
                 /\ chain'[c].arrays[j].start = chain[c].arrays[j].start
                 /\ Len(chain'[c].arrays[j].items) = Len(chain[c].arrays[j].items)
                 /\ End(chain'[c].arrays[j]) = End(chain[c].arrays[j])
<1>1. IndexInv' /\ IndexTypeOK /\ IndexTypeOK'
  BY IndexStep DEF IndexInv
<1>2. /\ chain[c].n \in Nat /\ Indices(c) = {i \in Nat : i < chain[c].n}
      /\ chain'[c].n \in Nat /\ Indices(c)' = {i \in Nat : i < chain'[c].n}
  <2>1. chain[c].n \in Nat
    BY <1>1, ChainTypes
  <2>2. chain'[c].n \in Nat
    BY <1>1 DEF IndexTypeOK, Chain
  <2> QED
    BY <2>1, <2>2 DEF Indices
<1> DEFINE Same(j) ==
      /\ j \in DOMAIN chain'[c].arrays
      /\ chain'[c].arrays[j].start = chain[c].arrays[j].start
      /\ Len(chain'[c].arrays[j].items) = Len(chain[c].arrays[j].items)
<1>3. /\ chain[c].n <= chain'[c].n
      /\ \A i \in Indices(c) : Item(c, i)' = Item(c, i)
      /\ \A j \in DOMAIN chain[c].arrays : Same(j)
  <2>1. CASE chain' = chain
    BY <1>2, <2>1 DEF Item, ArrayIndex
  <2>2. CASE StoreEntry
    <3>1. chain'[c].n = chain[c].n /\ \A i \in Indices(c) : Item(c, i)' = Item(c, i)
      BY <2>2, StoreKeepsItems
    <3>2. \A j \in DOMAIN chain[c].arrays : Same(j)
      <4>1. PICK t, p : t = Target /\ p = Current
        OBVIOUS
      <4>2. t \in Chains /\ p \in Nat /\ chain \in [Chains -> Chain]
        BY <1>1, <2>2, <4>1, TargetTypes DEF StoreEntry, IndexTypeOK
      <4>3. chain' = [chain EXCEPT ![t] = Stored(t, p)]
        BY <2>2, <4>1 DEF StoreEntry
      <4>4. CASE c # t
        <5>1. chain'[c] = chain[c]
          BY <4>2, <4>3, <4>4
        <5> QED
          BY <5>1
      <4>5. CASE c = t /\ c # Header /\ chain[c].n = 0
        <5>1. chain'[c] = [chain[c] EXCEPT !.extra = p]
          BY <4>2, <4>3, <4>5 DEF Stored
        <5>2. chain'[c].arrays = chain[c].arrays
          BY <4>2, <5>1 DEF Chain
        <5> QED
          BY <5>2
      <4>6. CASE c = t /\ ~(c # Header /\ chain[c].n = 0)
        <5>1. PICK h : h = ArrayIndex(c, chain[c].n)
          OBVIOUS
        <5>2. h \in Nat /\ h = Used(c)
          BY <1>1, <1>2, <4>6, <5>1, ChainTypes
        <5>3. Shape(chain[c].arrays) /\ h <= Capacity(chain[c].arrays)
          BY <5>2 DEF IndexInv, ChainsInShape
        <5>4. chain'[c] = [chain[c] EXCEPT !.arrays = StoreItem(chain[c].arrays, h, p)]
          BY <4>2, <4>3, <4>6, <5>1 DEF Stored
        <5>5. chain'[c].arrays = StoreItem(chain[c].arrays, h, p)
          BY <4>2, <5>4 DEF Chain
        <5> QED
          BY <4>2, <5>2, <5>3, <5>5, StoreKeepsArrays
      <4> QED
        BY <4>4, <4>5, <4>6
    <3> QED
      BY <1>2, <3>1, <3>2
  <2>3. CASE CountEntry
    <3>1. /\ chain'[c].arrays = chain[c].arrays
          /\ chain'[c].n = chain[c].n + (IF c = Target THEN 1 ELSE 0)
          /\ \A i \in Nat : Item(c, i)' = Item(c, i)
      BY <2>3, CountAddsItem
    <3> QED
      BY <1>2, <3>1
  <2> QED
    BY <2>1, <2>2, <2>3 DEF WriterNext, AppendEntry, StoreFails, indexVars
<1>4. \A i \in Indices(c) : i \in Indices(c)'
  BY <1>2, <1>3
<1> QED
  BY <1>2, <1>3, <1>4 DEF End

\* What the cache says stays true.
LEMMA CacheStays ==
    ASSUME IndexInv, [WriterNext]_indexVars, NEW s, CacheInv(s)
    PROVE  CacheInv(s)'
<1>1. /\ s \in Seq(CacheType) /\ Len(s) <= CHAIN_CACHE_MAX
      /\ \A k \in DOMAIN s : CacheItemOK(s[k])
      /\ \A j, k \in DOMAIN s : s[j].first = s[k].first => j = k
  BY DEF CacheInv
<1>2. ASSUME NEW k \in DOMAIN s PROVE CacheItemOK(s[k])'
  <2>1. PICK ci \in CacheType : ci = s[k] /\ CacheItemOK(ci)
    BY <1>1
  <2>2. PICK c \in Chains, a, t, b \in Nat :
           c = ci.first /\ a = ci.array /\ t = ci.total /\ b = ci.begin
    BY <2>1 DEF CacheType
  <2>3. PICK last : last = ci.last /\ last \in Nat \cup {NONE}
    BY <2>1 DEF CacheType
  <2>4. /\ a \in DOMAIN chain[c].arrays /\ t = chain[c].arrays[a].start
        /\ t + Plus(c) < chain[c].n /\ b = Item(c, t + Plus(c))
        /\ last # NONE => /\ last < Len(chain[c].arrays[a].items)
                          /\ t + last + Plus(c) < chain[c].n
    BY <2>1, <2>2, <2>3 DEF CacheItemOK
  <2>5. Plus(c) \in 0..1 /\ Plus(c)' = Plus(c)
    BY DEF Plus, Header
  <2>6. /\ chain[c].n \in Nat /\ chain'[c].n \in Nat /\ chain[c].n <= chain'[c].n
        /\ \A i \in Indices(c) : i \in Indices(c)' /\ Item(c, i)' = Item(c, i)
        /\ a \in DOMAIN chain'[c].arrays
        /\ chain'[c].arrays[a].start = chain[c].arrays[a].start
        /\ Len(chain'[c].arrays[a].items) = Len(chain[c].arrays[a].items)
    BY <2>4, WriterKeeps
  <2>7. t + Plus(c) \in Indices(c)
    BY <2>4, <2>5, ChainFacts
  <2>8. Item(c, t + Plus(c))' = Item(c, t + Plus(c))
    BY <2>6, <2>7
  <2>9. t + Plus(c) < chain'[c].n
    BY <2>4, <2>5, <2>6
  <2>10. last # NONE => t + last + Plus(c) < chain'[c].n
    BY <2>3, <2>4, <2>5, <2>6
  <2>11. CacheItemOK(ci)'
    BY <2>2, <2>3, <2>4, <2>5, <2>6, <2>8, <2>9, <2>10 DEF CacheItemOK
  <2> QED
    BY <2>1, <2>11
<1> QED
  BY <1>1, <1>2 DEF CacheInv

\* The parts of a reader.
LEMMA ReaderTypes ==
    ASSUME NEW r \in ReaderType
    PROVE  /\ r.n \in Nat /\ r.extra \in Nat /\ r.count \in Nat /\ r.res \in Nat
           /\ r.idx \in Nat /\ r.pc \in {"idle", "count", "head", "begin", "array",
                                         "skip", "get", "done"}
           /\ r.call \in CallType /\ r.query \in QueryType /\ r.at \in LoopType
           /\ r.call.c \in Chains /\ r.call.boot \in Chains /\ r.call.seen \in Nat
           /\ r.call.arg \in Nat /\ r.call.dir \in {Down, Up}
           /\ r.call.test \in {"offset", "time"}
           /\ r.query.c \in Chains /\ r.query.needle \in Nat
           /\ r.query.dir \in {Down, Up} /\ r.query.test \in {"offset", "time"}
           /\ r.at.a \in Nat /\ r.at.n \in Nat /\ r.at.t \in Nat /\ r.at.prev \in Nat
           /\ r.at.last \in Nat \cup {NONE}
<1>1. r.call \in CallType /\ r.query \in QueryType /\ r.at \in LoopType
  BY DEF ReaderType
<1> QED
  BY <1>1 DEF ReaderType, CallType, QueryType, LoopType

\* A bisection in progress does not notice the writer.
LEMMA BisectStays ==
    ASSUME IndexInv, [WriterNext]_indexVars, NEW r \in ReaderType, BisectInv(r),
           cache' = cache \/ r.pc \notin {"head", "begin", "array"}
    PROVE  BisectInv(r)'
<1>1. PICK c \in Chains, n \in Nat, at \in LoopType, q \in QueryType :
         c = r.query.c /\ n = r.n /\ at = r.at /\ q = r.query
  BY ReaderTypes
<1>2. at.a \in Nat /\ at.n \in Nat /\ at.t \in Nat /\ at.last \in Nat \cup {NONE}
  BY <1>1, ReaderTypes
<1>3. Plus(c) \in 0..1 /\ Plus(c)' = Plus(c)
  BY DEF Plus, Header
<1>4. /\ chain[c].n \in Nat /\ chain'[c].n \in Nat /\ chain[c].n <= chain'[c].n
      /\ \A i \in Indices(c) : i \in Indices(c)' /\ Item(c, i)' = Item(c, i)
  BY WriterKeeps
<1>5. ASSUME CounterRead(r), cache' = cache PROVE CounterRead(r)'
  <2>1. n <= chain'[c].n
    BY <1>1, <1>4, <1>5 DEF CounterRead
  <2>2. Cached(c)' = Cached(c)
    BY <1>5 DEF Cached
  <2> QED
    BY <1>1, <1>3, <1>5, <2>1, <2>2 DEF CounterRead
<1>6. ASSUME CounterRead(r), HeadRead(r) PROVE HeadRead(r)'
  <2>1. c # Header /\ n > 0 => r.extra = Item(c, 0)'
    <3> SUFFICES ASSUME c # Header, n > 0 PROVE r.extra = Item(c, 0)'
      OBVIOUS
    <3>1. 0 \in Indices(c)
      BY <1>1, <1>4, <1>6, ChainFacts DEF CounterRead
    <3> QED
      BY <1>1, <1>4, <1>6, <3>1 DEF HeadRead
  <2>2. chain[c].arrays # <<>> => chain'[c].arrays # <<>>
    <3> SUFFICES ASSUME chain[c].arrays # <<>> PROVE chain'[c].arrays # <<>>
      OBVIOUS
    <3>1. 1 \in DOMAIN chain[c].arrays
      BY ArraysReach
    <3>2. 1 \in DOMAIN chain'[c].arrays
      BY <3>1, WriterKeeps
    <3> QED
      BY <3>2
  <2> QED
    BY <1>1, <1>3, <1>6, <2>1, <2>2 DEF HeadRead, Header
<1>7. ASSUME CounterRead(r), InLoop(r) PROVE InLoop(r)'
  <2>1. /\ c # Header => n > 0 /\ r.extra = Item(c, 0)
        /\ at.a \in DOMAIN chain[c].arrays /\ at.t = chain[c].arrays[at.a].start
        /\ at.t + at.n + Plus(c) = n
        /\ at.last # NONE => at.last < at.n /\ at.last < Len(chain[c].arrays[at.a].items)
        /\ \A i \in Indices(c) : i < at.t + Plus(c) => ~IsRight(q, Item(c, i))
        /\ at.t > 0 => \/ at.prev = Item(c, at.t + Plus(c) - 1)
                       \/ at.n > 0 /\ ~IsRight(q, Item(c, at.t + Plus(c)))
    BY <1>1, <1>7 DEF InLoop
  <2>2. n <= chain[c].n
    BY <1>1, <1>7 DEF CounterRead
  <2>3. /\ at.a \in DOMAIN chain'[c].arrays
        /\ chain'[c].arrays[at.a].start = chain[c].arrays[at.a].start
        /\ Len(chain'[c].arrays[at.a].items) = Len(chain[c].arrays[at.a].items)
    BY <2>1, WriterKeeps
  <2>4. c # Header => r.extra = Item(c, 0)'
    <3> SUFFICES ASSUME c # Header PROVE r.extra = Item(c, 0)'
      OBVIOUS
    <3>1. 0 \in Indices(c)
      BY <1>4, <2>1, <2>2, ChainFacts
    <3> QED
      BY <1>4, <2>1, <3>1
  <2>5. ASSUME NEW i \in Indices(c)', i < at.t + Plus(c)
        PROVE  ~IsRight(q, Item(c, i)')
    <3>0. i \in Nat
      BY DEF Indices
    <3>1. i < chain[c].n
      BY <1>2, <1>3, <1>4, <2>1, <2>2, <2>5, <3>0
    <3>2. i \in Indices(c)
      BY <3>0, <3>1, ChainFacts
    <3> QED
      BY <1>4, <2>1, <2>5, <3>2
  <2>6. at.t > 0 => Item(c, at.t + Plus(c) - 1)' = Item(c, at.t + Plus(c) - 1)
    <3> SUFFICES ASSUME at.t > 0
                 PROVE  Item(c, at.t + Plus(c) - 1)' = Item(c, at.t + Plus(c) - 1)
      OBVIOUS
    <3>1. at.t + Plus(c) - 1 \in Nat /\ at.t + Plus(c) - 1 < chain[c].n
      BY <1>2, <1>3, <1>4, <2>1, <2>2
    <3>2. at.t + Plus(c) - 1 \in Indices(c)
      BY <3>1, ChainFacts
    <3> QED
      BY <1>4, <3>2
  <2>7. at.n > 0 => Item(c, at.t + Plus(c))' = Item(c, at.t + Plus(c))
    <3> SUFFICES ASSUME at.n > 0
                 PROVE  Item(c, at.t + Plus(c))' = Item(c, at.t + Plus(c))
      OBVIOUS
    <3>1. at.t + Plus(c) \in Nat /\ at.t + Plus(c) < chain[c].n
      BY <1>2, <1>3, <1>4, <2>1, <2>2
    <3>2. at.t + Plus(c) \in Indices(c)
      BY <3>1, ChainFacts
    <3> QED
      BY <1>4, <3>2
  <2>8. at.t > 0 => \/ at.prev = Item(c, at.t + Plus(c) - 1)'
                    \/ at.n > 0 /\ ~IsRight(q, Item(c, at.t + Plus(c))')
    BY <2>1, <2>6, <2>7
  <2> HIDE DEF InLoop
  <2>9. \A i \in Indices(c)' : i < at.t + Plus(c) => ~IsRight(q, Item(c, i))'
    BY <2>5 DEF IsRight, Key
  <2>10. at.t > 0 => \/ at.prev = Item(c, at.t + Plus(c) - 1)'
                     \/ at.n > 0 /\ ~IsRight(q, Item(c, at.t + Plus(c)))'
    BY <2>8 DEF IsRight, Key
  <2> QED
    BY <1>1, <1>3, <2>1, <2>3, <2>4, <2>9, <2>10 DEF InLoop, Header
<1> QED
  BY <1>5, <1>6, <1>7 DEF BisectInv, NONE

\* An answer stays right while the chain grows.
LEMMA AnswerStays ==
    ASSUME IndexInv, [WriterNext]_indexVars, NEW q \in QueryType, NEW n \in Nat,
           NEW p \in Nat, NEW i \in Nat, n <= chain[q.c].n, Answer(q, n, p, i)
    PROVE  n <= chain'[q.c].n /\ Answer(q, n, p, i)'
<1>1. PICK c \in Chains : c = q.c
  BY DEF QueryType
<1>2. /\ chain[c].n \in Nat /\ chain'[c].n \in Nat /\ chain[c].n <= chain'[c].n
      /\ \A j \in Indices(c) : j \in Indices(c)' /\ Item(c, j)' = Item(c, j)
  BY WriterKeeps
<1>3. \A j \in Nat : j < n => j \in Indices(c)
  BY <1>1, <1>2, ChainFacts
<1>4. Full(q, n) => Full(q, n)'
  <2> SUFFICES ASSUME Full(q, n) PROVE Full(q, n)'
    OBVIOUS
  <2>1. q.dir = Up /\ n > 0 /\ Side(q, Item(c, n - 1))
    BY <1>1 DEF Full
  <2>2. n - 1 \in Nat /\ n - 1 < n
    BY <2>1
  <2>3. Item(c, n - 1)' = Item(c, n - 1)
    BY <1>2, <1>3, <2>2
  <2>4. PICK j \in DOMAIN chain[c].arrays : End(chain[c].arrays[j]) = ArrayIndex(c, n)
    BY <1>1 DEF Full
  <2>5. j \in DOMAIN chain'[c].arrays /\ End(chain'[c].arrays[j]) = End(chain[c].arrays[j])
    BY WriterKeeps
  <2>6. Side(q, Item(c, n - 1))'
    BY <2>1, <2>3 DEF Side, IsRight, Key, Down
  <2>7. End(chain[c].arrays[j])' = ArrayIndex(c, n)'
    BY <2>4, <2>5 DEF ArrayIndex, Header, End
  <2> QED
    BY <1>1, <2>1, <2>5, <2>6, <2>7 DEF Full, Up
<1>5. p # 0 => i < n /\ p = Item(c, i)' /\ Side(q, p)'
  <2> SUFFICES ASSUME p # 0 PROVE i < n /\ p = Item(c, i)' /\ Side(q, p)'
    OBVIOUS
  <2>1. i < n /\ p = Item(c, i) /\ Side(q, p)
    BY <1>1 DEF Answer
  <2> QED
    BY <1>2, <1>3, <2>1 DEF Side, IsRight, Key, Down
<1>6. ASSUME ~Full(q, n)', NEW j \in Indices(c)', j < n, Side(q, Item(c, j))'
      PROVE  p # 0 /\ IF q.dir = Down THEN i <= j ELSE j <= i
  <2>1. ~Full(q, n)
    BY <1>4, <1>6
  <2>2. j \in Nat
    BY DEF Indices
  <2>3. j \in Indices(c) /\ Item(c, j)' = Item(c, j)
    BY <1>2, <1>3, <1>6, <2>2
  <2>4. Side(q, Item(c, j))
    BY <1>6, <2>3 DEF Side, IsRight, Key, Down
  <2> QED
    BY <1>1, <1>6, <2>1, <2>3, <2>4 DEF Answer
<1> QED
  BY <1>1, <1>2, <1>5, <1>6 DEF Answer, Down

\* An entry of the main chain keeps its index.
LEMMA FromStays ==
    ASSUME IndexInv, [WriterNext]_indexVars, NEW i, NEW p, From(i, p)
    PROVE  From(i, p)'
<1>1. Header \in Chains /\ Header' = Header
  BY DEF Chains, Header
<1>2. \A j \in Indices(Header) : j \in Indices(Header)' /\ Item(Header, j)' = Item(Header, j)
  BY <1>1, WriterKeeps
<1> QED
  BY <1>2 DEF From

\* The position that a seek, a step or a skip works on does not change.
LEMMA SeekStays ==
    ASSUME IndexInv, [WriterNext]_indexVars, NEW r \in ReaderType, SeekInv(r)
    PROVE  SeekInv(r)'
<1>1. r.query \in QueryType /\ r.n \in Nat /\ r.res \in Nat /\ r.idx \in Nat
  BY ReaderTypes
<1>2. r.pc = "done" => r.n <= chain'[r.query.c].n /\ Answer(r.query, r.n, r.res, r.idx)'
  BY <1>1, AnswerStays DEF SeekInv
<1> QED
  BY <1>2 DEF SeekInv, Bisecting

\* The entry that a step starts from stays among those counted.
LEMMA FindStartStays ==
    ASSUME IndexInv, [WriterNext]_indexVars, NEW r \in ReaderType, NEW p, FindStart(r, p)
    PROVE  FindStart(r, p)'
<1>1. PICK i \in Indices(Header) : From(i, p) /\ i < Counted(r)
  BY DEF FindStart
<1>2. Header \in Chains /\ r.query.c = Header
  BY DEF Chains, FindStart
<1>3. From(i, p)' /\ i \in Indices(Header)'
  BY <1>1, <1>2, FromStays, WriterKeeps
<1>4. /\ chain[Header].n \in Nat /\ chain'[Header].n \in Nat
      /\ chain[Header].n <= chain'[Header].n /\ i \in Nat /\ r.n \in Nat
  BY <1>1, <1>2, WriterKeeps, ChainFacts, ReaderTypes
<1>5. i < Counted(r)'
  BY <1>1, <1>2, <1>4 DEF Counted
<1> QED
  BY <1>3, <1>5 DEF FindStart, Header, Down

\* Where a step goes to does not change while entries are appended.
LEMMA NextIndexStays ==
    ASSUME IndexInv, [WriterNext]_indexVars, NEW r \in ReaderType, NEW i
    PROVE  /\ NextIndex(r, i) => NextIndex(r, i)'
           /\ (r.call.arg # 0 => \E k \in Indices(Header) : From(k, r.call.arg)) =>
                (NextIndex(r, i)' => NextIndex(r, i))
<1>1. Header \in Chains /\ Header' = Header
  BY DEF Chains, Header
<1>2. \A k \in Indices(Header) : k \in Indices(Header)'
  BY <1>1, WriterKeeps
<1>3. NextIndex(r, i) => NextIndex(r, i)'
  BY <1>2, FromStays DEF NextIndex, Down
<1>4. ASSUME r.call.arg # 0 => \E k \in Indices(Header) : From(k, r.call.arg),
             NextIndex(r, i)'
      PROVE  NextIndex(r, i)
  <2>1. CASE r.call.arg = 0
    BY <1>4, <2>1 DEF NextIndex, Down
  <2>2. CASE r.call.arg # 0
    <3>1. PICK k \in Indices(Header) : From(k, r.call.arg)
      BY <1>4, <2>2
    <3>2. PICK m \in Indices(Header)' : From(m, r.call.arg)'
             /\ IF r.call.dir = Down THEN i = m + 1 ELSE i = m - 1
      BY <1>4, <2>2 DEF NextIndex, Down
    <3>3. From(k, r.call.arg)' /\ k \in Indices(Header)'
      BY <1>2, <3>1, FromStays
    <3>4. m = k
      <4>1. IndexInv'
        BY IndexStep
      <4>2. ChainsSorted' /\ IndexTypeOK'
        BY <4>1 DEF IndexInv
      <4>3. \A x, y \in Indices(Header)' : x < y => Item(Header, x)' < Item(Header, y)'
        BY <1>1, <4>2 DEF ChainsSorted
      <4>4. ItemsAreEntries'
        BY <4>1 DEF IndexInv
      <4>5. \A x \in Indices(Header)' : x \in Nat /\ Item(Header, x)' \in Nat
        <5> SUFFICES ASSUME NEW x \in Indices(Header)' PROVE x \in Nat /\ Item(Header, x)' \in Nat
          OBVIOUS
        <5>1. Item(Header, x)' \in DOMAIN entry' /\ entry' \in Seq(Seq(Data))
          BY <1>1, <4>2, <4>4 DEF ItemsAreEntries, IndexTypeOK
        <5> QED
          BY <5>1 DEF Indices
      <4>6. Item(Header, m)' = Item(Header, k)'
        BY <3>2, <3>3 DEF From
      <4>7. m \in Nat /\ k \in Nat /\ Item(Header, m)' \in Nat /\ Item(Header, k)' \in Nat
        BY <3>2, <3>3, <4>5
      <4>8. ~(m < k) /\ ~(k < m)
        BY <3>2, <3>3, <4>3, <4>6, <4>7
      <4> QED
        BY <4>7, <4>8
    <3> QED
      BY <2>2, <3>1, <3>2, <3>4 DEF NextIndex
  <2> QED
    BY <2>1, <2>2
<1> QED
  BY <1>3, <1>4

\* What is known of a step to a neighbour stays true while entries are appended.
LEMMA NextStays ==
    ASSUME IndexInv, [WriterNext]_indexVars, NEW r \in ReaderType, NextInv(r)
    PROVE  NextInv(r)'
<1>1. PICK c \in Chains, count \in Nat : c = r.call.c /\ count = r.count
  BY ReaderTypes
<1>2. /\ r.pc # "skip" /\ r.query.c = c /\ count <= chain[c].n
      /\ r.call.arg # 0 => c = Header /\ \E i \in Indices(Header) :
                                           From(i, r.call.arg) /\ i < count
      /\ Bisecting(r) => r.call.arg # 0 /\ FindStart(r, r.call.arg)
      /\ r.pc = "get" => r.idx < count /\ NextIndex(r, r.idx)
      /\ r.pc = "done" =>
           \/ r.res = 0 /\ \A i \in Indices(c) : i < count => ~NextIndex(r, i)
           \/ r.idx < count /\ NextIndex(r, r.idx) /\ r.res = Item(c, r.idx)
  BY <1>1 DEF NextInv
<1>3. /\ chain[c].n \in Nat /\ chain'[c].n \in Nat /\ chain[c].n <= chain'[c].n
      /\ \A i \in Indices(c) : i \in Indices(c)' /\ Item(c, i)' = Item(c, i)
      /\ r.idx \in Nat
      /\ \A i \in Nat : i < count => i \in Indices(c)
  BY <1>2, WriterKeeps, ReaderTypes, ChainFacts
<1>4. count <= chain'[c].n
  BY <1>2, <1>3
<1>5. r.call.arg # 0 => c = Header /\ \E i \in Indices(Header)' :
                                        From(i, r.call.arg)' /\ i < count
  BY <1>2, <1>3, FromStays
<1>6. Bisecting(r) => r.call.arg # 0 /\ FindStart(r, r.call.arg)'
  BY <1>2, FindStartStays
<1>7. r.pc = "get" => r.idx < count /\ NextIndex(r, r.idx)'
  BY <1>2, NextIndexStays
<1>8. ASSUME r.pc = "done", r.res = 0, \A i \in Indices(c) : i < count => ~NextIndex(r, i),
             NEW i \in Indices(c)', i < count
      PROVE  ~NextIndex(r, i)'
  <2>1. i \in Nat
    BY DEF Indices
  <2>2. i \in Indices(c)
    BY <1>3, <1>8, <2>1
  <2>3. r.call.arg # 0 => \E k \in Indices(Header) : From(k, r.call.arg)
    BY <1>2
  <2> QED
    BY <1>8, <2>2, <2>3, NextIndexStays
<1>9. ASSUME r.idx < count, NextIndex(r, r.idx), r.res = Item(c, r.idx)
      PROVE  NextIndex(r, r.idx)' /\ r.res = Item(c, r.idx)'
  BY <1>3, <1>9, NextIndexStays
<1>10. r.pc = "done" =>
           \/ r.res = 0 /\ \A i \in Indices(c)' : i < count => ~NextIndex(r, i)'
           \/ r.idx < count /\ NextIndex(r, r.idx)' /\ r.res = Item(c, r.idx)'
  BY <1>2, <1>8, <1>9
<1> QED
  BY <1>1, <1>2, <1>4, <1>5, <1>6, <1>7, <1>10 DEF NextInv, Bisecting, Header

\* So does what is known of a step over several entries.
LEMMA SkipStays ==
    ASSUME IndexInv, [WriterNext]_indexVars, NEW r \in ReaderType, SkipInv(r)
    PROVE  SkipInv(r)'
<1>1. /\ Header \in Chains /\ Header' = Header /\ r.idx \in Nat /\ r.count \in Nat
  BY ReaderTypes DEF Chains, Header
<1>2. /\ chain[Header].n \in Nat /\ chain'[Header].n \in Nat
      /\ chain[Header].n <= chain'[Header].n
      /\ \A i \in Indices(Header) : i \in Indices(Header)' /\ Item(Header, i)' = Item(Header, i)
      /\ \A i \in Nat : i < chain[Header].n => i \in Indices(Header)
  BY <1>1, WriterKeeps, ChainFacts
<1>3. /\ r.query.c = Header
      /\ \E k \in Indices(Header) : From(k, r.query.needle)
      /\ Bisecting(r) => FindStart(r, r.query.needle)
      /\ r.pc = "skip" => From(r.idx, r.query.needle)
      /\ r.pc \in {"get", "done"} =>
           /\ r.idx < r.count /\ r.count <= chain[Header].n
           /\ \E k \in Indices(Header) : From(k, r.query.needle) /\ SkipTo(r, k)
      /\ r.pc = "done" => r.res = Item(Header, r.idx)
  BY DEF SkipInv
<1>4. \E k \in Indices(Header)' : From(k, r.query.needle)'
  BY <1>2, <1>3, FromStays
<1>5. Bisecting(r) => FindStart(r, r.query.needle)'
  BY <1>3, FindStartStays
<1>6. r.pc = "skip" => From(r.idx, r.query.needle)'
  BY <1>3, FromStays
<1>7. r.pc \in {"get", "done"} =>
           /\ r.idx < r.count /\ r.count <= chain'[Header].n
           /\ \E k \in Indices(Header)' : From(k, r.query.needle)' /\ SkipTo(r, k)'
  <2> SUFFICES ASSUME r.pc \in {"get", "done"}
               PROVE  /\ r.idx < r.count /\ r.count <= chain'[Header].n
                      /\ \E k \in Indices(Header)' : From(k, r.query.needle)' /\ SkipTo(r, k)'
    OBVIOUS
  <2>1. PICK k \in Indices(Header) : From(k, r.query.needle) /\ SkipTo(r, k)
    BY <1>3
  <2>2. k \in Indices(Header)' /\ From(k, r.query.needle)'
    BY <1>2, <2>1, FromStays
  <2>3. SkipTo(r, k)'
    BY <2>1 DEF SkipTo, Down
  <2>4. r.idx < r.count /\ r.count <= chain'[Header].n
    BY <1>1, <1>2, <1>3
  <2> QED
    BY <2>2, <2>3, <2>4
<1>8. r.pc = "done" => r.res = Item(Header, r.idx)'
  <2> SUFFICES ASSUME r.pc = "done" PROVE r.res = Item(Header, r.idx)'
    OBVIOUS
  <2>1. r.idx < chain[Header].n
    BY <1>1, <1>2, <1>3
  <2> QED
    BY <1>1, <1>2, <1>3, <2>1
<1> QED
  BY <1>1, <1>3, <1>4, <1>5, <1>6, <1>7, <1>8 DEF SkipInv, Bisecting

\* An entry whose linking is over is linked into no further chain.
LEMMA NoneLinkedLate ==
    ASSUME IndexInv, [WriterNext]_indexVars, NEW c \in Chains, NEW seen \in Nat,
           seen <= Current, seen = Current => writer = Idle
    PROVE  /\ seen <= Current' /\ (seen = Current' => writer' = Idle)
           /\ \A p \in 1..seen : Linked(c, p)' <=> Linked(c, p)
<1>1. IndexTypeOK /\ Current \in Nat /\ entry \in Seq(Seq(Data))
  BY DEF IndexInv, IndexTypeOK, Current
<1>2. ASSUME NEW p, Linked(c, p) PROVE Linked(c, p)'
  BY <1>2, LinkedStays
<1>3. CASE UNCHANGED indexVars
  BY <1>3 DEF indexVars, Current, Linked, Indices, Item, ArrayIndex
<1>4. ASSUME NEW items \in Items, AppendEntry(items)
      PROVE  /\ seen <= Current' /\ (seen = Current' => writer' = Idle)
             /\ \A p \in 1..seen : Linked(c, p)' <=> Linked(c, p)
  <2>1. Current' = Current + 1 /\ chain' = chain
    BY <1>1, <1>4 DEF AppendEntry, Current
  <2> QED
    BY <1>1, <2>1 DEF Linked, Indices, Item, ArrayIndex
<1>5. CASE StoreFails
  BY <1>5 DEF StoreFails, Current, Linked, Indices, Item, ArrayIndex, Idle
<1>6. CASE StoreEntry
  <2>1. /\ chain'[c].n = chain[c].n
        /\ \A i \in Indices(c) : Item(c, i)' = Item(c, i)
    BY <1>6, StoreKeepsItems
  <2>2. Indices(c)' = Indices(c)
    BY <2>1 DEF Indices
  <2>3. Current' = Current /\ writer # Idle
    BY <1>6 DEF StoreEntry, Current, Idle
  <2> QED
    BY <2>1, <2>2, <2>3 DEF Linked
<1>7. CASE CountEntry
  <2>1. Current' = Current /\ writer.pc = "count" /\ writer # Idle
    BY <1>7 DEF CountEntry, Current, Idle
  <2>2. seen < Current
    BY <1>1, <2>1
  <2>3. /\ Indices(c)' = Indices(c) \cup (IF c = Target THEN {chain[c].n} ELSE {})
        /\ \A i \in Nat : Item(c, i)' = Item(c, i)
        /\ Item(Target, chain[Target].n) = Current
    BY <1>7, CountAddsItem
  <2>4. chain[c].n \in Nat /\ Indices(c) \subseteq Nat
    BY ChainFacts
  <2>5. ASSUME NEW p \in 1..seen, Linked(c, p)' PROVE Linked(c, p)
    <3>1. PICK i \in Indices(c)' : Item(c, i)' = p
      BY <2>5 DEF Linked
    <3>2. i \in Indices(c) \/ (c = Target /\ i = chain[c].n)
      BY <2>3, <3>1
    <3>3. i \in Nat /\ Item(c, i) = p
      BY <2>3, <2>4, <3>1, <3>2
    <3>4. p # Current
      BY <1>1, <2>2
    <3>5. i \in Indices(c)
      BY <2>3, <3>2, <3>3, <3>4
    <3> QED
      BY <3>3, <3>5 DEF Linked
  <2> QED
    BY <1>2, <2>1, <2>2, <2>5
<1> QED
  BY <1>3, <1>4, <1>5, <1>6, <1>7 DEF WriterNext

\* The seek in two chains goes on as before, too.
LEMMA BothStays ==
    ASSUME IndexInv, [WriterNext]_indexVars, NEW r \in ReaderType, BothInv(r)
    PROVE  BothInv(r)'
<1>1. PICK call \in CallType, q \in QueryType : call = r.call /\ q = r.query
  BY ReaderTypes
<1>2. /\ Bisecting(r) \/ r.pc = "done"
      /\ call.c \in Data /\ call.boot \in Data
      /\ call.seen <= Current /\ (call.seen = Current => writer = Idle)
      /\ q.dir = call.dir
      /\ Bisecting(r) /\ r.pc # "count" =>
           \A p \in 1..call.seen : Linked(q.c, p) =>
              \E i \in Indices(q.c) : i < r.n /\ Item(q.c, i) = p
      /\ Bisecting(r) /\ q.test = "time" =>
           q.c = call.boot /\ q.needle = call.arg /\ r.count = 0
      /\ Bisecting(r) /\ q.test = "offset" =>
           /\ TimeSide(call, q.needle)
           /\ call.dir = Down => \A p \in 1..call.seen :
                                   InBoth(call, p) => q.needle <= p
           /\ IF r.count = 0 THEN q.c = call.c
              ELSE q.c = call.boot /\ q.needle = r.count /\ Linked(call.c, r.count)
      /\ r.pc = "done" =>
           /\ r.res # 0 => InBoth(call, r.res)
           /\ call.dir = Down =>
                \A p \in 1..call.seen : InBoth(call, p) => r.res # 0 /\ r.res <= p
  BY <1>1 DEF BothInv
<1>3. /\ call.c \in Chains /\ call.boot \in Chains /\ q.c \in Chains /\ call.seen \in Nat
  BY <1>1, ReaderTypes
<1>4. call.seen <= Current' /\ (call.seen = Current' => writer' = Idle)
  BY <1>2, <1>3, NoneLinkedLate
<1>5. \A c \in Chains : \A p \in 1..call.seen : Linked(c, p)' <=> Linked(c, p)
  BY <1>2, <1>3, NoneLinkedLate
<1>6. \A c \in Chains : \A p : Linked(c, p) => Linked(c, p)'
  BY LinkedStays
<1>7. \A p : TimeSide(call, p)' <=> TimeSide(call, p)
  BY DEF TimeSide, Down, Key
<1>8. \A p \in 1..call.seen : InBoth(call, p)' <=> InBoth(call, p)
  BY <1>3, <1>5, <1>7 DEF InBoth
<1>9. \A p : InBoth(call, p) => InBoth(call, p)'
  BY <1>3, <1>6, <1>7 DEF InBoth
<1>10. \A i \in Indices(q.c) : i \in Indices(q.c)' /\ Item(q.c, i)' = Item(q.c, i)
  BY <1>3, WriterKeeps
<1>11. Bisecting(r) /\ r.pc # "count" =>
           \A p \in 1..call.seen : Linked(q.c, p)' =>
              \E i \in Indices(q.c)' : i < r.n /\ Item(q.c, i)' = p
  BY <1>2, <1>3, <1>5, <1>10
<1>12. Bisecting(r)' <=> Bisecting(r)
  BY DEF Bisecting
<1>13. Bisecting(r) /\ q.test = "offset" =>
           /\ TimeSide(call, q.needle)'
           /\ call.dir = Down => \A p \in 1..call.seen :
                                   InBoth(call, p)' => q.needle <= p
           /\ IF r.count = 0 THEN q.c = call.c
              ELSE q.c = call.boot /\ q.needle = r.count /\ Linked(call.c, r.count)'
  BY <1>2, <1>3, <1>6, <1>7, <1>8
<1>14. r.pc = "done" =>
           /\ r.res # 0 => InBoth(call, r.res)'
           /\ call.dir = Down =>
                \A p \in 1..call.seen : InBoth(call, p)' => r.res # 0 /\ r.res <= p
  BY <1>2, <1>8, <1>9
<1> QED
  BY <1>1, <1>2, <1>4, <1>11, <1>12, <1>13, <1>14 DEF BothInv, Down, Idle

\* A step of the writer keeps the invariant of the reader.
LEMMA ReaderStays ==
    ASSUME IndexInv, [WriterNext]_indexVars, NEW r, ReaderInv(r),
           cache' = cache \/ r.pc \notin {"head", "begin", "array"}
    PROVE  ReaderInv(r)'
<1>1. /\ r \in ReaderType /\ BisectInv(r)
      /\ r.pc = "idle" => r = IdleReader
      /\ r.pc # "idle" => CallInv(r)
  BY DEF ReaderInv
<1>2. r \in ReaderType'
  BY <1>1 DEF ReaderType, CallType, QueryType, LoopType, Chains, Header, Down, Up, NONE
<1>3. BisectInv(r)'
  BY <1>1, BisectStays
<1>4. r.pc = "idle" => r = IdleReader'
  BY <1>1 DEF IdleReader, NoCall, NoQuery, NoLoop, Header, Down, NONE
<1>5. r.pc # "idle" => CallInv(r)'
  BY <1>1, SeekStays, NextStays, SkipStays, BothStays DEF CallInv
<1> QED
  BY <1>1, <1>2, <1>3, <1>4, <1>5 DEF ReaderInv

\* How the functions of the model change the reader's record.
LEMMA ReturnParts ==
    ASSUME NEW r \in ReaderType, NEW p \in Nat, NEW i \in Nat
    PROVE  LET s == Return(r, p, i) IN
           /\ s \in ReaderType /\ s.pc = "done" /\ s.res = p /\ s.idx = i
           /\ s.call = r.call /\ s.query = r.query /\ s.n = r.n /\ s.count = r.count
BY DEF Return, ReaderType

\* The reader when it returns nothing.
LEMMA NothingParts ==
    ASSUME NEW r \in ReaderType
    PROVE  LET s == Nothing(r) IN
           /\ s \in ReaderType /\ s.pc = "done" /\ s.res = 0 /\ s.idx = 0
           /\ s.call = r.call /\ s.query = r.query /\ s.n = r.n /\ s.count = r.count
BY DEF Nothing, Return, ReaderType

\* The reader that is about to read an entry by its index.
LEMMA GetParts ==
    ASSUME NEW r \in ReaderType, NEW i \in Nat
    PROVE  LET s == Get(r, i) IN
           /\ s \in ReaderType /\ s.pc = "get" /\ s.idx = i
           /\ s.call = r.call /\ s.query = r.query /\ s.n = r.n /\ s.count = r.count
BY DEF Get, ReaderType

\* The reader that starts a bisection.
LEMMA BisectParts ==
    ASSUME NEW r \in ReaderType, NEW c, NEW test, NEW needle, NEW dir, NEW q \in QueryType,
           q = [c |-> c, test |-> test, needle |-> needle, dir |-> dir],
           NEW s, s = Bisect(r, c, test, needle, dir)
    PROVE  /\ s \in ReaderType /\ s.pc = "count" /\ s.call = r.call /\ s.count = r.count
           /\ s.n = r.n /\ s.query = q /\ s.at.t = 0 /\ s.at.last = NONE
<1>1. NoLoop \in LoopType /\ NoLoop.t = 0 /\ NoLoop.last = NONE
  BY DEF NoLoop, LoopType
<1>2. ArgumentOrder[1] = "count"
  BY DEF ArgumentOrder
<1>3. s = [r EXCEPT !.pc = "count", !.at = NoLoop, !.query = q]
  BY <1>2 DEF Bisect
<1> QED
  BY <1>1, <1>3 DEF ReaderType

\* The reader with another saved count.
LEMMA CountParts ==
    ASSUME NEW r \in ReaderType, NEW k \in Nat, NEW t, t = [r EXCEPT !.count = k]
    PROVE  /\ t \in ReaderType /\ t.pc = r.pc /\ t.call = r.call /\ t.query = r.query
           /\ t.n = r.n /\ t.count = k /\ t.idx = r.idx
BY DEF ReaderType

\* The function called knows nothing of the loop of a bisection.
LEMMA CallSame ==
    ASSUME NEW r \in ReaderType, NEW s \in ReaderType, CallInv(r),
           r.pc \in {"head", "begin", "array"}, s.pc \in {"head", "begin", "array"},
           s.call = r.call, s.query = r.query, s.n = r.n, s.count = r.count
    PROVE  CallInv(s)
<1>1. Bisecting(r) /\ Bisecting(s) /\ Counted(r) = r.n /\ Counted(s) = r.n
  BY DEF Bisecting, Counted
<1>2. SeekInv(r) => SeekInv(s)
  BY <1>1 DEF SeekInv
<1>3. \A p : FindStart(r, p) => FindStart(s, p)
  BY <1>1 DEF FindStart
<1>4. NextInv(r) => NextInv(s)
  BY <1>1, <1>3 DEF NextInv
<1>5. SkipInv(r) => SkipInv(s)
  BY <1>1, <1>3 DEF SkipInv
<1>6. BothInv(r) => BothInv(s)
  BY <1>1 DEF BothInv
<1> QED
  BY <1>2, <1>4, <1>5, <1>6 DEF CallInv

\* The search for an entry of the main chain finds it.
LEMMA AnswerIsStart ==
    ASSUME IndexInv, NEW q, NEW n \in Nat, NEW p \in Nat, NEW i \in Nat, NEW needle \in Nat,
           q = [c |-> Header, test |-> "offset", needle |-> needle, dir |-> Down],
           n <= chain[Header].n, Answer(q, n, p, i), NEW k, From(k, needle), k < n
    PROVE  p # 0 /\ i = k
<1>1. Header \in Chains
  BY DEF Chains
<1>2. /\ k \in Indices(Header) /\ Item(Header, k) = needle /\ k \in Nat
      /\ chain[Header].n \in Nat
  BY <1>1, ChainFacts DEF From
<1>3. q.c = Header /\ q.dir = Down /\ q.test = "offset" /\ q.needle = needle
  OBVIOUS
<1>4. \A x : Side(q, x) <=> x >= needle
  BY <1>3 DEF Side, IsRight, Key
<1>5. ~Full(q, n)
  BY <1>3 DEF Full, Down, Up
<1>6. p # 0 /\ i <= k
  BY <1>2, <1>3, <1>4, <1>5 DEF Answer
<1>7. i < n /\ p = Item(Header, i) /\ p >= needle
  BY <1>3, <1>4, <1>6 DEF Answer
<1>8. i \in Indices(Header)
  BY <1>1, <1>2, <1>7, ChainFacts
<1>9. ~(i < k)
  <2> SUFFICES ASSUME i < k PROVE FALSE
    OBVIOUS
  <2>1. Item(Header, i) < Item(Header, k)
    BY <1>1, <1>2, <1>8, ChainFacts
  <2> QED
    BY <1>2, <1>7, <2>1
<1> QED
  BY <1>2, <1>6, <1>9

\* An entry has one index in the main chain.
LEMMA FromIsUnique ==
    ASSUME IndexInv, NEW i, NEW k, NEW p, From(i, p), From(k, p)
    PROVE  i = k /\ i \in Nat
<1>1. Header \in Chains
  BY DEF Chains
<1>2. /\ i \in Indices(Header) /\ k \in Indices(Header)
      /\ Item(Header, i) = p /\ Item(Header, k) = p
  BY DEF From
<1>3. i \in Nat /\ k \in Nat /\ p \in Nat
  BY <1>1, <1>2, ChainFacts
<1>4. ~(i < k) /\ ~(k < i)
  BY <1>1, <1>2, <1>3, ChainFacts
<1> QED
  BY <1>3, <1>4

\* A bisection of reader r has ended, with entry p at index i or with nothing.
Ends(r, p, i) ==
    /\ r \in ReaderType /\ r.pc \in {"begin", "array"} /\ CallInv(r)
    /\ r.n <= chain[r.query.c].n
    /\ p \in Nat /\ i \in Nat /\ Answer(r.query, r.n, p, i)

\* A reader that is not in the middle of a bisection is in order if its call is.
LEMMA OutOfLoop ==
    ASSUME NEW s \in ReaderType, s.pc \in {"count", "get", "skip", "done"}, CallInv(s),
           s.pc = "count" => s.at.t = 0 /\ s.at.last = NONE
    PROVE  ReaderInv(s) /\ s.pc \notin {"head", "begin", "array"}
BY DEF ReaderInv, BisectInv

\* A seek returns what its bisection found.
LEMMA ResumeSeekInv ==
    ASSUME IndexInv, NEW r, NEW p, NEW i, Ends(r, p, i), r.call.name = "seek"
    PROVE  CallInv(Return(r, p, i)) /\ (p = 0 => CallInv(Nothing(r)))
<1>1. /\ r \in ReaderType /\ p \in Nat /\ i \in Nat /\ SeekInv(r)
      /\ r.n <= chain[r.query.c].n /\ Answer(r.query, r.n, p, i)
  BY DEF Ends, CallInv
<1>2. PICK s : s = Return(r, p, i)
  OBVIOUS
<1>3. /\ s.pc = "done" /\ s.res = p /\ s.idx = i
      /\ s.call = r.call /\ s.query = r.query /\ s.n = r.n
  BY <1>1, <1>2, ReturnParts
<1>4. SeekInv(s)
  BY <1>1, <1>3 DEF SeekInv
<1>5. PICK z : z = Nothing(r)
  OBVIOUS
<1>6. /\ z.pc = "done" /\ z.res = 0 /\ z.idx = 0
      /\ z.call = r.call /\ z.query = r.query /\ z.n = r.n
  BY <1>1, <1>5, NothingParts
<1>7. p = 0 => Answer(r.query, r.n, 0, 0)
  BY <1>1 DEF Answer
<1>8. p = 0 => SeekInv(z)
  BY <1>1, <1>6, <1>7 DEF SeekInv
<1> QED
  BY <1>2, <1>3, <1>4, <1>5, <1>6, <1>8 DEF CallInv

\* A step goes on with the neighbour of the entry that its bisection found.
LEMMA ResumeNextInv ==
    ASSUME IndexInv, NEW r, NEW p, NEW i, Ends(r, p, i), r.call.name = "next"
    PROVE  /\ p # 0 /\ ResumeNext(r, i) \in ReaderType
           /\ ResumeNext(r, i).pc \in {"get", "done"} /\ CallInv(ResumeNext(r, i))
<1>1. /\ r \in ReaderType /\ p \in Nat /\ i \in Nat /\ NextInv(r)
      /\ r.pc \in {"begin", "array"}
      /\ r.n <= chain[r.query.c].n /\ Answer(r.query, r.n, p, i)
  BY DEF Ends, CallInv
<1>2. PICK arg \in Nat, count \in Nat, n \in Nat :
         arg = r.call.arg /\ count = r.count /\ n = r.n
  BY <1>1, ReaderTypes
<1>3. /\ arg # 0 /\ r.call.c = Header /\ r.query.c = Header /\ count <= chain[Header].n
      /\ r.query = [c |-> Header, test |-> "offset", needle |-> arg, dir |-> Down]
      /\ \E k \in Indices(Header) : From(k, arg) /\ k < n
      /\ \E k \in Indices(Header) : From(k, arg) /\ k < count
  BY <1>1, <1>2 DEF NextInv, Bisecting, FindStart, Counted
<1>4. p # 0 /\ From(i, arg)
  <2>1. PICK k : From(k, arg) /\ k < n
    BY <1>3
  <2>2. p # 0 /\ i = k
    BY <1>1, <1>2, <1>3, <2>1, AnswerIsStart
  <2> QED
    BY <2>1, <2>2
<1>5. i < count /\ \A k : From(k, arg) => k = i
  BY <1>3, <1>4, FromIsUnique
<1>6. r.call.dir \in {Down, Up}
  BY <1>1, ReaderTypes
<1> DEFINE Good(s) == /\ s \in ReaderType /\ s.pc \in {"get", "done"} /\ CallInv(s)
<1>7. ASSUME NEW j \in Nat, j < count,
             IF r.call.dir = Down THEN j = i + 1 ELSE j = i - 1
      PROVE  Good(Get(r, j))
  <2>1. PICK s : s = Get(r, j)
    OBVIOUS
  <2>2. /\ s \in ReaderType /\ s.pc = "get" /\ s.idx = j
        /\ s.call = r.call /\ s.query = r.query /\ s.count = r.count
    BY <1>1, <2>1, GetParts
  <2>3. NextIndex(s, j)
    BY <1>2, <1>3, <1>4, <1>7, <2>2 DEF NextIndex, From
  <2>4. NextInv(s)
    BY <1>1, <1>2, <1>3, <1>7, <2>2, <2>3 DEF NextInv, Bisecting
  <2> QED
    BY <2>1, <2>2, <2>4 DEF CallInv
<1>8. ASSUME \A j \in Nat : j < count => ~(IF r.call.dir = Down THEN j = i + 1 ELSE j = i - 1)
      PROVE  Good(Nothing(r))
  <2>1. PICK s : s = Nothing(r)
    OBVIOUS
  <2>2. /\ s \in ReaderType /\ s.pc = "done" /\ s.res = 0
        /\ s.call = r.call /\ s.query = r.query /\ s.count = r.count
    BY <1>1, <2>1, NothingParts
  <2>3. ASSUME NEW j \in Indices(Header), j < count PROVE ~NextIndex(s, j)
    <3>1. j \in Nat
      BY DEF Indices
    <3> QED
      BY <1>2, <1>3, <1>5, <1>8, <2>2, <2>3, <3>1 DEF NextIndex
  <2>4. NextInv(s)
    BY <1>1, <1>2, <1>3, <2>2, <2>3 DEF NextInv, Bisecting
  <2> QED
    BY <2>1, <2>2, <2>4 DEF CallInv
<1> HIDE DEF Good
<1>9. CASE r.call.dir = Down
  <2>1. CASE i >= count - 1
    <3>1. ResumeNext(r, i) = Nothing(r)
      BY <1>2, <1>9, <2>1 DEF ResumeNext
    <3>2. \A j \in Nat : j < count => j # i + 1
      BY <1>1, <1>2, <2>1
    <3> QED
      BY <1>4, <1>8, <1>9, <3>1, <3>2 DEF Good
  <2>2. CASE ~(i >= count - 1)
    <3>1. ResumeNext(r, i) = Get(r, i + 1)
      BY <1>2, <1>9, <2>2 DEF ResumeNext
    <3>2. i + 1 \in Nat /\ i + 1 < count
      BY <1>1, <1>2, <2>2
    <3> QED
      BY <1>4, <1>7, <1>9, <3>1, <3>2 DEF Good
  <2> QED
    BY <2>1, <2>2
<1>10. CASE r.call.dir # Down
  <2>1. CASE i = 0
    <3>1. ResumeNext(r, i) = Nothing(r)
      BY <1>10, <2>1 DEF ResumeNext
    <3>2. \A j \in Nat : j < count => j # i - 1
      BY <2>1
    <3> QED
      BY <1>4, <1>8, <1>10, <3>1, <3>2 DEF Good
  <2>2. CASE i # 0
    <3>1. ResumeNext(r, i) = Get(r, i - 1)
      BY <1>10, <2>2 DEF ResumeNext
    <3>2. i - 1 \in Nat /\ i - 1 < count
      BY <1>1, <1>5, <2>2
    <3> QED
      BY <1>4, <1>7, <1>10, <3>1, <3>2 DEF Good
  <2> QED
    BY <2>1, <2>2
<1> QED
  BY <1>9, <1>10

\* A skip goes on from the entry that its bisection found.
LEMMA ResumeSkipInv ==
    ASSUME IndexInv, NEW r, NEW p, NEW i, Ends(r, p, i), r.call.name = "skip"
    PROVE  LET s == [r EXCEPT !.pc = "skip", !.idx = i] IN
           p # 0 /\ s \in ReaderType /\ s.pc = "skip" /\ CallInv(s)
<1>1. /\ r \in ReaderType /\ p \in Nat /\ i \in Nat /\ SkipInv(r)
      /\ r.pc \in {"begin", "array"}
      /\ r.n <= chain[r.query.c].n /\ Answer(r.query, r.n, p, i)
  BY DEF Ends, CallInv
<1>2. PICK needle \in Nat, n \in Nat : needle = r.query.needle /\ n = r.n
  BY <1>1, ReaderTypes
<1>3. /\ r.query.c = Header
      /\ r.query = [c |-> Header, test |-> "offset", needle |-> needle, dir |-> Down]
      /\ \E k \in Indices(Header) : From(k, needle) /\ k < n
  BY <1>1, <1>2 DEF SkipInv, Bisecting, FindStart, Counted
<1>4. p # 0 /\ From(i, needle)
  <2>1. PICK k : From(k, needle) /\ k < n
    BY <1>3
  <2>2. p # 0 /\ i = k
    BY <1>1, <1>2, <1>3, <2>1, AnswerIsStart
  <2> QED
    BY <2>1, <2>2
<1>5. PICK s : s = [r EXCEPT !.pc = "skip", !.idx = i]
  OBVIOUS
<1>6. /\ s \in ReaderType /\ s.pc = "skip" /\ s.idx = i
      /\ s.call = r.call /\ s.query = r.query
  BY <1>1, <1>5 DEF ReaderType
<1>7. SkipInv(s)
  BY <1>2, <1>3, <1>4, <1>6 DEF SkipInv, Bisecting, From
<1> QED
  BY <1>4, <1>5, <1>6, <1>7 DEF CallInv

\* What one bisection of the seek in two chains finds is on the right side of the
\* time, and lies before no entry that is to be found.
LEMMA BothFinds ==
    ASSUME IndexInv, NEW r, NEW p, NEW i, Ends(r, p, i), r.call.name = "both"
    PROVE  /\ p # 0 => Linked(r.query.c, p) /\ TimeSide(r.call, p)
           /\ r.call.dir = Down => \A x \in 1..r.call.seen :
                                     InBoth(r.call, x) => p # 0 /\ p <= x
<1>1. /\ r \in ReaderType /\ p \in Nat /\ i \in Nat /\ BothInv(r)
      /\ r.pc \in {"begin", "array"}
      /\ r.n <= chain[r.query.c].n /\ Answer(r.query, r.n, p, i)
  BY DEF Ends, CallInv
<1>2. PICK q \in QueryType, call \in CallType, n \in Nat, c \in Chains :
         q = r.query /\ call = r.call /\ n = r.n /\ c = q.c
  BY <1>1, ReaderTypes
<1>3. /\ call.arg \in Nat /\ call.dir \in {Down, Up} /\ q.needle \in Nat
      /\ q.test \in {"offset", "time"} /\ call.seen \in Nat
  BY <1>1, <1>2, ReaderTypes
<1>4. /\ q.dir = call.dir
      /\ \A x \in 1..call.seen : Linked(c, x) => \E j \in Indices(c) : j < n /\ Item(c, j) = x
      /\ q.test = "time" => c = call.boot /\ q.needle = call.arg
      /\ q.test = "offset" =>
           /\ TimeSide(call, q.needle) /\ (c = call.c \/ c = call.boot)
           /\ call.dir = Down => \A x \in 1..call.seen : InBoth(call, x) => q.needle <= x
  BY <1>1, <1>2 DEF BothInv, Bisecting
<1>5. chain[c].n \in Nat /\ \A j \in Nat : j < n => j \in Indices(c)
  BY <1>1, <1>2, ChainFacts
<1>6. ASSUME p # 0 PROVE Linked(c, p) /\ TimeSide(call, p)
  <2>1. i < n /\ p = Item(c, i) /\ Side(q, p)
    BY <1>1, <1>2, <1>6 DEF Answer
  <2>2. Linked(c, p)
    BY <1>1, <1>5, <2>1 DEF Linked
  <2>3. CASE q.test = "time"
    <3>1. Key("time", p) \in Nat
      BY <1>1, KeyAscends
    <3> QED
      BY <1>3, <1>4, <2>1, <2>2, <2>3, <3>1 DEF Side, IsRight, TimeSide
  <2>4. CASE q.test = "offset"
    <3>1. IF call.dir = Down THEN p >= q.needle ELSE p <= q.needle
      BY <1>1, <1>3, <1>4, <2>1, <2>4 DEF Side, IsRight, Key
    <3>2. /\ Key("time", p) \in Nat /\ Key("time", q.needle) \in Nat
          /\ p >= q.needle => Key("time", p) >= Key("time", q.needle)
          /\ p <= q.needle => Key("time", p) <= Key("time", q.needle)
      BY <1>1, <1>3, KeyAscends
    <3>3. TimeSide(call, q.needle)
      BY <1>4, <2>4
    <3>4. CASE call.dir = Down
      BY <1>3, <2>2, <3>1, <3>2, <3>3, <3>4 DEF TimeSide
    <3>5. CASE call.dir # Down
      BY <1>3, <2>2, <3>1, <3>2, <3>3, <3>5 DEF TimeSide
    <3> QED
      BY <2>2, <3>4, <3>5
  <2> QED
    BY <1>3, <2>2, <2>3, <2>4
<1>7. ASSUME call.dir = Down, NEW x \in 1..call.seen, InBoth(call, x)
      PROVE  p # 0 /\ p <= x
  <2>1. Linked(c, x) /\ TimeSide(call, x)
    BY <1>3, <1>4, <1>7 DEF InBoth
  <2>2. PICK j \in Indices(c) : j < n /\ Item(c, j) = x
    BY <1>4, <2>1
  <2>3. x \in Nat
    BY <1>3
  <2>4. Side(q, x)
    <3>1. CASE q.test = "time"
      BY <1>4, <1>7, <2>1, <3>1 DEF Side, IsRight, TimeSide
    <3>2. CASE q.test = "offset"
      <4>1. q.needle <= x
        BY <1>4, <1>7, <3>2
      <4> QED
        BY <1>3, <1>4, <1>7, <2>3, <3>2, <4>1 DEF Side, IsRight, Key
    <3> QED
      BY <1>3, <3>1, <3>2
  <2>5. ~Full(q, n)
    BY <1>4, <1>7 DEF Full, Down, Up
  <2>6. p # 0 /\ i <= j
    BY <1>1, <1>2, <1>4, <1>7, <2>2, <2>4, <2>5 DEF Answer
  <2>7. p = Item(c, i) /\ i \in Indices(c)
    BY <1>1, <1>2, <1>5, <2>6 DEF Answer
  <2> QED
    BY <2>2, <2>6, <2>7, ChainFacts
<1> QED
  BY <1>2, <1>6, <1>7

\* The seek in two chains ends, or searches the other chain from what it found.
LEMMA ResumeBothInv ==
    ASSUME IndexInv, NEW r, NEW p, NEW i, Ends(r, p, i), r.call.name = "both"
    PROVE  /\ p = 0 => CallInv(Nothing(r))
           /\ p # 0 => /\ ResumeBoth(r, p, i) \in ReaderType
                       /\ ResumeBoth(r, p, i).pc \in {"count", "done"}
                       /\ CallInv(ResumeBoth(r, p, i))
                       /\ ResumeBoth(r, p, i).pc = "count" =>
                            /\ ResumeBoth(r, p, i).at.t = 0
                            /\ ResumeBoth(r, p, i).at.last = NONE
<1>1. /\ r \in ReaderType /\ p \in Nat /\ i \in Nat /\ BothInv(r)
      /\ r.pc \in {"begin", "array"}
  BY DEF Ends, CallInv
<1>2. PICK q \in QueryType, call \in CallType, count \in Nat :
         q = r.query /\ call = r.call /\ count = r.count
  BY <1>1, ReaderTypes
<1>3. /\ call.c \in Chains /\ call.boot \in Chains /\ call.dir \in {Down, Up}
      /\ call.name = "both"
  BY <1>1, <1>2, ReaderTypes
<1>4. /\ call.c \in Data /\ call.boot \in Data
      /\ call.seen <= Current /\ (call.seen = Current => writer = Idle)
      /\ q.dir = call.dir
      /\ q.test = "time" => q.c = call.boot /\ count = 0
      /\ q.test = "offset" =>
           IF count = 0 THEN q.c = call.c
           ELSE q.c = call.boot /\ q.needle = count /\ Linked(call.c, count)
  BY <1>1, <1>2 DEF BothInv, Bisecting
<1>5. /\ p # 0 => Linked(q.c, p) /\ TimeSide(call, p)
      /\ call.dir = Down => \A x \in 1..call.seen : InBoth(call, x) => p # 0 /\ p <= x
  BY <1>2, BothFinds
<1>6. p = 0 => CallInv(Nothing(r))
  <2> SUFFICES ASSUME p = 0 PROVE CallInv(Nothing(r))
    OBVIOUS
  <2>1. PICK s : s = Nothing(r)
    OBVIOUS
  <2>2. s.pc = "done" /\ s.res = 0 /\ s.call = call /\ s.query = q
    BY <1>1, <1>2, <2>1, NothingParts
  <2>3. ~Bisecting(s)
    BY <2>2 DEF Bisecting
  <2>4. BothInv(s)
    BY <1>4, <1>5, <2>2, <2>3 DEF BothInv
  <2> QED
    BY <1>3, <2>1, <2>2, <2>4 DEF CallInv
<1> DEFINE Good(s) == /\ s \in ReaderType /\ s.pc \in {"count", "done"} /\ CallInv(s)
                      /\ s.pc = "count" => s.at.t = 0 /\ s.at.last = NONE
<1>7. ASSUME p # 0, NEW c \in Chains, NEW k \in Nat,
             NEW t, t = [r EXCEPT !.count = k],
             IF k = 0 THEN c = call.c
             ELSE c = call.boot /\ p = k /\ Linked(call.c, k)
      PROVE  Good(Bisect(t, c, "offset", p, call.dir))
  <2>1. PICK s : s = Bisect(t, c, "offset", p, call.dir)
    OBVIOUS
  <2>0. t \in ReaderType /\ t.call = r.call /\ t.count = k
    BY <1>1, <1>7, CountParts
  <2>2. /\ s \in ReaderType /\ s.pc = "count" /\ s.call = r.call /\ s.count = k
        /\ s.query = [c |-> c, test |-> "offset", needle |-> p, dir |-> call.dir]
        /\ s.at.t = 0 /\ s.at.last = NONE
    <3>1. PICK qn : qn = [c |-> c, test |-> "offset", needle |-> p, dir |-> call.dir]
      OBVIOUS
    <3>2. qn \in QueryType
      BY <1>1, <1>3, <3>1 DEF QueryType
    <3>3. /\ s \in ReaderType /\ s.pc = "count" /\ s.call = t.call /\ s.count = t.count
          /\ s.query = qn /\ s.at.t = 0 /\ s.at.last = NONE
      BY <2>0, <2>1, <3>1, <3>2, BisectParts
    <3> QED
      BY <2>0, <3>1, <3>3
  <2>3. /\ s.query.c = c /\ s.query.test = "offset" /\ s.query.needle = p
        /\ s.query.dir = call.dir /\ s.call = call
    BY <1>2, <2>2
  <2>4. Bisecting(s)
    BY <2>2 DEF Bisecting
  <2>5. BothInv(s)
    BY <1>4, <1>5, <1>7, <2>2, <2>3, <2>4 DEF BothInv
  <2>6. CallInv(s)
    BY <1>3, <2>3, <2>5 DEF CallInv
  <2> QED
    BY <2>1, <2>2, <2>6
<1>8. ASSUME p # 0, p = count, q.test = "offset" PROVE Good(Return(r, p, i))
  <2>1. PICK s : s = Return(r, p, i)
    OBVIOUS
  <2>2. s \in ReaderType /\ s.pc = "done" /\ s.res = p /\ s.call = call /\ s.query = q
    <3>1. s \in ReaderType /\ s.pc = "done" /\ s.res = p /\ s.call = r.call /\ s.query = r.query
      BY <1>1, <2>1 DEF Return, ReaderType
    <3> QED
      BY <1>2, <3>1
  <2>3. ~Bisecting(s)
    BY <2>2 DEF Bisecting
  <2>4. InBoth(call, p)
    BY <1>4, <1>5, <1>8 DEF InBoth
  <2>5. BothInv(s)
    BY <1>4, <1>5, <2>2, <2>3, <2>4 DEF BothInv
  <2> QED
    BY <1>3, <2>1, <2>2, <2>5 DEF CallInv
<1> HIDE DEF Good
<1>9. ASSUME p # 0 PROVE Good(ResumeBoth(r, p, i))
  <2>1. CASE q.test = "offset" /\ count = 0
    <3>1. ResumeBoth(r, p, i) =
            Bisect([r EXCEPT !.count = p], call.boot, "offset", p, call.dir)
      BY <1>2, <2>1 DEF ResumeBoth
    <3>2. Linked(call.c, p)
      BY <1>4, <1>5, <1>9, <2>1
    <3> QED
      BY <1>1, <1>3, <1>7, <1>9, <3>1, <3>2
  <2>2. CASE ~(q.test = "offset" /\ count = 0) /\ p = count
    <3>1. ResumeBoth(r, p, i) = Return(r, p, i)
      BY <1>2, <2>2 DEF ResumeBoth
    <3>2. q.test = "offset"
      <4>1. q.test \in {"offset", "time"}
        BY <1>1, <1>2, ReaderTypes
      <4> QED
        BY <1>4, <1>9, <2>2, <4>1
    <3> QED
      BY <1>8, <1>9, <2>2, <3>1, <3>2
  <2>3. CASE ~(q.test = "offset" /\ count = 0) /\ p # count
    <3>1. ResumeBoth(r, p, i) =
            Bisect([r EXCEPT !.count = 0], call.c, "offset", p, call.dir)
      BY <1>2, <2>3 DEF ResumeBoth
    <3> QED
      BY <1>3, <1>7, <1>9, <3>1
  <2> QED
    BY <2>1, <2>2, <2>3
<1> QED
  BY <1>6, <1>9 DEF Good

\* However a bisection ends, the operation goes on as it should.
LEMMA ResumeInv ==
    ASSUME IndexInv, NEW r, NEW p, NEW i, Ends(r, p, i)
    PROVE  ReaderInv(Resume(r, p, i)) /\ Resume(r, p, i).pc \notin {"head", "begin", "array"}
<1>1. r \in ReaderType /\ p \in Nat /\ i \in Nat /\ CallInv(r)
  BY DEF Ends
<1>2. r.call.name \in {"seek", "next", "skip", "both"}
  BY <1>1 DEF ReaderType, CallType, CallInv
<1>3. CASE p = 0
  <2>1. Resume(r, p, i) = Nothing(r)
    BY <1>3 DEF Resume
  <2>2. Nothing(r) \in ReaderType /\ Nothing(r).pc = "done"
    BY <1>1, NothingParts
  <2>3. CallInv(Nothing(r))
    BY <1>2, <1>3, ResumeSeekInv, ResumeNextInv, ResumeSkipInv, ResumeBothInv
  <2> QED
    BY <2>1, <2>2, <2>3, OutOfLoop
<1>4. CASE p # 0 /\ r.call.name = "seek"
  <2>1. Resume(r, p, i) = Return(r, p, i)
    BY <1>4 DEF Resume
  <2>2. Return(r, p, i) \in ReaderType /\ Return(r, p, i).pc = "done"
    BY <1>1, ReturnParts
  <2> QED
    BY <1>4, <2>1, <2>2, ResumeSeekInv, OutOfLoop
<1>5. CASE p # 0 /\ r.call.name = "next"
  <2>1. Resume(r, p, i) = ResumeNext(r, i)
    BY <1>5 DEF Resume
  <2> QED
    BY <1>5, <2>1, ResumeNextInv, OutOfLoop
<1>6. CASE p # 0 /\ r.call.name = "skip"
  <2>1. Resume(r, p, i) = [r EXCEPT !.pc = "skip", !.idx = i]
    BY <1>6 DEF Resume
  <2> QED
    BY <1>6, <2>1, ResumeSkipInv, OutOfLoop
<1>7. CASE p # 0 /\ r.call.name = "both"
  <2>1. Resume(r, p, i) = ResumeBoth(r, p, i)
    BY <1>7 DEF Resume
  <2> QED
    BY <1>7, <2>1, ResumeBothInv, OutOfLoop
<1> QED
  BY <1>2, <1>3, <1>4, <1>5, <1>6, <1>7

\* The counter is read.
LEMMA ReadCountInv ==
    ASSUME IndexInv, CacheInv(cache), NEW r, ReaderInv(r), r.pc = "count",
           NEW s, s = [r EXCEPT !.pc = "head", !.n = chain[r.query.c].n]
    PROVE  ReaderInv(s)
<1>1. r \in ReaderType /\ BisectInv(r) /\ CallInv(r)
  BY DEF ReaderInv
<1>2. PICK c \in Chains, n \in Nat : c = r.query.c /\ n = chain[c].n
  BY <1>1, ReaderTypes, ChainFacts
<1>3. s = [r EXCEPT !.pc = "head", !.n = n]
  BY <1>2
<1>4. /\ s \in ReaderType /\ s.pc = "head" /\ s.n = n /\ s.at = r.at
      /\ s.call = r.call /\ s.query = r.query /\ s.count = r.count
  BY <1>1, <1>3 DEF ReaderType
<1>5. ASSUME NEW k \in Cached(c), cache[k].last # NONE
      PROVE  cache[k].total + cache[k].last + Plus(c) < n
  BY <1>2, <1>5 DEF Cached, CacheInv, CacheItemOK
<1>6. CounterRead(s)
  BY <1>2, <1>4, <1>5 DEF CounterRead
<1>7. BisectInv(s)
  BY <1>1, <1>4, <1>6 DEF BisectInv
<1>8. Bisecting(r) /\ Bisecting(s) /\ Counted(s) = Counted(r)
  BY <1>2, <1>4 DEF Bisecting, Counted
<1>9. CallInv(s)
  <2>1. SeekInv(r) => SeekInv(s)
    BY <1>4, <1>8 DEF SeekInv
  <2>2. \A p : FindStart(r, p) => FindStart(s, p)
    BY <1>4, <1>8 DEF FindStart
  <2>3. NextInv(r) => NextInv(s)
    BY <1>4, <1>8, <2>2 DEF NextInv
  <2>4. SkipInv(r) => SkipInv(s)
    BY <1>4, <1>8, <2>2 DEF SkipInv
  <2>5. \A p : Linked(c, p) => \E i \in Indices(c) : i < n /\ Item(c, i) = p
    BY <1>2, ChainFacts DEF Linked
  <2>6. BothInv(r) => BothInv(s)
    BY <1>2, <1>4, <1>8, <2>5 DEF BothInv
  <2> QED
    BY <1>1, <1>4, <2>1, <2>3, <2>4, <2>6 DEF CallInv
<1> QED
  BY <1>4, <1>7, <1>9 DEF ReaderInv

\* The fields that lead to the items are read.
LEMMA ReadHeadInv ==
    ASSUME IndexInv, NEW r, ReaderInv(r), r.pc = "head",
           NEW s, s = [r EXCEPT !.pc = "begin", !.extra = chain[r.query.c].extra,
                          !.at.a = IF chain[r.query.c].arrays = <<>> THEN 0 ELSE 1]
    PROVE  ReaderInv(s)
<1>1. r \in ReaderType /\ BisectInv(r) /\ CallInv(r)
  BY DEF ReaderInv
<1>2. PICK c, arrays : c = r.query.c /\ c \in Chains /\ arrays = chain[c].arrays
  BY <1>1, ReaderTypes
<1>3. PICK x \in Nat : x = chain[c].extra
  BY <1>2, ChainTypes DEF IndexInv
<1>4. PICK a \in Nat : a = IF arrays = <<>> THEN 0 ELSE 1
  OBVIOUS
<1>5. s = [r EXCEPT !.pc = "begin", !.extra = x, !.at.a = a]
  BY <1>2, <1>3, <1>4
<1>6. PICK at \in LoopType : at = r.at
  BY <1>1, ReaderTypes
<1>7. /\ [at EXCEPT !.a = a] \in LoopType /\ [at EXCEPT !.a = a].a = a
      /\ [at EXCEPT !.a = a].t = at.t /\ [at EXCEPT !.a = a].last = at.last
  BY DEF LoopType
<1>8. PICK new \in LoopType : new = [at EXCEPT !.a = a] /\ new.a = a
                                /\ new.t = at.t /\ new.last = at.last
  BY <1>7
<1>9. s = [r EXCEPT !.pc = "begin", !.extra = x, !.at = new]
  BY <1>1, <1>5, <1>6, <1>8 DEF ReaderType
<1>10. /\ s \in ReaderType /\ s.pc = "begin" /\ s.n = r.n /\ s.at = new /\ s.extra = x
       /\ s.call = r.call /\ s.query = r.query /\ s.count = r.count
  BY <1>1, <1>9 DEF ReaderType
<1>11. CallInv(s)
  BY <1>1, <1>10, CallSame
<1>12. CounterRead(r) /\ at.t = 0 /\ at.last = NONE
  BY <1>1, <1>6 DEF BisectInv
<1>13. CounterRead(s)
  BY <1>10, <1>12 DEF CounterRead
<1>14. HeadRead(s)
  <2>1. c # Header => x = Item(c, 0)
    BY <1>2, <1>3, ChainFacts
  <2>2. r.n \in Nat /\ r.n <= chain[c].n /\ chain[c].n \in Nat /\ Plus(c) \in 0..1
    BY <1>1, <1>2, <1>12, ChainFacts, ReaderTypes DEF CounterRead
  <2>3. a = 0 => r.n <= Plus(c)
    BY <1>2, <1>4, <2>2, ArraysReach
  <2>4. a # 0 => a = 1 /\ arrays # <<>>
    BY <1>4
  <2> QED
    BY <1>2, <1>8, <1>10, <1>12, <2>1, <2>3, <2>4 DEF HeadRead
<1>15. BisectInv(s)
  BY <1>10, <1>13, <1>14 DEF BisectInv
<1> QED
  BY <1>10, <1>11, <1>15 DEF ReaderInv

\* The bisection found nothing in the arrays.
Exhausted(r) ==
    LET c == r.query.c IN
    /\ r \in ReaderType /\ r.pc \in {"begin", "array"} /\ CallInv(r)
    /\ r.n <= chain[c].n
    /\ c # Header => r.n > 0 /\ r.extra = Item(c, 0) /\ ~IsRight(r.query, r.extra)
    /\ ~Full(r.query, r.n) =>
         \A j \in Indices(c) : j < r.n /\ Side(r.query, Item(c, j)) =>
            c # Header /\ r.query.dir = Up /\ j = 0

\* A bisection that went through all arrays ends as its last statements say.
LEMMA NotFoundInv ==
    ASSUME IndexInv, NEW r, Exhausted(r)
    PROVE  ReaderInv(NotFound(r)) /\ NotFound(r).pc \notin {"head", "begin", "array"}
<1>1. PICK q \in QueryType, c \in Chains, n \in Nat, x \in Nat :
         q = r.query /\ c = q.c /\ n = r.n /\ x = r.extra
  BY ReaderTypes DEF Exhausted
<1>2. /\ r \in ReaderType /\ r.pc \in {"begin", "array"} /\ CallInv(r) /\ n <= chain[c].n
      /\ c # Header => n > 0 /\ x = Item(c, 0) /\ ~IsRight(q, x)
      /\ ~Full(q, n) => \A j \in Indices(c) : j < n /\ Side(q, Item(c, j)) =>
            c # Header /\ q.dir = Up /\ j = 0
  BY <1>1 DEF Exhausted
<1>3. CASE c # Header /\ q.dir = Up
  <2>1. NotFound(r) = Resume(r, x, 0)
    BY <1>1, <1>3 DEF NotFound
  <2>2. Side(q, x)
    BY <1>2, <1>3 DEF Side, Down, Up
  <2>3. 0 \in Indices(c)
    BY <1>2, <1>3, ChainFacts
  <2>4. x # 0
    BY <1>2, <1>3, <2>3, ChainFacts
  <2>5. Answer(q, n, x, 0)
    BY <1>1, <1>2, <1>3, <2>2, <2>4 DEF Answer, Down, Up
  <2>6. Ends(r, x, 0)
    BY <1>1, <1>2, <2>5 DEF Ends
  <2> QED
    BY <2>1, <2>6, ResumeInv
<1>4. CASE ~(c # Header /\ q.dir = Up)
  <2>1. NotFound(r) = Resume(r, 0, 0)
    BY <1>1, <1>4 DEF NotFound
  <2>2. Answer(q, n, 0, 0)
    BY <1>1, <1>2, <1>4 DEF Answer
  <2>3. Ends(r, 0, 0)
    BY <1>1, <1>2, <2>2 DEF Ends
  <2> QED
    BY <2>1, <2>3, ResumeInv
<1> QED
  BY <1>3, <1>4

\* The loop over the arrays is entered with the m entries that the arrays hold.
LEMMA EnterLoopInv ==
    ASSUME IndexInv, CacheInv(cache), NEW r, ReaderInv(r), r.pc = "begin", NEW m \in Nat,
           m + Plus(r.query.c) = r.n,
           r.query.c # Header => ~IsRight(r.query, r.extra)
    PROVE  ReaderInv(EnterLoop(r, m))
<1>1. r \in ReaderType /\ CallInv(r) /\ CounterRead(r) /\ HeadRead(r)
  BY DEF ReaderInv, BisectInv
<1>2. PICK q \in QueryType, c \in Chains, n \in Nat, x \in Nat, at \in LoopType :
         q = r.query /\ c = q.c /\ n = r.n /\ x = r.extra /\ at = r.at
  BY <1>1, ReaderTypes
<1>3. /\ n <= chain[c].n
      /\ c # Header /\ n > 0 => x = Item(c, 0)
      /\ at.a = 0 => n <= Plus(c)
      /\ at.a # 0 => at.a = 1 /\ chain[c].arrays # <<>>
      /\ at.t = 0 /\ at.last = NONE
  BY <1>1, <1>2 DEF CounterRead, HeadRead
<1>4. ASSUME NEW k \in Cached(c), cache[k].last # NONE
      PROVE  cache[k].total + cache[k].last + Plus(c) < n
  BY <1>1, <1>2, <1>4 DEF CounterRead
<1>5. /\ m + Plus(c) = n /\ chain[c].n \in Nat /\ (Plus(c) = IF c = Header THEN 0 ELSE 1)
      /\ c # Header => ~IsRight(q, x)
  BY <1>2, ChainFacts DEF Plus
<1>6. c # Header => n > 0 /\ x = Item(c, 0)
  BY <1>3, <1>5
<1>7. ASSUME NEW i \in Nat, i < Plus(c) PROVE ~IsRight(q, Item(c, i))
  BY <1>5, <1>6, <1>7
<1>8. CASE at.a = 0
  <2>1. EnterLoop(r, m) = NotFound(r)
    BY <1>2, <1>8 DEF EnterLoop
  <2>2. ASSUME NEW j \in Indices(c), j < n, Side(q, Item(c, j))
        PROVE  c # Header /\ q.dir = Up /\ j = 0
    <3>1. j \in Nat
      BY ChainFacts
    <3>2. j = 0 /\ c # Header
      BY <1>3, <1>5, <1>8, <2>2, <3>1
    <3>3. ~IsRight(q, Item(c, j))
      BY <1>5, <1>7, <3>2
    <3>4. q.dir \in {Down, Up}
      BY DEF QueryType
    <3> QED
      BY <2>2, <3>2, <3>3, <3>4 DEF Side
  <2>3. Exhausted(r)
    BY <1>1, <1>2, <1>3, <1>5, <1>6, <2>2 DEF Exhausted
  <2> QED
    BY <2>1, <2>3, NotFoundInv
<1> DEFINE ci == CacheItem(c)
           Use == Cached(c) # {} /\ m > ci.total /\ Key(q.test, ci.begin) < q.needle
\* A reader that enters the loop at l.
<1>9. ASSUME NEW l \in LoopType, NEW s, s = [r EXCEPT !.pc = "array", !.at = l],
             l.a \in DOMAIN chain[c].arrays, l.t = chain[c].arrays[l.a].start,
             l.t + l.n = m,
             l.last # NONE => l.last < l.n /\ l.last < Len(chain[c].arrays[l.a].items),
             \A i \in Indices(c) : i < l.t + Plus(c) => ~IsRight(q, Item(c, i)),
             l.t > 0 => l.n > 0 /\ ~IsRight(q, Item(c, l.t + Plus(c)))
      PROVE  ReaderInv(s)
  <2>1. /\ s \in ReaderType /\ s.pc = "array" /\ s.at = l /\ s.n = r.n /\ s.extra = x
        /\ s.call = r.call /\ s.query = r.query /\ s.count = r.count
    BY <1>1, <1>2, <1>9 DEF ReaderType
  <2>2. CallInv(s)
    BY <1>1, <2>1, CallSame
  <2>3. CounterRead(s)
    BY <1>2, <1>3, <2>1 DEF CounterRead
  <2>4. l.t + l.n + Plus(c) = n
    BY <1>5, <1>9
  <2>5. InLoop(s)
    BY <1>2, <1>6, <1>9, <2>1, <2>4 DEF InLoop
  <2>6. BisectInv(s)
    BY <2>1, <2>3, <2>5 DEF BisectInv
  <2> QED
    BY <2>1, <2>2, <2>6 DEF ReaderInv
<1>10. CASE at.a # 0 /\ Use
  <2>2. PICK k : k \in Cached(c) /\ ci = cache[k]
    BY <1>10 DEF CacheItem
  <2>3. k \in DOMAIN cache /\ cache[k].first = c /\ cache[k] \in CacheType
        /\ CacheItemOK(cache[k])
    BY <2>2 DEF Cached, CacheInv
  <2>4. PICK a \in Nat, t \in Nat, b \in Nat, last \in Nat \cup {NONE} :
           a = ci.array /\ t = ci.total /\ b = ci.begin /\ last = ci.last
    BY <2>2, <2>3 DEF CacheType
  <2>5. /\ a \in DOMAIN chain[c].arrays /\ t = chain[c].arrays[a].start
        /\ t + Plus(c) < chain[c].n /\ b = Item(c, t + Plus(c))
        /\ last # NONE => /\ last < Len(chain[c].arrays[a].items)
                          /\ t + last + Plus(c) < n
    BY <1>4, <2>2, <2>3, <2>4 DEF CacheItemOK
  <2>6. m > t /\ Key(q.test, b) < q.needle
    BY <1>10, <2>4
  <2> HIDE DEF ci
  <2>7. PICK left \in Nat : left = m - t
    BY <2>6
  <2>8. PICK l : l = [NoLoop EXCEPT !.a = a, !.n = left, !.t = t, !.last = last]
    OBVIOUS
  <2>9. l \in LoopType /\ l.a = a /\ l.n = left /\ l.t = t /\ l.last = last
    <3>1. NoLoop \in LoopType
      BY DEF NoLoop, LoopType
    <3> QED
      BY <2>8, <3>1 DEF LoopType
  <2>1. EnterLoop(r, m) = [r EXCEPT !.pc = "array", !.at = l]
    <3>1. r.query = q /\ r.query.c = c /\ r.at.a # 0
      BY <1>2, <1>10
    <3> QED
      BY <1>10, <2>4, <2>7, <2>8, <3>1 DEF EnterLoop, ci
  <2>10. ~IsRight(q, b)
    <3>1. Key(q.test, b) \in Nat /\ q.needle \in Nat
      BY KeyAscends DEF QueryType
    <3> QED
      BY <2>6, <3>1 DEF IsRight
  <2>11. t + Plus(c) \in Indices(c)
    BY <1>5, <2>5, ChainFacts
  <2>12. ASSUME NEW i \in Indices(c), i < t + Plus(c) PROVE ~IsRight(q, Item(c, i))
    <3>1. Item(c, i) <= b /\ Item(c, i) \in Nat
      BY <1>5, <2>5, <2>11, <2>12, ChainFacts
    <3> QED
      BY <2>10, <3>1, RightAscends
  <2>13. last # NONE => last < left
    <3> SUFFICES ASSUME last # NONE PROVE last < left
      OBVIOUS
    <3>1. last \in Nat /\ t + last + Plus(c) < n
      BY <2>5
    <3>2. m + Plus(c) = n /\ Plus(c) \in Nat
      BY <1>5
    <3> QED
      BY <2>7, <3>1, <3>2
  <2>14. t + left = m /\ left > 0
    BY <2>6, <2>7
  <2> QED
    BY <1>9, <2>1, <2>5, <2>9, <2>10, <2>12, <2>13, <2>14
<1>11. CASE at.a # 0 /\ ~Use
  <2>1. EnterLoop(r, m) = [r EXCEPT !.pc = "array", !.at.n = m]
    BY <1>2, <1>11 DEF EnterLoop
  <2>2. PICK l : l = [at EXCEPT !.n = m]
    OBVIOUS
  <2>3. l \in LoopType /\ l.a = at.a /\ l.n = m /\ l.t = at.t /\ l.last = at.last
    BY <2>2 DEF LoopType
  <2>4. [r EXCEPT !.pc = "array", !.at.n = m] = [r EXCEPT !.pc = "array", !.at = l]
    BY <1>1, <1>2, <2>2 DEF ReaderType
  <2>5. l.a = 1 /\ 1 \in DOMAIN chain[c].arrays /\ chain[c].arrays[1].start = 0
    BY <1>3, <1>11, <2>3, ArraysReach
  <2>6. \A i \in Indices(c) : i < Plus(c) => ~IsRight(q, Item(c, i))
    BY <1>7, ChainFacts
  <2>7. l.t = 0 /\ l.last = NONE /\ l.t + l.n = m /\ l.t + Plus(c) = Plus(c)
    BY <1>3, <1>5, <2>3
  <2>8. l.t = chain[c].arrays[l.a].start /\ l.a \in DOMAIN chain[c].arrays
    BY <2>5, <2>7
  <2>9. \A i \in Indices(c) : i < l.t + Plus(c) => ~IsRight(q, Item(c, i))
    BY <2>6, <2>7
  <2>10. ~(l.t > 0)
    BY <2>7
  <2> QED
    BY <1>9, <2>1, <2>3, <2>4, <2>7, <2>8, <2>9, <2>10
<1> QED
  BY <1>8, <1>10, <1>11

\* The step that enters the loop over the arrays, or decides without it.
LEMMA BeginBisectInv ==
    ASSUME IndexInv, CacheInv(cache), ReaderInv(reader), BeginBisect, NEW s, s = reader'
    PROVE  ReaderInv(s)
<1>1. PICK r : r = reader
  OBVIOUS
<1>2. r.pc = "begin" /\ ReaderInv(r)
  BY <1>1 DEF BeginBisect, Step
<1>3. s = IF r.query.c = Header THEN EnterLoop(r, r.n)
          ELSE IF r.n = 0 THEN Resume(r, 0, 0)
          ELSE IF r.extra = 0 THEN Abort(r)
          ELSE IF ~IsRight(r.query, r.extra) THEN EnterLoop(r, r.n - 1)
          ELSE IF r.query.dir = Down THEN Resume(r, r.extra, 0)
          ELSE Resume(r, 0, 0)
  BY <1>1 DEF BeginBisect, Step
<1>4. r \in ReaderType /\ CallInv(r) /\ CounterRead(r) /\ HeadRead(r)
  BY <1>2 DEF ReaderInv, BisectInv
<1>5. PICK q \in QueryType, c \in Chains, n \in Nat, x \in Nat :
         q = r.query /\ c = q.c /\ n = r.n /\ x = r.extra
  BY <1>4, ReaderTypes
<1>6. n <= chain[c].n /\ (c # Header /\ n > 0 => x = Item(c, 0)) /\ chain[c].n \in Nat
  BY <1>4, <1>5, ChainFacts DEF CounterRead, HeadRead
<1>7. CASE c = Header
  <2>1. s = EnterLoop(r, n)
    BY <1>3, <1>5, <1>7
  <2>2. Plus(c) = 0
    BY <1>7 DEF Plus
  <2>3. n + Plus(r.query.c) = r.n /\ r.query.c = Header
    BY <1>5, <1>7, <2>2
  <2> QED
    BY <1>2, <2>1, <2>3, EnterLoopInv
<1>8. CASE c # Header /\ n = 0
  <2>1. s = Resume(r, 0, 0)
    BY <1>3, <1>5, <1>8
  <2>2. Answer(q, n, 0, 0)
    <3>1. \A j \in Indices(c) : ~(j < n)
      BY <1>8, ChainFacts
    <3> QED
      BY <1>5, <3>1 DEF Answer
  <2>3. Ends(r, 0, 0)
    BY <1>2, <1>4, <1>5, <1>6, <2>2 DEF Ends
  <2> QED
    BY <2>1, <2>3, ResumeInv
<1>9. CASE c # Header /\ n # 0
  <2>1. n > 0 /\ x = Item(c, 0) /\ Plus(c) = 1
    BY <1>6, <1>9 DEF Plus
  <2>2. 0 \in Indices(c)
    BY <1>6, <2>1, ChainFacts
  <2>3. x # 0
    BY <2>1, <2>2, ChainFacts
  <2>4. CASE ~IsRight(q, x)
    <3>1. PICK m \in Nat : m = n - 1
      BY <2>1
    <3>2. s = EnterLoop(r, m)
      BY <1>3, <1>5, <1>9, <2>3, <2>4, <3>1
    <3>3. m + Plus(r.query.c) = r.n /\ ~IsRight(r.query, r.extra)
      BY <1>5, <2>1, <2>4, <3>1
    <3> QED
      BY <1>2, <3>2, <3>3, EnterLoopInv
  <2>5. CASE IsRight(q, x) /\ q.dir = Down
    <3>1. s = Resume(r, x, 0)
      BY <1>3, <1>5, <1>9, <2>3, <2>5
    <3>2. Side(q, x)
      BY <2>5 DEF Side
    <3>3. \A j \in Indices(c) : 0 <= j
      BY ChainFacts
    <3>4. Answer(q, n, x, 0)
      BY <1>5, <2>1, <2>3, <2>5, <3>2, <3>3 DEF Answer
    <3>5. Ends(r, x, 0)
      BY <1>2, <1>4, <1>5, <1>6, <3>4 DEF Ends
    <3> QED
      BY <3>1, <3>5, ResumeInv
  <2>6. CASE IsRight(q, x) /\ q.dir # Down
    <3>1. s = Resume(r, 0, 0)
      BY <1>3, <1>5, <1>9, <2>3, <2>6
    <3>2. ASSUME NEW j \in Indices(c) PROVE ~Side(q, Item(c, j))
      <4>1. x <= Item(c, j) /\ Item(c, j) \in Nat
        <5>1. 0 <= j
          BY ChainFacts
        <5> QED
          BY <2>1, <2>2, <5>1, ChainFacts
      <4>2. IsRight(q, Item(c, j))
        BY <2>6, <4>1, RightAscends
      <4> QED
        BY <2>6, <4>2 DEF Side
    <3>3. Answer(q, n, 0, 0)
      BY <1>5, <3>2 DEF Answer
    <3>4. Ends(r, 0, 0)
      BY <1>2, <1>4, <1>5, <1>6, <3>3 DEF Ends
    <3> QED
      BY <3>1, <3>4, ResumeInv
  <2> QED
    BY <2>4, <2>5, <2>6
<1> QED
  BY <1>7, <1>8, <1>9

\* What is put into the cache is true.
LEMMA CachePutInv ==
    ASSUME IndexInv, CacheInv(cache), NEW c \in Chains, NEW j \in DOMAIN chain[c].arrays,
           NEW t \in Nat, t = chain[c].arrays[j].start, t + Plus(c) < chain[c].n,
           NEW last \in Nat \cup {NONE},
           last # NONE => /\ last < Len(chain[c].arrays[j].items)
                          /\ t + last + Plus(c) < chain[c].n
    PROVE  CacheInv(ChainCachePut(c, j, t, last))
<1>1. PICK ci : ci = [first |-> c, array |-> j, total |-> t,
                      begin |-> chain[c].arrays[j].items[1], last |-> last]
  OBVIOUS
<1>2. /\ ci.first = c /\ ci.array = j /\ ci.total = t /\ ci.last = last
      /\ ci.begin = chain[c].arrays[j].items[1]
  BY <1>1
<1>3. /\ j \in Nat /\ Len(chain[c].arrays[j].items) \in Nat \ {0}
      /\ chain[c].arrays[j].items[1] = Item(c, t + Plus(c))
  <2>1. /\ j \in Nat \ {0} /\ Len(chain[c].arrays[j].items) \in Nat \ {0}
        /\ \A k \in Nat : k < Len(chain[c].arrays[j].items) =>
              chain[c].arrays[j].items[k + 1] = Item(c, chain[c].arrays[j].start + k + Plus(c))
    BY ArrayFacts
  <2>2. chain[c].arrays[j].items[0 + 1] = Item(c, t + 0 + Plus(c))
    BY <2>1
  <2>3. Plus(c) \in Nat /\ t + 0 + Plus(c) = t + Plus(c)
    BY ChainFacts
  <2> QED
    BY <2>1, <2>2, <2>3
<1>4. Item(c, t + Plus(c)) \in Nat
  <2>1. t + Plus(c) \in Indices(c)
    BY ChainFacts
  <2> QED
    BY <2>1, ChainFacts
<1>5. ci \in CacheType /\ CacheItemOK(ci)
  <2>1. ci \in CacheType
    BY <1>1, <1>3, <1>4 DEF CacheType
  <2>2. CacheItemOK(ci)
    BY <1>2, <1>3 DEF CacheItemOK
  <2> QED
    BY <2>1, <2>2
<1>6. PICK old \in Seq(CacheType), m \in Nat :
         /\ old = cache /\ m = Len(old) /\ DOMAIN old = 1..m /\ m <= CHAIN_CACHE_MAX
         /\ \A k \in DOMAIN old : CacheItemOK(old[k])
         /\ \A i, k \in DOMAIN old : old[i].first = old[k].first => i = k
  BY DEF CacheInv
<1>7. CHAIN_CACHE_MAX \in Nat \ {0}
  BY SearchAssumption
<1>8. CASE Cached(c) # {}
  <2>1. PICK new : new = [k \in DOMAIN old |-> IF k \in Cached(c) THEN ci ELSE old[k]]
    OBVIOUS
  <2>2. ChainCachePut(c, j, t, last) = new
    BY <1>1, <1>6, <1>8, <2>1 DEF ChainCachePut
  <2>3. /\ DOMAIN new = 1..m
        /\ \A k \in 1..m : /\ new[k] = IF old[k].first = c THEN ci ELSE old[k]
                           /\ new[k] \in CacheType
    BY <1>5, <1>6, <2>1 DEF Cached
  <2>4. new \in Seq(CacheType) /\ Len(new) = m
    BY <2>1, <2>3
  <2>5. \A k \in DOMAIN new : CacheItemOK(new[k]) /\ new[k].first = old[k].first
    BY <1>2, <1>5, <1>6, <2>3
  <2> QED
    BY <1>6, <2>2, <2>3, <2>4, <2>5 DEF CacheInv
<1>9. CASE Cached(c) = {} /\ j = 1
  BY <1>9 DEF ChainCachePut
<1>10. CASE Cached(c) = {} /\ j # 1
  <2>1. PICK kept : kept = IF m >= CHAIN_CACHE_MAX THEN Tail(old) ELSE old
    OBVIOUS
  <2>2. ChainCachePut(c, j, t, last) = Append(kept, ci)
    BY <1>1, <1>6, <1>10, <2>1 DEF ChainCachePut
  <2>3. \A k \in DOMAIN old : old[k].first # c
    BY <1>6, <1>10 DEF Cached
  <2>4. PICK w \in Nat : /\ kept \in Seq(CacheType) /\ Len(kept) = w /\ w < CHAIN_CACHE_MAX
                         /\ \E e \in 0..1 : \A k \in 1..w : k + e \in 1..m /\ kept[k] = old[k + e]
    <3>1. CASE m >= CHAIN_CACHE_MAX
      <4>1. kept = Tail(old) /\ old # <<>> /\ m = CHAIN_CACHE_MAX
        BY <1>6, <1>7, <2>1, <3>1
      <4>2. /\ kept \in Seq(CacheType) /\ Len(kept) = m - 1
            /\ \A k \in 1..(m - 1) : kept[k] = old[k + 1]
        BY <1>6, <4>1
      <4>3. m - 1 \in Nat /\ m - 1 < CHAIN_CACHE_MAX /\ \A k \in 1..(m - 1) : k + 1 \in 1..m
        BY <1>7, <4>1
      <4> QED
        BY <4>2, <4>3
    <3>2. CASE ~(m >= CHAIN_CACHE_MAX)
      <4>1. kept = old /\ m < CHAIN_CACHE_MAX
        BY <1>6, <1>7, <2>1, <3>2
      <4>2. \A k \in 1..m : k + 0 \in 1..m /\ kept[k] = old[k + 0]
        BY <4>1
      <4> QED
        BY <1>6, <4>1, <4>2
    <3> QED
      BY <3>1, <3>2
  <2>5. PICK e \in 0..1 : \A k \in 1..w : k + e \in 1..m /\ kept[k] = old[k + e]
    BY <2>4
  <2>6. PICK new : new = Append(kept, ci)
    OBVIOUS
  <2>7. /\ new \in Seq(CacheType) /\ Len(new) = w + 1 /\ DOMAIN new = 1..(w + 1)
        /\ new[w + 1] = ci /\ \A k \in 1..w : new[k] = kept[k]
    BY <1>5, <2>4, <2>6
  <2>8. ASSUME NEW k \in DOMAIN new PROVE CacheItemOK(new[k])
    <3>1. CASE k = w + 1
      BY <1>5, <2>7, <3>1
    <3>2. CASE k # w + 1
      <4>1. k \in 1..w
        BY <2>7, <3>2
      <4>2. k + e \in DOMAIN old /\ new[k] = old[k + e]
        BY <1>6, <2>5, <2>7, <4>1
      <4> QED
        BY <1>6, <4>2
    <3> QED
      BY <3>1, <3>2
  <2>9. ASSUME NEW i \in DOMAIN new, NEW k \in DOMAIN new, new[i].first = new[k].first
        PROVE  i = k
    <3>1. ASSUME NEW z \in 1..w PROVE new[z].first # c
      <4>1. z + e \in DOMAIN old /\ new[z] = old[z + e]
        BY <1>6, <2>5, <2>7
      <4> QED
        BY <2>3, <4>1
    <3>2. CASE i \in 1..w /\ k \in 1..w
      <4>1. /\ i + e \in DOMAIN old /\ k + e \in DOMAIN old
            /\ new[i] = old[i + e] /\ new[k] = old[k + e]
        BY <1>6, <2>5, <2>7, <3>2
      <4>2. i + e = k + e
        BY <1>6, <2>9, <4>1
      <4> QED
        BY <3>2, <4>2
    <3>3. CASE i = w + 1 \/ k = w + 1
      BY <1>2, <2>7, <2>9, <3>1, <3>3
    <3> QED
      BY <2>7, <3>2, <3>3
  <2>10. Len(new) <= CHAIN_CACHE_MAX
    BY <1>7, <2>4, <2>7
  <2> QED
    BY <2>2, <2>6, <2>7, <2>8, <2>9, <2>10 DEF CacheInv
<1> QED
  BY <1>8, <1>9, <1>10

\* The search ends at item i of the array: the items before it are to the left of
\* the needle and those from there on to the right.
LEMMA FoundInv ==
    ASSUME IndexInv, CacheInv(cache), NEW r, ReaderInv(r), r.pc = "array",
           NEW i \in Nat, Found(r, i), r.at.n > 0, i <= r.at.n,
           i <= Len(chain[r.query.c].arrays[r.at.a].items),
           r.query.dir = Down =>
             i < r.at.n /\ i < Len(chain[r.query.c].arrays[r.at.a].items),
           \A x \in Indices(r.query.c) : x < r.n =>
             (IsRight(r.query, Item(r.query.c, x)) <=> x >= r.at.t + i + Plus(r.query.c)),
           NEW s, s = reader', NEW d, d = cache'
    PROVE  ReaderInv(s) /\ s.pc \notin {"head", "begin", "array"} /\ CacheInv(d)
<1>1. r \in ReaderType /\ CallInv(r) /\ CounterRead(r) /\ InLoop(r)
  BY DEF ReaderInv, BisectInv
<1>2. PICK q \in QueryType, c \in Chains, n \in Nat, e \in Nat, at \in LoopType :
         q = r.query /\ c = q.c /\ n = r.n /\ e = r.extra /\ at = r.at
  BY <1>1, ReaderTypes
<1>3. PICK a \in Nat, w \in Nat, t \in Nat, prev \in Nat :
         a = at.a /\ w = at.n /\ t = at.t /\ prev = at.prev
  BY DEF LoopType
<1>4. PICK items : items = chain[c].arrays[a].items
  OBVIOUS
<1>5. /\ n <= chain[c].n /\ chain[c].n \in Nat
      /\ c # Header => n > 0 /\ e = Item(c, 0)
      /\ a \in DOMAIN chain[c].arrays /\ t = chain[c].arrays[a].start
      /\ t + w + Plus(c) = n
      /\ \A x \in Indices(c) : x < t + Plus(c) => ~IsRight(q, Item(c, x))
      /\ t > 0 => \/ prev = Item(c, t + Plus(c) - 1)
                  \/ w > 0 /\ ~IsRight(q, Item(c, t + Plus(c)))
  BY <1>1, <1>2, <1>3, ChainFacts DEF CounterRead, InLoop
<1>6. /\ w > 0 /\ i <= w /\ i <= Len(items)
      /\ q.dir = Down => i < w /\ i < Len(items)
      /\ \A x \in Indices(c) : x < n => (IsRight(q, Item(c, x)) <=> x >= t + i + Plus(c))
  BY <1>2, <1>3, <1>4
<1>7. /\ items \in Seq(Nat) /\ Len(items) \in Nat \ {0}
      /\ \A k \in Nat : k < Len(items) => items[k + 1] = Item(c, t + k + Plus(c))
  BY <1>4, <1>5, ArrayFacts
<1>8. PICK plus \in 0..1 : plus = Plus(c) /\ plus = IF c = Header THEN 0 ELSE 1
  BY DEF Plus
<1>16. /\ t + w + plus = n /\ n <= chain[c].n /\ chain[c].n \in Nat
       /\ w > 0 /\ i <= w /\ (q.dir = Down => i < w)
  BY <1>5, <1>6, <1>8
<1>9. \A x \in Nat : x < n => x \in Indices(c)
  BY <1>5, ChainFacts
<1>10. q.dir \in {Down, Up} /\ Down # Up
  BY DEF QueryType, Down, Up
<1>11. CASE q.dir = Up /\ t = 0 /\ i = 0
  <2>1. s = NotFound(r) /\ d = cache
    BY <1>2, <1>3, <1>11 DEF Found, Step
  <2>2. c # Header => n > 0 /\ e = Item(c, 0) /\ ~IsRight(q, e)
    <3> SUFFICES ASSUME c # Header PROVE ~IsRight(q, e)
      BY <1>5
    <3>1. 0 \in Indices(c) /\ 0 < t + Plus(c)
      BY <1>5, <1>8, <1>9, <1>11
    <3> QED
      BY <1>5, <3>1
  <2>3. ASSUME NEW j \in Indices(c), j < n, Side(q, Item(c, j))
        PROVE  c # Header /\ q.dir = Up /\ j = 0
    <3>1. ~IsRight(q, Item(c, j))
      BY <1>10, <1>11, <2>3 DEF Side
    <3>2. j \in Nat /\ j < plus
      BY <1>6, <1>8, <1>11, <2>3, <3>1, ChainFacts
    <3> QED
      BY <1>8, <1>11, <3>2
  <2>4. Exhausted(r)
    BY <1>1, <1>2, <1>5, <2>2, <2>3 DEF Exhausted
  <2> QED
    BY <2>1, <2>4, NotFoundInv
\* What the cache is given, and the answer.
<1>12. ASSUME NEW last \in Nat \cup {NONE}, NEW p \in Nat, NEW j \in Nat,
              last # NONE => last < w /\ last < Len(items),
              d = ChainCachePut(c, a, t, last), s = IF p = 0 THEN Abort(r) ELSE Resume(r, p, j),
              j < n, p = Item(c, j), Side(q, p),
              \A x \in Indices(c) : x < n /\ Side(q, Item(c, x)) =>
                 IF q.dir = Down THEN j <= x ELSE x <= j
       PROVE  ReaderInv(s) /\ s.pc \notin {"head", "begin", "array"} /\ CacheInv(d)
  <2>1. t + Plus(c) < chain[c].n
    <3>1. t + plus < chain[c].n
      BY <1>16
    <3> QED
      BY <1>8, <3>1
  <2>2. last # NONE => /\ last < Len(chain[c].arrays[a].items)
                       /\ t + last + Plus(c) < chain[c].n
    <3> SUFFICES ASSUME last # NONE
                 PROVE  last < Len(items) /\ t + last + Plus(c) < chain[c].n
      BY <1>4
    <3>1. last \in Nat /\ last < w /\ last < Len(items)
      BY <1>12
    <3>2. t + last + plus < chain[c].n
      BY <1>16, <3>1
    <3> QED
      BY <1>8, <3>1, <3>2
  <2>3. CacheInv(d)
    BY <1>5, <1>12, <2>1, <2>2, CachePutInv
  <2>4. p # 0
    BY <1>9, <1>12, ChainFacts
  <2>5. Answer(q, n, p, j)
    BY <1>2, <1>12, <2>4 DEF Answer
  <2>6. Ends(r, p, j)
    BY <1>1, <1>2, <1>5, <1>12, <2>5 DEF Ends
  <2> QED
    BY <1>12, <2>3, <2>4, <2>6, ResumeInv
<1>13. CASE q.dir = Down
  <2>1. PICK p \in Nat, j \in Nat : p = items[i + 1] /\ j = t + i + plus
    BY <1>6, <1>7, <1>13
  <2>2. d = ChainCachePut(c, a, t, i) /\ s = IF p = 0 THEN Abort(r) ELSE Resume(r, p, j)
    <3>1. j = t + i + plus - 0
      BY <2>1
    <3>2. q.dir # Up
      BY <1>10, <1>13
    <3> QED
      BY <1>2, <1>3, <1>4, <1>8, <2>1, <3>1, <3>2 DEF Found, Step
  <2>3. j < n /\ p = Item(c, j)
    <3>1. j < n
      BY <1>13, <1>16, <2>1
    <3>2. p = Item(c, t + i + Plus(c))
      BY <1>6, <1>7, <1>13, <2>1
    <3> QED
      BY <1>8, <2>1, <3>1, <3>2
  <2>4. \A x \in Indices(c) : x < n => (Side(q, Item(c, x)) <=> x >= j)
    BY <1>6, <1>8, <1>13, <2>1 DEF Side
  <2>5. Side(q, p)
    <3>1. j \in Indices(c)
      BY <1>9, <2>3
    <3> QED
      BY <2>3, <2>4, <3>1
  <2>6. \A x \in Indices(c) : x < n /\ Side(q, Item(c, x)) => j <= x
    BY <2>4, ChainFacts
  <2>7. PICK last \in Nat \cup {NONE} : last = i
    OBVIOUS
  <2> QED
    BY <1>6, <1>12, <1>13, <2>2, <2>3, <2>5, <2>6, <2>7
<1>14. CASE q.dir = Up /\ i > 0
  <2>1. PICK p \in Nat, j \in Nat, last \in Nat \cup {NONE} :
           p = items[i] /\ j = t + i + plus - 1 /\ last = i - 1
    <3>1. items[i] \in Nat
      BY <1>6, <1>7, <1>14
    <3>2. t + i + plus - 1 \in Nat /\ i - 1 \in Nat
      BY <1>14
    <3> QED
      BY <3>1, <3>2
  <2>2. d = ChainCachePut(c, a, t, last) /\ s = IF p = 0 THEN Abort(r) ELSE Resume(r, p, j)
    <3>1. q.dir # Down /\ i # 0
      BY <1>10, <1>14
    <3> QED
      BY <1>2, <1>3, <1>4, <1>8, <1>14, <2>1, <3>1 DEF Found, Step
  <2>3. j < n /\ p = Item(c, j)
    <3>1. (i - 1) + 1 = i /\ i - 1 \in Nat /\ i - 1 < Len(items)
      BY <1>6, <1>7, <1>14
    <3>2. items[(i - 1) + 1] = Item(c, t + (i - 1) + Plus(c))
      BY <1>7, <3>1
    <3>3. t + (i - 1) + plus = j
      BY <2>1
    <3>4. j < n
      BY <1>16, <2>1
    <3> QED
      BY <1>8, <2>1, <3>1, <3>2, <3>3, <3>4
  <2>4. \A x \in Indices(c) : x < n => (Side(q, Item(c, x)) <=> x <= j)
    <3> SUFFICES ASSUME NEW x \in Indices(c), x < n
                 PROVE  Side(q, Item(c, x)) <=> x <= j
      OBVIOUS
    <3>1. x \in Nat
      BY ChainFacts
    <3>2. x >= t + i + plus <=> ~(x <= j)
      BY <2>1, <3>1
    <3> QED
      BY <1>6, <1>8, <1>10, <1>14, <3>2 DEF Side
  <2>5. Side(q, p)
    <3>1. j \in Indices(c)
      BY <1>9, <2>3
    <3> QED
      BY <2>3, <2>4, <3>1
  <2>6. last # NONE => last < w /\ last < Len(items)
    BY <1>6, <1>7, <2>1
  <2> QED
    BY <1>10, <1>12, <1>14, <2>2, <2>3, <2>4, <2>5, <2>6
<1>15. CASE q.dir = Up /\ i = 0 /\ t # 0
  <2>1. t + Plus(c) \in Indices(c) /\ t + Plus(c) < n /\ t + Plus(c) >= t + i + Plus(c)
    BY <1>5, <1>6, <1>8, <1>9, <1>15
  <2>2. prev = Item(c, t + Plus(c) - 1)
    BY <1>5, <1>6, <1>15, <2>1
  <2>3. PICK j \in Nat, last \in Nat \cup {NONE} : j = t + i + plus - 1 /\ last = NONE
    <3>1. t + i + plus - 1 \in Nat
      BY <1>15
    <3> QED
      BY <3>1
  <2>4. d = ChainCachePut(c, a, t, last) /\ s = IF prev = 0 THEN Abort(r) ELSE Resume(r, prev, j)
    <3>1. q.dir # Down /\ ~(i > 0)
      BY <1>10, <1>15
    <3> QED
      BY <1>2, <1>3, <1>4, <1>8, <1>15, <2>3, <3>1 DEF Found, Step
  <2>5. j < n /\ prev = Item(c, j)
    <3>1. t + plus - 1 = j
      BY <1>15, <2>3
    <3>2. j < n
      BY <1>15, <1>16, <2>3
    <3> QED
      BY <1>8, <2>2, <3>1, <3>2
  <2>6. \A x \in Indices(c) : x < n => (Side(q, Item(c, x)) <=> x <= j)
    <3> SUFFICES ASSUME NEW x \in Indices(c), x < n
                 PROVE  Side(q, Item(c, x)) <=> x <= j
      OBVIOUS
    <3>1. x \in Nat
      BY ChainFacts
    <3>2. x >= t + i + plus <=> ~(x <= j)
      BY <2>3, <3>1
    <3> QED
      BY <1>6, <1>8, <1>10, <1>15, <3>2 DEF Side
  <2>7. Side(q, prev)
    <3>1. j \in Indices(c)
      BY <1>9, <2>5
    <3> QED
      BY <2>5, <2>6, <3>1
  <2> QED
    BY <1>10, <1>12, <1>15, <2>3, <2>4, <2>5, <2>6, <2>7
<1> QED
  BY <1>10, <1>11, <1>13, <1>14, <1>15

\* All the entries counted are to the left of the needle, and nothing is found if
\* the search goes downwards, if no array was entered or if one is full.
LEMMA AllLeftInv ==
    ASSUME IndexInv, NEW r \in ReaderType, r.pc = "array", CallInv(r),
           r.n <= chain[r.query.c].n,
           r.query.c # Header => r.n > 0 /\ r.extra = Item(r.query.c, 0),
           \A x \in Indices(r.query.c) : x < r.n => ~IsRight(r.query, Item(r.query.c, x)),
           \/ r.query.dir = Down
           \/ r.n <= Plus(r.query.c)
           \/ \E j \in DOMAIN chain[r.query.c].arrays :
                 End(chain[r.query.c].arrays[j]) + Plus(r.query.c) = r.n
    PROVE  ReaderInv(NotFound(r)) /\ NotFound(r).pc \notin {"head", "begin", "array"}
<1>1. PICK q \in QueryType, c \in Chains, n \in Nat, e \in Nat :
         q = r.query /\ c = q.c /\ n = r.n /\ e = r.extra
  BY ReaderTypes
<1>2. /\ n <= chain[c].n /\ chain[c].n \in Nat
      /\ c # Header => n > 0 /\ e = Item(c, 0)
      /\ \A x \in Indices(c) : x < n => ~IsRight(q, Item(c, x))
      /\ \/ q.dir = Down \/ n <= Plus(c)
         \/ \E j \in DOMAIN chain[c].arrays : End(chain[c].arrays[j]) + Plus(c) = n
  BY <1>1, ChainFacts
<1>3. \A x \in Nat : x < n => x \in Indices(c)
  BY <1>2, ChainFacts
<1>4. PICK plus \in 0..1 : plus = Plus(c) /\ plus = IF c = Header THEN 0 ELSE 1
  BY DEF Plus
<1>5. c # Header => n > 0 /\ e = Item(c, 0) /\ ~IsRight(q, e)
  BY <1>2, <1>3
<1>6. ASSUME ~Full(q, n), NEW j \in Indices(c), j < n, Side(q, Item(c, j))
      PROVE  c # Header /\ q.dir = Up /\ j = 0
  <2>1. j \in Nat /\ q.dir = Up /\ q.dir # Down
    <3>1. q.dir \in {Down, Up} /\ Down # Up
      BY DEF QueryType, Down, Up
    <3> QED
      BY <1>2, <1>6, <3>1, ChainFacts DEF Side
  <2>2. ASSUME NEW i \in DOMAIN chain[c].arrays, End(chain[c].arrays[i]) + Plus(c) = n
        PROVE  FALSE
    <3>1. PICK m \in Nat : m = n - 1
      BY <1>6, <2>1
    <3>2. m \in Indices(c) /\ m < n
      BY <1>3, <3>1
    <3>3. Side(q, Item(c, m))
      BY <1>2, <2>1, <3>2 DEF Side
    <3>4. PICK end \in Nat : end = End(chain[c].arrays[i])
      BY ArrayFacts
    <3>5. end = ArrayIndex(c, n)
      <4>1. end + plus = n
        BY <1>4, <2>2, <3>4
      <4>2. CASE c = Header
        BY <1>4, <4>1, <4>2 DEF ArrayIndex
      <4>3. CASE c # Header
        BY <1>4, <4>1, <4>3 DEF ArrayIndex
      <4> QED
        BY <4>2, <4>3
    <3>6. Full(q, n)
      <4>1. n > 0 /\ Side(q, Item(q.c, n - 1))
        BY <1>1, <1>6, <2>1, <3>1, <3>3
      <4>2. i \in DOMAIN chain[q.c].arrays /\ End(chain[q.c].arrays[i]) = ArrayIndex(q.c, n)
        BY <1>1, <3>4, <3>5
      <4> QED
        BY <2>1, <4>1, <4>2 DEF Full
    <3> QED
      BY <1>6, <3>6
  <2>3. n <= plus
    BY <1>2, <1>4, <2>1, <2>2
  <2> QED
    BY <1>4, <1>6, <2>1, <2>3
<1>7. Exhausted(r)
  BY <1>1, <1>2, <1>5, <1>6 DEF Exhausted
<1> QED
  BY <1>7, NotFoundInv

\* One turn of the loop over the arrays.
LEMMA SearchArrayInv ==
    ASSUME IndexInv, CacheInv(cache), ReaderInv(reader), SearchArray,
           NEW s, s = reader', NEW d, d = cache'
    PROVE  /\ ReaderInv(s) /\ CacheInv(d)
           /\ d = cache \/ s.pc \notin {"head", "begin", "array"}
<1>1. PICK r : r = reader /\ r.pc = "array" /\ ReaderInv(r)
  BY DEF SearchArray
<1>2. r \in ReaderType /\ CallInv(r) /\ CounterRead(r) /\ InLoop(r)
  BY <1>1 DEF ReaderInv, BisectInv
<1>3. PICK q \in QueryType, c \in Chains, n \in Nat, e \in Nat, at \in LoopType :
         q = r.query /\ c = q.c /\ n = r.n /\ e = r.extra /\ at = r.at
  BY <1>2, ReaderTypes
<1>4. PICK a \in Nat, w \in Nat, t \in Nat, last \in Nat \cup {NONE} :
         a = at.a /\ w = at.n /\ t = at.t /\ last = at.last
  BY DEF LoopType
<1>5. PICK items : items = chain[c].arrays[a].items
  OBVIOUS
<1>6. /\ n <= chain[c].n /\ chain[c].n \in Nat
      /\ c # Header => n > 0 /\ e = Item(c, 0)
      /\ a \in DOMAIN chain[c].arrays /\ t = chain[c].arrays[a].start
      /\ t + w + Plus(c) = n
      /\ last # NONE => last < w /\ last < Len(items)
      /\ \A x \in Indices(c) : x < t + Plus(c) => ~IsRight(q, Item(c, x))
  BY <1>2, <1>3, <1>4, <1>5, ChainFacts DEF CounterRead, InLoop
<1>7. PICK plus \in 0..1 : plus = Plus(c)
  BY DEF Plus
<1>8. PICK k \in Nat : /\ k = Len(items) /\ k > 0 /\ items \in Seq(Nat)
                       /\ End(chain[c].arrays[a]) = t + k
                       /\ \A j \in Nat : j < k => items[j + 1] = Item(c, t + j + plus)
  <2>1. /\ Len(chain[c].arrays[a].items) \in Nat \ {0} /\ chain[c].arrays[a].items \in Seq(Nat)
        /\ End(chain[c].arrays[a]) = chain[c].arrays[a].start + Len(chain[c].arrays[a].items)
        /\ \A j \in Nat : j < Len(chain[c].arrays[a].items) =>
              chain[c].arrays[a].items[j + 1] = Item(c, chain[c].arrays[a].start + j + Plus(c))
    BY <1>6, ArrayFacts
  <2>2. /\ Len(items) \in Nat \ {0} /\ items \in Seq(Nat)
        /\ End(chain[c].arrays[a]) = t + Len(items)
        /\ \A j \in Nat : j < Len(items) => items[j + 1] = Item(c, t + j + plus)
    BY <1>5, <1>6, <1>7, <2>1
  <2>3. Len(items) > 0
    BY <2>2
  <2>4. PICK len \in Nat : len = Len(items)
    BY <2>2
  <2> QED
    BY <2>2, <2>3, <2>4
<1>22. /\ r.at.n = w /\ r.at.a = a /\ r.at.t = t /\ r.query = q /\ r.query.c = c /\ r.n = n
       /\ Len(chain[r.query.c].arrays[r.at.a].items) = k
  BY <1>3, <1>4, <1>5, <1>8
<1>9. t + w + plus = n
  BY <1>6, <1>7
<1>10. /\ \A x \in Nat : x < n => x \in Indices(c)
       /\ \A x \in Indices(c) : x \in Nat /\ Item(c, x) \in Nat \ {0}
       /\ \A x, y \in Indices(c) : x <= y => Item(c, x) <= Item(c, y)
  BY <1>6, ChainFacts
<1>11. \A x, y \in Indices(c) : x <= y /\ IsRight(q, Item(c, x)) => IsRight(q, Item(c, y))
  BY <1>10, RightAscends
<1>12. PICK right \in Nat : right = IF k < w THEN k ELSE w
  OBVIOUS
<1>13. right <= k /\ right <= w
  BY <1>12
<1> DEFINE next == IF a < Len(chain[c].arrays) THEN a + 1 ELSE 0
           z == [r EXCEPT !.at = [a |-> next, n |-> w - k, t |-> t + k, last |-> NONE,
                                  prev |-> items[right]]]
           Goal == /\ ReaderInv(s) /\ CacheInv(d)
                   /\ d = cache \/ s.pc \notin {"head", "begin", "array"}
<1>14. \/ right = 0 /\ s = NotFound(r) /\ d = cache
       \/ right > 0 /\ items[right] = 0 /\ s = Abort(r) /\ d = cache
       \/ /\ right > 0 /\ items[right] # 0 /\ IsRight(q, items[right])
          /\ IF last # NONE /\ last > right - 1
             THEN s = Abort(r) /\ d = cache
             ELSE Found(r, Halve(q, items)[Narrow(q, items, last, right - 1)])
       \/ /\ right > 0 /\ items[right] # 0 /\ ~IsRight(q, items[right])
          /\ IF k > w
             THEN IF q.dir = Up THEN Found(r, w) ELSE s = NotFound(r) /\ d = cache
             ELSE s = (IF next = 0 THEN NotFound(z) ELSE z) /\ d = cache
  BY <1>1, <1>3, <1>4, <1>5, <1>8, <1>12 DEF SearchArray, Step
\* The last item looked at.
<1>15. right > 0 => /\ items[right] = Item(c, t + right - 1 + plus)
                    /\ t + right - 1 + plus \in Indices(c) /\ t + right - 1 + plus < n
  <2> SUFFICES ASSUME right > 0
               PROVE  /\ items[right] = Item(c, t + right - 1 + plus)
                      /\ t + right - 1 + plus \in Indices(c) /\ t + right - 1 + plus < n
    OBVIOUS
  <2>1. PICK j \in Nat : j = right - 1
    OBVIOUS
  <2>2. j < k /\ j + 1 = right /\ t + j + plus = t + right - 1 + plus /\ t + j + plus \in Nat
    BY <1>13, <2>1
  <2>3. t + j + plus < n
    BY <1>9, <1>13, <2>1
  <2> QED
    BY <1>8, <1>10, <2>2, <2>3
<1>16. right > 0 => items[right] # 0
  BY <1>10, <1>15
<1>17. CASE right = 0 /\ s = NotFound(r) /\ d = cache
  <2>1. w = 0 /\ n = t + plus
    BY <1>8, <1>9, <1>12, <1>17
  <2>2. \A x \in Indices(c) : x < n => ~IsRight(q, Item(c, x))
    BY <1>6, <1>7, <2>1
  <2>3. n <= Plus(c) \/ \E j \in DOMAIN chain[c].arrays : End(chain[c].arrays[j]) + Plus(c) = n
    <3>1. CASE t = 0
      BY <1>7, <2>1, <3>1
    <3>2. CASE t # 0
      <4>1. PICK len \in Nat : DOMAIN chain[c].arrays = 1..len
        BY ArraysReach
      <4>2. a # 1
        <5>1. chain[c].arrays # <<>>
          BY <1>6
        <5> QED
          BY <1>6, <3>2, <5>1, ArraysReach
      <4>3. a - 1 \in DOMAIN chain[c].arrays /\ a = (a - 1) + 1
        BY <1>6, <4>1, <4>2
      <4>4. End(chain[c].arrays[a - 1]) = t
        BY <1>6, <4>3, ArraysReach
      <4> QED
        BY <1>7, <2>1, <4>3, <4>4
    <3> QED
      BY <3>1, <3>2
  <2> QED
    BY <1>1, <1>2, <1>3, <1>6, <1>17, <2>2, <2>3, AllLeftInv
<1>18. CASE /\ right > 0 /\ IsRight(q, items[right])
            /\ IF last # NONE /\ last > right - 1
               THEN s = Abort(r) /\ d = cache
               ELSE Found(r, Halve(q, items)[Narrow(q, items, last, right - 1)])
  <2>1. PICK top \in Nat : top = right - 1 /\ top + 1 = right
    BY <1>18
  <2>2. last # NONE => last \in Nat /\ last <= top
    <3> SUFFICES ASSUME last # NONE PROVE last \in Nat /\ last <= top
      OBVIOUS
    <3>1. last \in Nat /\ last < w /\ last < k
      BY <1>6, <1>8
    <3> QED
      BY <1>12, <2>1, <3>1
  <2>3. ~(last # NONE /\ last > right - 1)
    BY <2>1, <2>2
  <2>4. Found(r, Halve(q, items)[Narrow(q, items, last, top)])
    BY <1>18, <2>1, <2>3
  <2>5. top < Len(items) /\ IsRight(q, items[top + 1])
    BY <1>8, <1>13, <1>18, <2>1
  <2>6. ASSUME NEW i \in 0..top
        PROVE  /\ items[i + 1] = Item(c, t + i + plus)
               /\ t + i + plus \in Indices(c) /\ t + i + plus < n
    <3>1. i \in Nat /\ i < k /\ t + i + plus \in Nat /\ t + i + plus < n
      BY <1>9, <1>13, <2>1
    <3> QED
      BY <1>8, <1>10, <3>1
  <2>7. ASSUME NEW i \in 0..top, NEW j \in 0..top, i <= j, IsRight(q, items[i + 1])
        PROVE  IsRight(q, items[j + 1])
    <3>1. t + i + plus <= t + j + plus
      BY <2>7
    <3> QED
      BY <1>11, <2>6, <2>7, <3>1
  <2>8. PICK lo \in 0..top, hi \in 0..top :
           /\ Narrow(q, items, last, top) = <<lo, hi>>
           /\ lo <= hi /\ IsRight(q, items[hi + 1])
           /\ \A i \in 0..top : i < lo => ~IsRight(q, items[i + 1])
    <3>1. last # NONE => last <= top
      BY <2>2
    <3> QED
      BY <1>8, <2>5, <2>7, <3>1, NarrowKeeps
  <2>9. PICK h : h = Halve(q, items)[<<lo, hi>>]
    OBVIOUS
  <2>10. /\ h \in lo..hi /\ IsRight(q, items[h + 1])
         /\ \A i \in lo..hi : i < h => ~IsRight(q, items[i + 1])
    BY <1>8, <2>5, <2>7, <2>8, <2>9, HalveFinds
  <2>11. h \in Nat /\ h <= top /\ h \in 0..top /\ \A i \in 0..top : i < h => ~IsRight(q, items[i + 1])
    BY <2>8, <2>10
  <2>12. ASSUME NEW x \in Indices(c), x < n
         PROVE  IsRight(q, Item(c, x)) <=> x >= t + h + plus
    <3>1. x \in Nat
      BY <1>10
    <3>2. CASE x >= t + h + plus
      <4>1. t + h + plus \in Indices(c) /\ IsRight(q, Item(c, t + h + plus))
        BY <2>6, <2>10, <2>11
      <4>2. t + h + plus <= x
        BY <2>11, <3>1, <3>2
      <4> QED
        BY <1>11, <3>2, <4>1, <4>2
    <3>3. CASE x < t + plus
      <4>1. x < t + Plus(c)
        BY <1>7, <3>3
      <4>2. ~IsRight(q, Item(c, x))
        BY <1>6, <4>1
      <4>3. ~(x >= t + h + plus)
        BY <2>11, <3>1, <3>3
      <4> QED
        BY <4>2, <4>3
    <3>4. CASE x >= t + plus /\ ~(x >= t + h + plus)
      <4>1. PICK i \in Nat : x = t + i + plus /\ i < h /\ i \in 0..top
        <5>1. x - t - plus \in Nat /\ x - t - plus < h /\ x = t + (x - t - plus) + plus
          BY <2>11, <3>1, <3>4
        <5>2. x - t - plus \in 0..top
          BY <2>11, <5>1
        <5> QED
          BY <5>1, <5>2
      <4> QED
        BY <2>6, <2>11, <3>4, <4>1
    <3> QED
      BY <2>11, <3>1, <3>2, <3>3, <3>4
  <2>13. w > 0 /\ h < w /\ h < k
    BY <1>13, <2>1, <2>11
  <2>14. Found(r, h)
    BY <2>4, <2>8, <2>9
  <2>15. /\ r.at.n > 0 /\ h <= r.at.n /\ h <= Len(chain[r.query.c].arrays[r.at.a].items)
         /\ h < r.at.n /\ h < Len(chain[r.query.c].arrays[r.at.a].items)
    BY <1>22, <2>11, <2>13
  <2>16. \A x \in Indices(r.query.c) : x < r.n =>
            (IsRight(r.query, Item(r.query.c, x)) <=> x >= r.at.t + h + Plus(r.query.c))
    BY <1>3, <1>4, <1>7, <2>12
  <2> QED
    BY <1>1, <2>11, <2>14, <2>15, <2>16, FoundInv
\* Everything up to the last item looked at is to the left.
<1>19. ASSUME right > 0, ~IsRight(q, items[right]), NEW x \in Indices(c), x < t + right + plus
       PROVE  ~IsRight(q, Item(c, x))
  <2>1. x \in Nat /\ x <= t + right - 1 + plus
    BY <1>10, <1>19
  <2> QED
    BY <1>11, <1>15, <1>19, <2>1
<1>20. CASE /\ right > 0 /\ ~IsRight(q, items[right]) /\ k > w
            /\ IF q.dir = Up THEN Found(r, w) ELSE s = NotFound(r) /\ d = cache
  <2>1. right = w /\ t + right + plus = n /\ w > 0
    BY <1>9, <1>12, <1>20
  <2>2. \A x \in Indices(c) : x < n => ~IsRight(q, Item(c, x))
    BY <1>19, <1>20, <2>1
  <2>3. CASE q.dir = Up
    <3>1. Found(r, w) /\ r.query.dir # Down
      BY <1>3, <1>20, <2>3 DEF Down, Up
    <3>2. ASSUME NEW x \in Indices(c), x < n
          PROVE  IsRight(q, Item(c, x)) <=> x >= t + w + plus
      <4>1. ~(x >= t + w + plus)
        BY <1>9, <1>10, <3>2
      <4> QED
        BY <2>2, <3>2, <4>1
    <3>3. /\ r.at.n > 0 /\ w <= r.at.n
          /\ w <= Len(chain[r.query.c].arrays[r.at.a].items)
      BY <1>20, <1>22, <2>1
    <3>4. \A x \in Indices(r.query.c) : x < r.n =>
             (IsRight(r.query, Item(r.query.c, x)) <=> x >= r.at.t + w + Plus(r.query.c))
      BY <1>3, <1>4, <1>7, <3>2
    <3> QED
      BY <1>1, <3>1, <3>3, <3>4, FoundInv
  <2>4. CASE q.dir # Up
    <3>1. q.dir = Down
      BY <2>4 DEF QueryType
    <3>2. s = NotFound(r) /\ d = cache
      BY <1>20, <2>4
    <3> QED
      BY <1>1, <1>2, <1>3, <1>6, <2>2, <3>1, <3>2, AllLeftInv
  <2> QED
    BY <2>3, <2>4
<1>21. CASE /\ right > 0 /\ ~IsRight(q, items[right]) /\ ~(k > w)
            /\ s = (IF next = 0 THEN NotFound(z) ELSE z) /\ d = cache
  <2>1. right = k
    BY <1>12, <1>21
  <2>2. PICK prev \in Nat, rest \in Nat, passed \in Nat, to \in Nat :
           prev = items[right] /\ rest = w - k /\ passed = t + k /\ to = next
    <3>1. items[right] \in Nat
      BY <1>10, <1>15, <1>21
    <3>2. w - k \in Nat /\ t + k \in Nat
      BY <1>21
    <3>3. next \in Nat
      OBVIOUS
    <3> HIDE DEF next
    <3> QED
      BY <3>1, <3>2, <3>3
  <2>3. PICK l : l = [a |-> to, n |-> rest, t |-> passed, last |-> NONE, prev |-> prev]
    OBVIOUS
  <2>4. /\ l \in LoopType /\ l.a = to /\ l.n = rest /\ l.t = passed /\ l.last = NONE
        /\ l.prev = prev
    BY <2>3 DEF LoopType
  <2>5. PICK y : y = [r EXCEPT !.at = l] /\ y = z
    BY <2>2, <2>3
  <2> HIDE DEF z, next
  <2>6. /\ y \in ReaderType /\ y.pc = "array" /\ y.at = l /\ y.n = r.n /\ y.extra = r.extra
        /\ y.call = r.call /\ y.query = r.query /\ y.count = r.count
    BY <1>1, <1>2, <2>4, <2>5 DEF ReaderType
  <2>7. CallInv(y)
    BY <1>1, <1>2, <2>6, CallSame
  <2>8. \A x \in Indices(c) : x < passed + plus => ~IsRight(q, Item(c, x))
    BY <1>19, <1>21, <2>1, <2>2
  <2>9. CASE next = 0
    <3>1. s = NotFound(y)
      BY <1>21, <2>5, <2>9
    <3>2. a = Len(chain[c].arrays)
      BY <1>6, <2>9, ArraysReach DEF next
    <3>3. n <= t + k + plus
      <4>1. chain[c].arrays # <<>>
        BY <1>6
      <4>2. chain[c].n <= t + k + plus
        <5>1. chain[c].n <= End(chain[c].arrays[a]) + Plus(c)
          BY <3>2, <4>1, ArraysReach
        <5> QED
          BY <1>7, <1>8, <5>1
      <4>3. PICK total \in Nat : total = chain[c].n /\ n <= total
        BY <1>6
      <4>4. total <= t + k + plus
        BY <4>2, <4>3
      <4> QED
        BY <4>3, <4>4
    <3>4. n = t + k + plus
      BY <1>9, <1>21, <3>3
    <3>5. End(chain[c].arrays[a]) + Plus(c) = n
      BY <1>7, <1>8, <3>4
    <3>6. \A x \in Indices(c) : x < n => ~IsRight(q, Item(c, x))
      BY <2>2, <2>8, <3>4
    <3>7. ReaderInv(NotFound(y)) /\ NotFound(y).pc \notin {"head", "begin", "array"}
      BY <1>3, <1>6, <2>6, <2>7, <3>5, <3>6, AllLeftInv
    <3> QED
      BY <1>21, <3>1, <3>7
  <2>10. CASE next # 0
    <3>1. s = y
      BY <1>21, <2>5, <2>10
    <3>2. to = a + 1 /\ to \in DOMAIN chain[c].arrays
      BY <1>6, <2>2, <2>10, ArraysReach DEF next
    <3>3. chain[c].arrays[to].start = passed
      BY <1>6, <1>8, <2>2, <3>2, ArraysReach
    <3>4. passed + rest + plus = n
      BY <1>9, <1>21, <2>2
    <3>5. prev = Item(c, passed + plus - 1)
      <4>1. passed + plus - 1 = t + right - 1 + plus
        BY <2>1, <2>2
      <4> QED
        BY <1>15, <1>21, <2>2, <4>1
    <3>6. CounterRead(y)
      BY <1>3, <1>6, <2>6 DEF CounterRead
    <3>7. InLoop(y)
      BY <1>3, <1>6, <1>7, <2>4, <2>6, <2>8, <3>2, <3>3, <3>4, <3>5 DEF InLoop
    <3>8. BisectInv(y)
      BY <2>6, <3>6, <3>7 DEF BisectInv
    <3>9. ReaderInv(y)
      BY <2>6, <2>7, <3>8 DEF ReaderInv
    <3> QED
      BY <1>21, <3>1, <3>9
  <2> QED
    BY <2>9, <2>10
<1> QED
  BY <1>14, <1>16, <1>17, <1>18, <1>20, <1>21

\* The operation ends with the entry at the index it went to.
LEMMA GetDone ==
    ASSUME IndexInv, NEW r \in ReaderType, r.pc = "get", CallInv(r),
           NEW p \in Nat, p = Item(r.query.c, r.idx), NEW s, s = Return(r, p, r.idx)
    PROVE  ReaderInv(s) /\ s.pc = "done"
<1>1. /\ s \in ReaderType /\ s.pc = "done" /\ s.res = p /\ s.idx = r.idx
      /\ s.call = r.call /\ s.query = r.query /\ s.n = r.n /\ s.count = r.count
  BY DEF Return, ReaderType
<1>2. ~Bisecting(r) /\ ~Bisecting(s)
  BY <1>1 DEF Bisecting
<1>3. ~SeekInv(r) /\ ~BothInv(r)
  BY <1>2 DEF SeekInv, BothInv
<1>4. NextInv(r) => NextInv(s)
  <2>1. NextIndex(r, r.idx) => NextIndex(s, r.idx)
    BY <1>1 DEF NextIndex
  <2> QED
    BY <1>1, <1>2, <2>1 DEF NextInv
<1>5. SkipInv(r) => SkipInv(s)
  <2>1. \A k : SkipTo(r, k) => SkipTo(s, k)
    BY <1>1 DEF SkipTo
  <2> QED
    BY <1>1, <1>2, <2>1 DEF SkipInv
<1>6. CallInv(s)
  BY <1>1, <1>3, <1>4, <1>5 DEF CallInv
<1> QED
  BY <1>1, <1>6, OutOfLoop

\* The index gone to is one of those counted.
LEMMA GetIndex ==
    ASSUME IndexInv, NEW r \in ReaderType, r.pc = "get", CallInv(r)
    PROVE  /\ r.idx \in Nat /\ r.query.c \in Chains /\ r.idx < chain[r.query.c].n
           /\ r.idx \in Indices(r.query.c)
           /\ r.call.name = "next" => NextInv(r)
<1>1. ~SeekInv(r) /\ ~BothInv(r) /\ r.call.name \in {"seek", "next", "skip", "both"}
  BY DEF SeekInv, BothInv, Bisecting, CallInv, ReaderType, CallType
<1>2. PICK c \in Chains, i \in Nat, count \in Nat, n \in Nat :
         c = r.query.c /\ i = r.idx /\ count = r.count /\ n = chain[c].n
  BY ReaderTypes, ChainFacts
<1>3. i < count /\ count <= n
  <2>1. NextInv(r) => i < count /\ count <= n
    BY <1>2 DEF NextInv
  <2>2. SkipInv(r) => i < count /\ count <= n
    BY <1>2 DEF SkipInv
  <2> QED
    BY <1>1, <2>1, <2>2 DEF CallInv
<1>4. i < n
  BY <1>3
<1> QED
  BY <1>2, <1>4, ChainFacts DEF CallInv

\* The walk of generic_array_get() ends at the entry wanted.
LEMMA GetEntryInv ==
    ASSUME IndexInv, CacheInv(cache), ReaderInv(reader), GetEntry,
           NEW s, s = reader', NEW d, d = cache'
    PROVE  ReaderInv(s) /\ CacheInv(d) /\ s.pc \notin {"head", "begin", "array"}
<1>1. PICK r : r = reader /\ r.pc = "get" /\ ReaderInv(r)
  BY DEF GetEntry
<1>2. r \in ReaderType /\ CallInv(r)
  BY <1>1 DEF ReaderInv
<1>3. PICK c \in Chains, idx \in Nat, n \in Nat :
         c = r.query.c /\ idx = r.idx /\ n = chain[c].n /\ idx < n /\ idx \in Indices(c)
  BY <1>1, <1>2, GetIndex, ChainFacts
<1>4. PICK p \in Nat : p = Item(c, idx) /\ p # 0
  BY <1>3, ChainFacts
<1>5. ASSUME s = Return(r, p, idx) PROVE ReaderInv(s) /\ s.pc = "done"
  BY <1>1, <1>2, <1>3, <1>4, <1>5, GetDone
<1>6. CASE c # Header /\ idx = 0
  <2>1. s = Return(r, chain[c].extra, 0) /\ d = cache
    BY <1>1, <1>3, <1>6 DEF GetEntry, Step
  <2>2. chain[c].extra = p
    BY <1>4, <1>6, ChainFacts
  <2> QED
    BY <1>5, <1>6, <2>1, <2>2
<1>7. CASE ~(c # Header /\ idx = 0)
  <2>1. PICK i \in Nat, plus \in 0..1 : i = ArrayIndex(c, idx) /\ plus = Plus(c) /\ i + plus = idx
    BY <1>7 DEF ArrayIndex, Plus
  <2>2. GetFromArrays(r, i)
    BY <1>1, <1>3, <1>7, <2>1 DEF GetEntry
  <2>3. PICK arrays : arrays = chain[c].arrays
    OBVIOUS
  <2>4. i + plus < n
    BY <1>3, <2>1
  <2>5. PICK len \in Nat : /\ len = Len(arrays) /\ DOMAIN arrays = 1..len
    BY <2>3, ArraysReach
  <2>6. PICK m \in 1..len : arrays[m].start <= i /\ i < End(arrays[m])
    <3>1. i + Plus(c) < chain[c].n
      BY <1>3, <2>1, <2>4
    <3> QED
      BY <2>3, <2>5, <3>1, ArraysReach
  <2>7. arrays # <<>> /\ len > 0
    BY <2>5, <2>6
  <2>8. \A x \in 1..len : arrays[x].start \in Nat /\ End(arrays[x]) \in Nat
                          /\ arrays[x].start < End(arrays[x])
    <3> SUFFICES ASSUME NEW x \in 1..len
                 PROVE  arrays[x].start \in Nat /\ End(arrays[x]) \in Nat
                        /\ arrays[x].start < End(arrays[x])
      OBVIOUS
    <3>1. /\ arrays[x].start \in Nat /\ Len(arrays[x].items) \in Nat \ {0}
          /\ End(arrays[x]) = arrays[x].start + Len(arrays[x].items)
      BY <2>3, <2>5, ArrayFacts
    <3> QED
      BY <3>1
  <2>9. \A x, y \in 1..len : x < y => End(arrays[x]) <= arrays[y].start
    BY <2>3, <2>5, ArraysReach
  <2> DEFINE skip == Cached(c) # {} /\ i > CacheItem(c).total
             a0 == IF skip THEN CacheItem(c).array ELSE 1
             t0 == IF skip THEN CacheItem(c).total ELSE 0
  <2>10. a0 \in 1..len /\ t0 \in Nat /\ arrays[a0].start = t0 /\ t0 <= i
    <3>1. CASE skip
      <4>1. PICK k \in Cached(c) : CacheItem(c) = cache[k]
        BY <3>1 DEF CacheItem
      <4>2. cache[k].first = c /\ CacheItemOK(cache[k]) /\ cache[k] \in CacheType
        BY DEF Cached, CacheInv
      <4>3. /\ cache[k].array \in 1..len /\ cache[k].total = arrays[cache[k].array].start
            /\ cache[k].total \in Nat
        BY <2>3, <2>5, <4>2 DEF CacheItemOK, CacheType
      <4>4. a0 = cache[k].array /\ t0 = cache[k].total /\ i > t0
        BY <3>1, <4>1
      <4> HIDE DEF a0, t0
      <4> QED
        BY <4>3, <4>4
    <3>2. CASE ~skip
      <4>1. a0 = 1 /\ t0 = 0
        BY <3>2
      <4>2. arrays[1].start = 0
        BY <2>3, <2>7, ArraysReach
      <4> HIDE DEF a0, t0
      <4> QED
        BY <2>7, <4>1, <4>2
    <3> QED
      BY <3>1, <3>2
  <2>11. PICK a \in 1..len, t \in Nat : a = a0 /\ t = t0 /\ arrays[a].start = t /\ t <= i
    BY <2>10
  <2>12. arrays[a].start + i - t = i
    BY <2>11
  <2> DEFINE Has(x) == arrays[x].start <= arrays[a].start + i - t
                         /\ arrays[a].start + i - t < End(arrays[x])
             j0 == CHOOSE x \in a..Len(arrays) : Has(x)
  <2>13. m >= a
    <3> SUFFICES ASSUME m < a PROVE FALSE
      OBVIOUS
    <3>1. End(arrays[m]) <= t /\ End(arrays[m]) \in Nat
      BY <2>8, <2>9, <2>11
    <3> QED
      BY <2>6, <2>11, <3>1
  <2>14. m \in a..Len(arrays) /\ Has(m)
    BY <2>5, <2>6, <2>12, <2>13
  <2>15. j0 \in a..Len(arrays) /\ Has(j0)
    <3> HIDE DEF Has
    <3> QED
      BY <2>14
  <2>16. PICK j \in 1..len, u \in Nat :
            j = j0 /\ u = arrays[j].start /\ u <= i /\ i < End(arrays[j])
    <3>1. j0 \in 1..len /\ arrays[j0].start <= i /\ i < End(arrays[j0])
      BY <2>5, <2>12, <2>15
    <3> HIDE DEF j0
    <3> QED
      BY <2>8, <3>1
  <2> HIDE DEF skip, a0, t0, Has, j0
  <2>17. ~(i >= End(arrays[len]))
    <3>1. j = len \/ (j < len /\ len \in 1..len)
      BY <2>7
    <3>2. j < len => End(arrays[j]) <= arrays[len].start
      BY <2>9, <3>1
    <3>3. /\ End(arrays[j]) \in Nat /\ End(arrays[len]) \in Nat /\ arrays[len].start \in Nat
          /\ arrays[len].start < End(arrays[len])
      BY <2>7, <2>8
    <3> QED
      BY <2>16, <3>1, <3>2, <3>3
  <2>18. PICK k \in Nat : k = i - u /\ k = arrays[a].start + i - t - arrays[j].start
    <3>1. arrays[a].start + i - t - arrays[j].start = i - u
      BY <2>11, <2>16
    <3>2. i - u \in Nat
      BY <2>16
    <3> QED
      BY <3>1, <3>2
  <2>19. k < Len(arrays[j].items) /\ arrays[j].items[k + 1] = p
    <3>1. /\ End(arrays[j]) = u + Len(arrays[j].items) /\ Len(arrays[j].items) \in Nat
          /\ \A x \in Nat : x < Len(arrays[j].items) =>
                arrays[j].items[x + 1] = Item(c, u + x + Plus(c))
      BY <2>3, <2>5, <2>16, ArrayFacts
    <3>2. k < Len(arrays[j].items)
      <4>1. PICK e \in Nat : e = Len(arrays[j].items)
        BY <3>1
      <4>2. i < u + e
        BY <2>16, <3>1, <4>1
      <4>3. k < e
        BY <2>18, <4>2
      <4> QED
        BY <4>1, <4>3
    <3>3. u + k + plus = idx
      BY <2>1, <2>18
    <3> QED
      BY <1>4, <2>1, <3>1, <3>2, <3>3
\* The check of journal_file_next_entry() holds.
  <2>20. ~(/\ r.call.name = "next" /\ r.call.arg # 0
           /\ IF r.call.dir = Down THEN p <= r.call.arg ELSE p >= r.call.arg)
    <3> SUFFICES ASSUME r.call.name = "next", r.call.arg # 0
                 PROVE  ~(IF r.call.dir = Down THEN p <= r.call.arg ELSE p >= r.call.arg)
      OBVIOUS
    <3>1. PICK arg \in Nat : arg = r.call.arg
      BY <1>2, ReaderTypes
    <3>2. NextIndex(r, idx) /\ c = Header
      BY <1>1, <1>2, <1>3, GetIndex DEF NextInv
    <3>3. PICK x \in Indices(Header) :
             From(x, arg) /\ IF r.call.dir = Down THEN idx = x + 1 ELSE idx = x - 1
      BY <3>1, <3>2 DEF NextIndex
    <3>4. x \in Nat /\ Item(c, x) = arg /\ x \in Indices(c)
      BY <3>2, <3>3, ChainFacts DEF From
    <3>5. CASE r.call.dir = Down
      <4>1. x < idx
        BY <3>3, <3>4, <3>5
      <4>2. arg < p
        BY <1>3, <1>4, <3>2, <3>4, <4>1, ChainFacts
      <4> QED
        BY <3>1, <3>5, <4>2
    <3>6. CASE r.call.dir # Down
      <4>1. idx < x
        BY <3>3, <3>4, <3>6
      <4>2. p < arg
        BY <1>3, <1>4, <3>2, <3>4, <4>1, ChainFacts
      <4> QED
        BY <3>1, <3>6, <4>2
    <3> QED
      BY <3>5, <3>6
  <2>21. /\ s = Return(r, p, idx) /\ d = ChainCachePut(c, j, i - k, k)
    <3>1. ~(arrays = <<>> \/ arrays[a].start + i - t >= End(arrays[Len(arrays)]))
      BY <2>5, <2>7, <2>12, <2>17
    <3> QED
      BY <1>1, <1>3, <1>4, <2>2, <2>3, <2>11, <2>16, <2>18, <2>19, <2>20, <3>1
      DEF GetFromArrays, Step, skip, a0, t0, Has, j0
  <2>22. CacheInv(d)
    <3>1. i - k = u /\ u + plus < n /\ u + k + plus < n
      <4>1. k = i - u /\ u <= i
        BY <2>16, <2>18
      <4> QED
        BY <2>4, <4>1
    <3>2. u = chain[c].arrays[j].start /\ u + Plus(c) < chain[c].n
          /\ k < Len(chain[c].arrays[j].items) /\ u + k + Plus(c) < chain[c].n
          /\ j \in DOMAIN chain[c].arrays
      BY <1>3, <2>1, <2>3, <2>5, <2>16, <2>19, <3>1
    <3>3. PICK last \in Nat \cup {NONE} : last = k
      OBVIOUS
    <3> QED
      BY <2>21, <3>1, <3>2, <3>3, CachePutInv
  <2> QED
    BY <1>5, <2>21, <2>22
<1> QED
  BY <1>6, <1>7

\* journal_file_skip_entry() stops at the first and at the last entry.
LEMMA ClampSkipInv ==
    ASSUME IndexInv, ReaderInv(reader), ClampSkip, NEW s, s = reader'
    PROVE  ReaderInv(s) /\ s.pc \notin {"head", "begin", "array"}
<1>1. PICK r : r = reader /\ r.pc = "skip" /\ ReaderInv(r)
  BY DEF ClampSkip, Step
<1>2. r \in ReaderType /\ CallInv(r)
  BY <1>1 DEF ReaderInv
<1>3. r.call.name = "skip" /\ SkipInv(r)
  <2>1. ~SeekInv(r) /\ ~BothInv(r) /\ ~NextInv(r)
    BY <1>1 DEF SeekInv, BothInv, NextInv, Bisecting
  <2>2. r.call.name \in {"seek", "next", "skip", "both"}
    BY <1>2 DEF CallInv, ReaderType, CallType
  <2> QED
    BY <1>2, <2>1, <2>2 DEF CallInv
<1>4. PICK i \in Nat, arg \in Nat, needle \in Nat :
         i = r.idx /\ arg = r.call.arg /\ needle = r.query.needle
  BY <1>2, ReaderTypes
<1>5. r.query.c = Header /\ From(i, needle)
  BY <1>1, <1>3, <1>4 DEF SkipInv
<1>6. Header \in Chains
  BY DEF Chains
<1>7. PICK n \in Nat : n = chain[Header].n /\ i < n
  BY <1>5, <1>6, ChainFacts DEF From
<1>8. PICK m \in Nat : m = IF r.call.dir = Down THEN i + arg
                           ELSE IF arg >= i THEN 0 ELSE i - arg
  OBVIOUS
<1>9. PICK to \in Nat : to = IF m >= n THEN n - 1 ELSE m
  BY <1>7
<1>10. PICK z : z = [r EXCEPT !.count = n]
  OBVIOUS
<1>11. /\ z \in ReaderType /\ z.call = r.call /\ z.query = r.query /\ z.n = r.n
       /\ z.count = n
  BY <1>2, <1>10, CountParts
<1>12. s = Get(z, to)
  <2>1. n # 0
    BY <1>7
  <2> QED
    BY <1>1, <1>4, <1>7, <1>8, <1>9, <1>10, <2>1 DEF ClampSkip, Step
<1>13. /\ s \in ReaderType /\ s.pc = "get" /\ s.idx = to
       /\ s.call = r.call /\ s.query = r.query /\ s.count = n
  BY <1>11, <1>12 DEF Get, ReaderType
<1>14. to < n /\ n <= chain[Header].n
  BY <1>7, <1>9
<1>15. IF r.call.dir = Down
       THEN to = i + arg \/ (to = n - 1 /\ to < i + arg)
       ELSE to + arg = i \/ (to = 0 /\ i < arg)
  <2>1. CASE r.call.dir = Down
    <3>1. m = i + arg
      BY <1>8, <2>1
    <3> QED
      BY <1>7, <1>9, <2>1, <3>1
  <2>2. CASE r.call.dir # Down
    <3>1. m = IF arg >= i THEN 0 ELSE i - arg
      BY <1>8, <2>2
    <3>2. m <= i /\ to = m
      BY <1>7, <1>9, <3>1
    <3> QED
      BY <2>2, <3>1, <3>2
  <2> QED
    BY <2>1, <2>2
<1>16. SkipTo(s, i)
  BY <1>4, <1>13, <1>15 DEF SkipTo
<1>17. i \in Indices(Header) /\ ~Bisecting(s)
  BY <1>5, <1>13 DEF From, Bisecting
<1>18. SkipInv(s)
  BY <1>4, <1>5, <1>13, <1>14, <1>16, <1>17 DEF SkipInv
<1>19. CallInv(s)
  BY <1>3, <1>13, <1>18 DEF CallInv
<1> QED
  BY <1>13, <1>19, OutOfLoop

\* The reader that calls nothing.
LEMMA IdleReaderInv ==
    IdleReader \in ReaderType /\ ReaderInv(IdleReader) /\ IdleReader.pc = "idle"
<1>1. NoCall \in CallType
  BY DEF NoCall, CallType, Header, Chains
<1>2. NoQuery \in QueryType
  BY DEF NoQuery, QueryType, Header, Chains
<1>3. NoLoop \in LoopType
  BY DEF NoLoop, LoopType
<1>4. IdleReader \in ReaderType /\ IdleReader.pc = "idle"
  BY <1>1, <1>2, <1>3 DEF IdleReader, ReaderType
<1> QED
  BY <1>4 DEF ReaderInv, BisectInv

\* What a scope offers.
LEMMA ScopeTypes ==
    ASSUME scope \in Scopes
    PROVE  /\ ScopeChains \subseteq Chains /\ ScopeData \subseteq Data
           /\ scope.needles \subseteq Nat /\ scope.items \subseteq Items
           /\ scope.entries \in 0..MaxEntries
<1>1. /\ scope.needles \subseteq Nat /\ scope.items \subseteq Items
      /\ scope.entries \in 0..MaxEntries
  BY SearchAssumption
<1>2. ASSUME NEW x \in ScopeData PROVE x \in Data
  <2>1. PICK i \in scope.items : x \in {i[k] : k \in DOMAIN i}
    BY DEF ScopeData
  <2>2. i \in Seq(Data)
    BY <1>1, IndexAssumption
  <2>3. PICK k \in DOMAIN i : x = i[k]
    BY <2>1
  <2> QED
    BY <2>2, <2>3
<1> QED
  BY <1>1, <1>2 DEF ScopeChains, Chains

\* A call begins with a bisection.
LEMMA BeginParts ==
    ASSUME NEW call \in CallType, NEW r \in ReaderType, NEW s, s = [r EXCEPT !.call = call]
    PROVE  /\ s \in ReaderType /\ s.call = call /\ s.pc = r.pc /\ s.query = r.query
           /\ s.n = r.n /\ s.count = r.count /\ s.at = r.at /\ s.res = r.res /\ s.idx = r.idx
BY DEF ReaderType

\* The call of a seek.
LEMMA SeekBegins ==
    ASSUME NEW c \in Chains, NEW test \in {"offset", "time"}, NEW needle \in Nat,
           NEW dir \in {Down, Up}, Seek(c, test, needle, dir), NEW s, s = reader'
    PROVE  ReaderInv(s) /\ s.pc \notin {"head", "begin", "array"}
<1>1. NoCall \in CallType
  BY DEF NoCall, CallType, Header, Chains
<1>2. PICK call : call = [NoCall EXCEPT !.name = "seek", !.c = c, !.dir = dir,
                                        !.test = test, !.arg = needle]
  OBVIOUS
<1>3. /\ call \in CallType /\ call.name = "seek" /\ call.c = c /\ call.dir = dir
      /\ call.test = test /\ call.arg = needle
  BY <1>1, <1>2 DEF CallType
<1>4. PICK q : q = [c |-> c, test |-> test, needle |-> needle, dir |-> dir]
  OBVIOUS
<1>5. q \in QueryType
  BY <1>4 DEF QueryType
<1>6. PICK r : r = Bisect(reader, c, test, needle, dir)
  OBVIOUS
<1>7. reader = IdleReader /\ s = [r EXCEPT !.call = call]
  BY <1>2, <1>6 DEF Seek, Begin
<1>8. reader \in ReaderType
  BY <1>7, IdleReaderInv
<1>9. r \in ReaderType /\ r.pc = "count" /\ r.query = q /\ r.at.t = 0 /\ r.at.last = NONE
  BY <1>4, <1>5, <1>6, <1>8, BisectParts
<1>10. /\ s \in ReaderType /\ s.call = call /\ s.pc = "count" /\ s.query = q
       /\ s.at.t = 0 /\ s.at.last = NONE
  BY <1>3, <1>7, <1>9, BeginParts
<1>11. SeekInv(s)
  BY <1>3, <1>4, <1>10 DEF SeekInv, Bisecting
<1>12. CallInv(s)
  BY <1>3, <1>10, <1>11 DEF CallInv
<1> QED
  BY <1>10, <1>12, OutOfLoop

\* The call of a step over several entries.
LEMMA SkipBegins ==
    ASSUME IndexInv, NEW p \in Positions, NEW dir \in {Down, Up}, NEW by \in Nat,
           SkipEntry(p, dir, by), NEW s, s = reader'
    PROVE  ReaderInv(s) /\ s.pc \notin {"head", "begin", "array"}
<1>1. NoCall \in CallType /\ Header \in Chains
  BY DEF NoCall, CallType, Header, Chains
<1>2. PICK call : call = [NoCall EXCEPT !.name = "skip", !.dir = dir, !.arg = by]
  OBVIOUS
<1>3. call \in CallType /\ call.name = "skip"
  BY <1>1, <1>2 DEF CallType
<1>4. PICK k \in Indices(Header) : p = Item(Header, k)
  BY DEF Positions
<1>5. From(k, p) /\ p \in Nat /\ k < chain[Header].n
  BY <1>1, <1>4, ChainFacts DEF From
<1>6. PICK q : q = [c |-> Header, test |-> "offset", needle |-> p, dir |-> Down]
  OBVIOUS
<1>7. q \in QueryType /\ q.c = Header /\ q.needle = p
  BY <1>1, <1>5, <1>6 DEF QueryType
<1>8. PICK r : r = Bisect(reader, Header, "offset", p, Down)
  OBVIOUS
<1>9. reader = IdleReader /\ s = [r EXCEPT !.call = call]
  BY <1>2, <1>8 DEF SkipEntry, Begin
<1>10. reader \in ReaderType
  BY <1>9, IdleReaderInv
<1>11. r \in ReaderType /\ r.pc = "count" /\ r.query = q /\ r.at.t = 0 /\ r.at.last = NONE
  BY <1>6, <1>7, <1>8, <1>10, BisectParts
<1>12. /\ s \in ReaderType /\ s.call = call /\ s.pc = "count" /\ s.query = q
       /\ s.at.t = 0 /\ s.at.last = NONE
  BY <1>3, <1>9, <1>11, BeginParts
<1>13. FindStart(s, p)
  BY <1>4, <1>5, <1>6, <1>7, <1>12 DEF FindStart, Counted
<1>14. SkipInv(s)
  BY <1>4, <1>5, <1>7, <1>12, <1>13 DEF SkipInv
<1>15. CallInv(s)
  BY <1>3, <1>12, <1>14 DEF CallInv
<1> QED
  BY <1>12, <1>15, OutOfLoop

\* The call of a seek in two chains.
LEMMA SeekBothBegins ==
    ASSUME IndexInv, NEW d \in Data, NEW boot \in Data, NEW needle \in Nat,
           NEW dir \in {Down, Up}, SeekBoth(d, boot, needle, dir), NEW s, s = reader'
    PROVE  ReaderInv(s) /\ s.pc \notin {"head", "begin", "array"}
<1>1. NoCall \in CallType /\ d \in Chains /\ boot \in Chains
  BY DEF NoCall, CallType, Header, Chains
<1>2. PICK seen \in Nat : /\ seen = IF writer = Idle THEN Current ELSE Current - 1
                          /\ seen <= Current /\ (seen = Current => writer = Idle)
  <2>1. IndexTypeOK
    BY DEF IndexInv
  <2>2. PICK len \in Nat : len = Current
    BY <2>1 DEF IndexTypeOK, Current
  <2>3. writer # Idle => len > 0
    <3>1. writer # Idle => writer.pc # "idle"
      BY <2>1 DEF IndexTypeOK, Idle
    <3>2. writer.pc # "idle" => entry # <<>>
      BY <2>1 DEF IndexTypeOK
    <3>3. entry # <<>> => len > 0
      BY <2>1, <2>2 DEF IndexTypeOK, Current
    <3> QED
      BY <3>1, <3>2, <3>3
  <2> QED
    BY <2>2, <2>3
<1>3. PICK call : call = [NoCall EXCEPT !.name = "both", !.c = d, !.dir = dir,
                                        !.test = "time", !.arg = needle, !.boot = boot,
                                        !.seen = seen]
  OBVIOUS
<1>4. /\ call \in CallType /\ call.name = "both" /\ call.c = d /\ call.dir = dir
      /\ call.arg = needle /\ call.boot = boot /\ call.seen = seen
  BY <1>1, <1>3 DEF CallType
<1>5. PICK q : q = [c |-> boot, test |-> "time", needle |-> needle, dir |-> dir]
  OBVIOUS
<1>6. q \in QueryType /\ q.c = boot /\ q.needle = needle /\ q.test = "time" /\ q.dir = dir
  BY <1>1, <1>5 DEF QueryType
<1>7. PICK r : r = Bisect(reader, boot, "time", needle, dir)
  OBVIOUS
<1>8. reader = IdleReader /\ s = [r EXCEPT !.call = call]
  BY <1>2, <1>3, <1>7 DEF SeekBoth, Begin
<1>9. reader \in ReaderType /\ reader.count = 0
  BY <1>8, IdleReaderInv DEF IdleReader
<1>10. /\ r \in ReaderType /\ r.pc = "count" /\ r.query = q /\ r.count = 0
       /\ r.at.t = 0 /\ r.at.last = NONE
  BY <1>5, <1>6, <1>7, <1>9, BisectParts
<1>11. /\ s \in ReaderType /\ s.call = call /\ s.pc = "count" /\ s.query = q /\ s.count = 0
       /\ s.at.t = 0 /\ s.at.last = NONE
  BY <1>4, <1>8, <1>10, BeginParts
<1>12. BothInv(s)
  BY <1>2, <1>4, <1>6, <1>11 DEF BothInv, Bisecting
<1>13. CallInv(s)
  BY <1>4, <1>11, <1>12 DEF CallInv
<1> QED
  BY <1>11, <1>13, OutOfLoop

\* The call of a step to a neighbour.
LEMMA NextBegins ==
    ASSUME IndexInv, NEW c \in Chains, NEW p \in Positions \cup {0}, NEW dir \in {Down, Up},
           NextEntry(c, p, dir), NEW s, s = reader'
    PROVE  ReaderInv(s) /\ s.pc \notin {"head", "begin", "array"}
<1>1. NoCall \in CallType /\ Header \in Chains
  BY DEF NoCall, CallType, Header, Chains
<1>2. PICK n \in Nat : n = chain[c].n
  BY ChainFacts
<1>3. p \in Nat /\ (p # 0 => c = Header /\ \E k \in Indices(Header) : From(k, p) /\ k < n)
  <2>1. p # 0 => c = Header
    BY DEF NextEntry
  <2>2. ASSUME p # 0 PROVE p \in Nat /\ \E k \in Indices(Header) : From(k, p) /\ k < n
    <3>1. PICK k \in Indices(Header) : p = Item(Header, k)
      BY <2>2 DEF Positions
    <3> QED
      BY <1>1, <1>2, <2>1, <2>2, <3>1, ChainFacts DEF From
  <2> QED
    BY <2>1, <2>2
<1>4. PICK call : call = [NoCall EXCEPT !.name = "next", !.c = c, !.dir = dir, !.arg = p]
  OBVIOUS
<1>5. /\ call \in CallType /\ call.name = "next" /\ call.c = c /\ call.dir = dir
      /\ call.arg = p
  BY <1>1, <1>3, <1>4 DEF CallType
<1>6. PICK r : r = [reader EXCEPT !.count = n, !.query.c = c]
  OBVIOUS
<1>7. PICK z : z = IF n = 0 THEN Nothing(r)
                   ELSE IF p = 0 THEN Get(r, IF dir = Down THEN 0 ELSE n - 1)
                   ELSE Bisect(r, Header, "offset", p, Down)
  OBVIOUS
<1>8. reader = IdleReader /\ s = [z EXCEPT !.call = call]
  BY <1>2, <1>4, <1>6, <1>7 DEF NextEntry, Begin
<1>9. reader \in ReaderType
  BY <1>8, IdleReaderInv
<1>10. r \in ReaderType /\ r.count = n /\ r.query.c = c
  <2>1. PICK q \in QueryType : q = reader.query
    BY <1>9, ReaderTypes
  <2>2. [q EXCEPT !.c = c] \in QueryType /\ [q EXCEPT !.c = c].c = c
    BY DEF QueryType
  <2>3. PICK new \in QueryType : new = [q EXCEPT !.c = c] /\ new.c = c
    BY <2>2
  <2>4. r = [reader EXCEPT !.count = n, !.query = new]
    BY <1>6, <1>9, <2>1, <2>3 DEF ReaderType
  <2> QED
    BY <1>9, <2>3, <2>4 DEF ReaderType
<1>11. CASE n = 0
  <2>1. z = Nothing(r)
    BY <1>7, <1>11
  <2>2. z \in ReaderType /\ z.pc = "done" /\ z.res = 0 /\ z.query = r.query /\ z.count = n
    BY <1>10, <2>1 DEF Nothing, Return, ReaderType
  <2>3. /\ s \in ReaderType /\ s.call = call /\ s.pc = "done" /\ s.query = r.query
        /\ s.count = n /\ s.res = 0
    BY <1>5, <1>8, <2>2, BeginParts
  <2>4. p = 0 /\ \A i \in Indices(c) : ~(i < n)
    <3>1. \A i \in Indices(c) : ~(i < n)
      BY <1>11, ChainFacts
    <3> QED
      BY <1>1, <1>3, <1>11, <3>1
  <2>5. NextInv(s)
    BY <1>2, <1>5, <1>10, <2>3, <2>4 DEF NextInv, Bisecting
  <2>6. CallInv(s)
    BY <1>5, <2>3, <2>5 DEF CallInv
  <2> QED
    BY <2>3, <2>6, OutOfLoop
<1>12. CASE n # 0 /\ p = 0
  <2>1. PICK i \in Nat : i = (IF dir = Down THEN 0 ELSE n - 1) /\ i < n
    BY <1>12
  <2>2. z = Get(r, i)
    BY <1>7, <1>12, <2>1
  <2>3. z \in ReaderType /\ z.pc = "get" /\ z.idx = i /\ z.query = r.query /\ z.count = n
    BY <1>10, <2>2 DEF Get, ReaderType
  <2>4. /\ s \in ReaderType /\ s.call = call /\ s.pc = "get" /\ s.query = r.query
        /\ s.count = n /\ s.idx = i
    BY <1>5, <1>8, <2>3, BeginParts
  <2>5. NextIndex(s, i)
    BY <1>5, <1>12, <2>1, <2>4 DEF NextIndex
  <2>6. NextInv(s)
    BY <1>2, <1>5, <1>10, <1>12, <2>1, <2>4, <2>5 DEF NextInv, Bisecting
  <2>7. CallInv(s)
    BY <1>5, <2>4, <2>6 DEF CallInv
  <2> QED
    BY <2>4, <2>7, OutOfLoop
<1>13. CASE n # 0 /\ p # 0
  <2>1. z = Bisect(r, Header, "offset", p, Down)
    BY <1>7, <1>13
  <2>2. PICK q : q = [c |-> Header, test |-> "offset", needle |-> p, dir |-> Down]
    OBVIOUS
  <2>3. q \in QueryType /\ q.c = Header
    BY <1>1, <1>3, <2>2 DEF QueryType
  <2>4. /\ z \in ReaderType /\ z.pc = "count" /\ z.query = q /\ z.count = n
        /\ z.at.t = 0 /\ z.at.last = NONE
    BY <1>10, <2>1, <2>2, <2>3, BisectParts
  <2>5. /\ s \in ReaderType /\ s.call = call /\ s.pc = "count" /\ s.query = q
        /\ s.count = n /\ s.at.t = 0 /\ s.at.last = NONE
    BY <1>5, <1>8, <2>4, BeginParts
  <2>6. Counted(s) = n
    BY <1>2, <1>3, <1>13, <2>3, <2>5 DEF Counted
  <2>7. FindStart(s, p)
    BY <1>3, <1>13, <2>2, <2>5, <2>6 DEF FindStart
  <2>8. NextInv(s)
    BY <1>2, <1>3, <1>5, <1>13, <2>3, <2>5, <2>7 DEF NextInv, Bisecting
  <2>9. CallInv(s)
    BY <1>5, <2>5, <2>8 DEF CallInv
  <2> QED
    BY <2>5, <2>9, OutOfLoop
<1> QED
  BY <1>11, <1>12, <1>13

\* A step of the reader keeps what holds of the reader and of its cache.
LEMMA ReaderKeeps ==
    ASSUME SearchInv, ReaderNext, NEW s, s = reader', NEW d, d = cache'
    PROVE  /\ ReaderInv(s) /\ CacheInv(d)
           /\ d = cache \/ s.pc \notin {"head", "begin", "array"}
           /\ UNCHANGED <<indexVars, scope>>
<1>1. IndexInv /\ CacheInv(cache) /\ ReaderInv(reader) /\ scope \in Scopes
  BY DEF SearchInv
<1> DEFINE Goal == /\ ReaderInv(s) /\ CacheInv(d)
                   /\ d = cache \/ s.pc \notin {"head", "begin", "array"}
                   /\ UNCHANGED <<indexVars, scope>>
<1>2. /\ ScopeChains \subseteq Chains /\ ScopeData \subseteq Data /\ scope.needles \subseteq Nat
  BY <1>1, ScopeTypes
<1>3. ASSUME NEW c \in ScopeChains, NEW test \in {"offset", "time"}, NEW dir \in {Down, Up},
             NEW needle \in scope.needles, Seek(c, test, needle, dir)
      PROVE  Goal
  <2>1. ReaderInv(s) /\ s.pc \notin {"head", "begin", "array"}
    BY <1>2, <1>3, SeekBegins
  <2>2. d = cache /\ UNCHANGED <<indexVars, scope>>
    BY <1>3 DEF Seek, Begin
  <2> QED
    BY <1>1, <2>1, <2>2
<1>4. ASSUME NEW c \in ScopeChains, NEW p \in Positions \cup {0}, NEW dir \in {Down, Up},
             NextEntry(c, p, dir)
      PROVE  Goal
  <2>1. ReaderInv(s) /\ s.pc \notin {"head", "begin", "array"}
    BY <1>1, <1>2, <1>4, NextBegins
  <2>2. d = cache /\ UNCHANGED <<indexVars, scope>>
    BY <1>4 DEF NextEntry, Begin
  <2> QED
    BY <1>1, <2>1, <2>2
<1>5. ASSUME NEW p \in Positions, NEW dir \in {Down, Up}, NEW by \in 1..2,
             SkipEntry(p, dir, by)
      PROVE  Goal
  <2>1. ReaderInv(s) /\ s.pc \notin {"head", "begin", "array"}
    <3>1. by \in Nat
      OBVIOUS
    <3> QED
      BY <1>1, <1>5, <3>1, SkipBegins
  <2>2. d = cache /\ UNCHANGED <<indexVars, scope>>
    BY <1>5 DEF SkipEntry, Begin
  <2> QED
    BY <1>1, <2>1, <2>2
<1>6. ASSUME NEW x \in ScopeData, NEW boot \in ScopeData, NEW needle \in scope.needles,
             NEW dir \in {Down, Up}, SeekBoth(x, boot, needle, dir)
      PROVE  Goal
  <2>1. ReaderInv(s) /\ s.pc \notin {"head", "begin", "array"}
    BY <1>1, <1>2, <1>6, SeekBothBegins
  <2>2. d = cache /\ UNCHANGED <<indexVars, scope>>
    BY <1>6 DEF SeekBoth, Begin
  <2> QED
    BY <1>1, <2>1, <2>2
<1>7. CASE ReadCount
  <2>1. PICK r : r = reader /\ ReaderInv(r) /\ r.pc = "count"
    BY <1>1, <1>7 DEF ReadCount, Step
  <2>2. s = [r EXCEPT !.pc = "head", !.n = chain[r.query.c].n]
    BY <1>7, <2>1 DEF ReadCount, Step, After, ArgumentOrder
  <2>3. d = cache /\ UNCHANGED <<indexVars, scope>>
    BY <1>7 DEF ReadCount, Step
  <2> QED
    BY <1>1, <2>1, <2>2, <2>3, ReadCountInv
<1>8. CASE ReadHead
  <2>1. PICK r : r = reader /\ ReaderInv(r) /\ r.pc = "head"
    BY <1>1, <1>8 DEF ReadHead, Step
  <2>2. s = [r EXCEPT !.pc = "begin", !.extra = chain[r.query.c].extra,
                      !.at.a = IF chain[r.query.c].arrays = <<>> THEN 0 ELSE 1]
    BY <1>8, <2>1 DEF ReadHead, Step, After, ArgumentOrder
  <2>3. d = cache /\ UNCHANGED <<indexVars, scope>>
    BY <1>8 DEF ReadHead, Step
  <2> QED
    BY <1>1, <2>1, <2>2, <2>3, ReadHeadInv
<1>9. CASE BeginBisect
  <2>1. d = cache /\ UNCHANGED <<indexVars, scope>>
    BY <1>9 DEF BeginBisect, Step
  <2> QED
    BY <1>1, <1>9, <2>1, BeginBisectInv
<1>10. CASE SearchArray
  <2>1. UNCHANGED <<indexVars, scope>>
    BY <1>10 DEF SearchArray, Found, Step
  <2> QED
    BY <1>1, <1>10, <2>1, SearchArrayInv
<1>11. CASE ClampSkip
  <2>1. d = cache /\ UNCHANGED <<indexVars, scope>>
    BY <1>11 DEF ClampSkip, Step
  <2> QED
    BY <1>1, <1>11, <2>1, ClampSkipInv
<1>12. CASE GetEntry
  <2>1. UNCHANGED <<indexVars, scope>>
    BY <1>12 DEF GetEntry, GetFromArrays, Step
  <2> QED
    BY <1>1, <1>12, <2>1, GetEntryInv
<1>13. CASE Finish
  <2>1. s = IdleReader /\ d = cache /\ UNCHANGED <<indexVars, scope>>
    BY <1>13 DEF Finish, Step
  <2> QED
    BY <1>1, <2>1, IdleReaderInv
<1> QED
  BY <1>3, <1>4, <1>5, <1>6, <1>7, <1>8, <1>9, <1>10, <1>11, <1>12, <1>13 DEF ReaderNext

\* Every step of the writer and of the reader keeps the invariant.
LEMMA SearchStep == ASSUME SearchInv, [SearchNext]_searchVars PROVE SearchInv'
<1>1. IndexInv /\ CacheInv(cache) /\ ReaderInv(reader) /\ scope \in Scopes
  BY DEF SearchInv
<1>2. PICK s, d : s = reader' /\ d = cache'
  OBVIOUS
<1>3. ASSUME [WriterNext]_indexVars, ReaderInv(s), CacheInv(d), scope' = scope,
             cache' = cache \/ s.pc \notin {"head", "begin", "array"}
      PROVE  SearchInv'
  <2>1. IndexInv'
    BY <1>1, <1>3, IndexStep
  <2>2. ReaderInv(s)'
    BY <1>1, <1>3, ReaderStays
  <2>3. CacheInv(d)'
    BY <1>1, <1>3, CacheStays
  <2>4. (scope \in Scopes)'
    BY <1>1, <1>3
  <2>5. ReaderInv(reader)'
    BY <1>2, <2>2
  <2>6. CacheInv(cache)'
    BY <1>2, <2>3
  <2> QED
    BY <2>1, <2>4, <2>5, <2>6 DEF SearchInv
<1>4. CASE /\ \/ \E items \in scope.items : Len(entry) < scope.entries /\ AppendEntry(items)
              \/ StoreEntry \/ StoreFails \/ CountEntry
           /\ UNCHANGED <<cache, reader, scope>>
  <2>1. scope.items \subseteq Items
    BY <1>1, ScopeTypes
  <2>2. WriterNext
    BY <1>4, <2>1 DEF WriterNext
  <2>3. ReaderInv(s) /\ CacheInv(d) /\ scope' = scope /\ cache' = cache
    BY <1>1, <1>2, <1>4
  <2> QED
    BY <1>3, <2>2, <2>3
<1>5. CASE ReaderNext
  <2>1. /\ ReaderInv(s) /\ CacheInv(d)
        /\ d = cache \/ s.pc \notin {"head", "begin", "array"}
        /\ UNCHANGED <<indexVars, scope>>
    BY <1>2, <1>5, ReaderKeeps
  <2> QED
    BY <1>2, <1>3, <2>1
<1>6. CASE UNCHANGED searchVars
  <2>1. UNCHANGED indexVars /\ reader' = reader /\ cache' = cache /\ scope' = scope
    BY <1>6 DEF searchVars, indexVars
  <2> QED
    BY <1>1, <1>2, <1>3, <2>1
<1> QED
  BY <1>4, <1>5, <1>6 DEF SearchNext

-----------------------------------------------------------------------------
(* What the reader's invariant gives                                       *)

\* Everything the reader and its cache rely on holds at every step, whatever is
\* called and however the writer's steps fall between those of the reader.
THEOREM SearchInvariant == SearchSpec => []SearchInv
<1>1. SearchInit => SearchInv
  <2> SUFFICES ASSUME SearchInit PROVE SearchInv
    OBVIOUS
  <2>1. IndexInv
    BY InitIndexInv DEF SearchInit
  <2>2. CacheInv(cache)
    <3>1. cache = <<>> /\ CHAIN_CACHE_MAX \in Nat
      BY SearchAssumption DEF SearchInit
    <3> QED
      BY <3>1 DEF CacheInv
  <2>3. ReaderInv(reader)
    BY IdleReaderInv DEF SearchInit
  <2> QED
    BY <2>1, <2>2, <2>3 DEF SearchInv, SearchInit
<1>2. SearchInv /\ [SearchNext]_searchVars => SearchInv'
  BY SearchStep
<1> QED
  BY <1>1, <1>2, PTL DEF SearchSpec

\* A seek that ended found what the property demands.
LEMMA SeekAnswers == SearchInv => SeekExact
<1> SUFFICES ASSUME SearchInv, Done("seek"), ~EndsInFullArray PROVE SeekIsExact
  BY DEF SeekExact
<1>1. PICK r : r = reader
  OBVIOUS
<1>2. IndexInv /\ r \in ReaderType /\ r.pc = "done" /\ SeekInv(r)
  BY <1>1 DEF SearchInv, ReaderInv, CallInv, Done
<1>3. PICK q \in QueryType, call \in CallType, c \in Chains, n \in Nat, res \in Nat, i \in Nat :
         /\ q = r.query /\ call = r.call /\ c = call.c /\ n = r.n /\ res = r.res /\ i = r.idx
  BY <1>2, ReaderTypes
<1>4. /\ q = [c |-> c, test |-> call.test, needle |-> call.arg, dir |-> call.dir]
      /\ n <= chain[q.c].n /\ Answer(q, n, res, i)
  BY <1>2, <1>3 DEF SeekInv
<1>5. /\ q.c = c /\ q.test = call.test /\ q.needle = call.arg /\ q.dir = call.dir
      /\ q.needle \in Nat /\ q.dir \in {Down, Up} /\ Down # Up
  BY <1>4 DEF QueryType, Down, Up
<1>6. n <= chain[c].n /\ chain[c].n \in Nat /\ \A j \in Nat : j < n => j \in Indices(c)
  BY <1>2, <1>4, <1>5, ChainFacts
<1>7. ASSUME NEW j \in Nat, j < n PROVE j \in Candidates(call, n) <=> Side(q, Item(c, j))
  <2>1. PICK p \in Nat : p = Item(c, j)
    BY <1>2, <1>6, <1>7, ChainFacts
  <2>2. PICK key \in Nat : key = Key(q.test, p) /\ key = Key(call.test, Item(call.c, j))
    <3>1. Key(q.test, p) \in Nat
      BY KeyAscends
    <3> QED
      BY <1>3, <1>5, <2>1, <3>1
  <2>3. j \in Candidates(call, n) <=>
           IF call.dir = Down THEN key >= call.arg ELSE key <= call.arg
    BY <1>7, <2>2 DEF Candidates
  <2>4. Side(q, p) <=> IF q.dir = Down THEN key >= q.needle ELSE ~(key > q.needle)
    BY <2>2 DEF Side, IsRight
  <2>5. key <= q.needle <=> ~(key > q.needle)
    BY <1>5
  <2> QED
    BY <1>5, <2>1, <2>3, <2>4, <2>5
<1>8. ~Full(q, n)
  <2> SUFFICES ASSUME Full(q, n) PROVE FALSE
    OBVIOUS
  <2>1. /\ q.dir = Up /\ n > 0 /\ Side(q, Item(c, n - 1))
        /\ \E j \in DOMAIN chain[c].arrays : End(chain[c].arrays[j]) = ArrayIndex(c, n)
    BY <1>5 DEF Full
  <2>2. n - 1 \in Candidates(call, n)
    BY <1>7, <2>1
  <2>3. EndsInFullArray
    BY <1>1, <1>3, <1>5, <2>1, <2>2 DEF EndsInFullArray
  <2> QED
    BY <2>3
<1>9. \A j \in Candidates(call, n) : j \in Nat /\ j < n
  BY DEF Candidates
<1>10. ASSUME NEW j \in Candidates(call, n)
       PROVE  res # 0 /\ IF call.dir = Down THEN i <= j ELSE j <= i
  <2>1. j \in Indices(c) /\ j < n /\ Side(q, Item(c, j))
    BY <1>6, <1>7, <1>9
  <2> QED
    BY <1>4, <1>5, <1>8, <2>1 DEF Answer
<1>11. CASE res = 0
  <2>1. Candidates(call, n) = {}
    BY <1>10, <1>11
  <2> QED
    BY <1>1, <1>3, <1>11, <2>1 DEF SeekIsExact
<1>12. CASE res # 0
  <2>1. i < n /\ res = Item(c, i) /\ Side(q, res)
    BY <1>4, <1>5, <1>12 DEF Answer
  <2>2. i \in Candidates(call, n)
    BY <1>7, <2>1
  <2>3. IsNearest(i, call, n)
    BY <1>10, <2>2 DEF IsNearest
  <2> QED
    BY <1>1, <1>3, <2>1, <2>3 DEF SeekIsExact
<1> QED
  BY <1>11, <1>12

\* So did a step to a neighbour or over several entries.
LEMMA StepAnswers == SearchInv => StepExact
<1> SUFFICES ASSUME SearchInv PROVE StepExact
  OBVIOUS
<1>1. PICK r : r = reader
  OBVIOUS
<1>2. IndexInv /\ r \in ReaderType /\ ReaderInv(r) /\ Header \in Chains
  BY <1>1 DEF SearchInv, ReaderInv, Chains
<1>3. PICK call \in CallType, c \in Chains, count \in Nat, res \in Nat, idx \in Nat, arg \in Nat :
         /\ call = r.call /\ c = call.c /\ count = r.count /\ res = r.res /\ idx = r.idx
         /\ arg = call.arg
  BY <1>2, ReaderTypes
<1>4. ASSUME NEW k, NEW p, From(k, p)
      PROVE  k = CHOOSE i \in Indices(Header) : Item(Header, i) = p
  <2>1. \A i \in Indices(Header) : Item(Header, i) = p => i = k
    BY <1>2, <1>4, FromIsUnique DEF From
  <2> QED
    BY <1>4, <2>1 DEF From
<1>5. ASSUME Done("next")
      PROVE  LET from == CHOOSE i \in Indices(Header) : Item(Header, i) = call.arg
                 to   == IF call.arg = 0
                         THEN IF call.dir = Down THEN {0} ELSE {count - 1}
                         ELSE IF call.dir = Down THEN {from + 1}
                         ELSE IF from = 0 THEN {} ELSE {from - 1}
                 ok   == {i \in to : 0 <= i /\ i < count}
             IN  IF ok = {} THEN res = 0
                 ELSE \E i \in ok : idx = i /\ res = Item(c, i)
  <2> DEFINE from == CHOOSE i \in Indices(Header) : Item(Header, i) = call.arg
             to   == IF call.arg = 0
                     THEN IF call.dir = Down THEN {0} ELSE {count - 1}
                     ELSE IF call.dir = Down THEN {from + 1}
                     ELSE IF from = 0 THEN {} ELSE {from - 1}
             ok   == {i \in to : 0 <= i /\ i < count}
  <2>1. r.pc = "done" /\ NextInv(r)
    BY <1>1, <1>2, <1>5 DEF Done, ReaderInv, CallInv
  <2>2. /\ count <= chain[c].n
        /\ arg # 0 => c = Header /\ \E k \in Indices(Header) : From(k, arg) /\ k < count
        /\ \/ res = 0 /\ \A i \in Indices(c) : i < count => ~NextIndex(r, i)
           \/ idx < count /\ NextIndex(r, idx) /\ res = Item(c, idx)
    BY <1>3, <2>1 DEF NextInv
  <2>3. arg # 0 => from \in Nat /\ From(from, arg)
    <3> SUFFICES ASSUME arg # 0 PROVE from \in Nat /\ From(from, arg)
      OBVIOUS
    <3>1. PICK k \in Indices(Header) : From(k, arg)
      BY <2>2
    <3>2. k = from
      BY <1>3, <1>4, <3>1
    <3>3. k \in Nat
      BY <1>2, <3>1, FromIsUnique
    <3> HIDE DEF from
    <3> QED
      BY <3>1, <3>2, <3>3
  <2> HIDE DEF from
  <2>4. ASSUME NEW i PROVE i \in ok <=> i \in Nat /\ i < count /\ NextIndex(r, i)
    <3>1. CASE arg = 0
      <4>1. NextIndex(r, i) <=> i = IF call.dir = Down THEN 0 ELSE count - 1
        BY <1>3, <3>1 DEF NextIndex
      <4>2. i \in ok <=> /\ i = IF call.dir = Down THEN 0 ELSE count - 1
                         /\ 0 <= i /\ i < count
        BY <1>3, <3>1
      <4> QED
        BY <4>1, <4>2
    <3>2. CASE arg # 0
      <4>1. from \in Nat /\ From(from, arg) /\ from \in Indices(Header)
        BY <2>3, <3>2 DEF From
      <4>2. \A k \in Indices(Header) : From(k, arg) => k = from
        BY <1>2, <4>1, FromIsUnique
      <4>3. NextIndex(r, i) <=> IF call.dir = Down THEN i = from + 1 ELSE i = from - 1
        BY <1>3, <3>2, <4>1, <4>2 DEF NextIndex
      <4>4. CASE call.dir = Down
        <5>1. i \in ok <=> i = from + 1 /\ 0 <= i /\ i < count
          BY <1>3, <3>2, <4>4
        <5> QED
          BY <4>1, <4>3, <4>4, <5>1
      <4>5. CASE call.dir # Down /\ from = 0
        <5>1. i \notin ok
          BY <1>3, <3>2, <4>5
        <5> QED
          BY <4>3, <4>5, <5>1
      <4>6. CASE call.dir # Down /\ from # 0
        <5>1. i \in ok <=> i = from - 1 /\ 0 <= i /\ i < count
          BY <1>3, <3>2, <4>6
        <5> QED
          BY <4>1, <4>3, <4>6, <5>1
      <4> QED
        BY <4>4, <4>5, <4>6
    <3> QED
      BY <3>1, <3>2
  <2> HIDE DEF ok, to
  <2>5. CASE res = 0 /\ \A i \in Indices(c) : i < count => ~NextIndex(r, i)
    <3>1. ok = {}
      <4> SUFFICES ASSUME NEW i \in ok PROVE FALSE
        OBVIOUS
      <4>1. i \in Nat /\ i < count /\ NextIndex(r, i)
        BY <2>4
      <4>2. i \in Indices(c)
        BY <1>2, <2>2, <4>1, ChainFacts
      <4> QED
        BY <2>5, <4>1, <4>2
    <3> QED
      BY <2>5, <3>1 DEF ok, to, from
  <2>6. CASE idx < count /\ NextIndex(r, idx) /\ res = Item(c, idx)
    <3>1. idx \in ok
      BY <2>4, <2>6
    <3>2. ok # {} /\ \E i \in ok : idx = i /\ res = Item(c, i)
      BY <2>6, <3>1
    <3> QED
      BY <3>2 DEF ok, to, from
  <2> QED
    BY <2>2, <2>5, <2>6
<1>6. ASSUME Done("skip")
      PROVE  LET from == CHOOSE i \in Indices(Header) : Item(Header, i) = r.query.needle
             IN  /\ res = Item(Header, idx)
                 /\ IF call.dir = Down
                    THEN \/ idx = from + arg
                         \/ idx = count - 1 /\ idx < from + arg
                    ELSE \/ idx + arg = from
                         \/ idx = 0 /\ from < arg
  <2>1. r.pc = "done" /\ SkipInv(r)
    BY <1>1, <1>2, <1>6 DEF Done, ReaderInv, CallInv
  <2>2. PICK k \in Indices(Header) : From(k, r.query.needle) /\ SkipTo(r, k)
    BY <2>1 DEF SkipInv
  <2>3. res = Item(Header, idx)
    BY <1>3, <2>1 DEF SkipInv
  <2>4. k = CHOOSE i \in Indices(Header) : Item(Header, i) = r.query.needle
    BY <1>4, <2>2
  <2>5. IF call.dir = Down
        THEN idx = k + arg \/ (idx = count - 1 /\ idx < k + arg)
        ELSE idx + arg = k \/ (idx = 0 /\ k < arg)
    BY <1>3, <2>2 DEF SkipTo
  <2> QED
    BY <2>3, <2>4, <2>5
<1> QED
  BY <1>1, <1>3, <1>5, <1>6 DEF StepExact

\* Every seek returns the entry nearest to the needle among those counted (but for
\* the full array of EndsInFullArray), and every step and skip the entry as far
\* away as asked for, whatever the cache holds and whatever is appended meanwhile.
THEOREM SearchesAreExact == SearchSpec => []SearchExact
<1>1. SearchInv => SearchExact
  BY SeekAnswers, StepAnswers DEF SearchExact
<1> QED
  BY <1>1, SearchInvariant, PTL

\* No assertion of the search fails, no counted item is found unset, and the
\* cached positions stay true while the chains grow.
THEOREM SearchesAreSafe == SearchSpec => []SearchSafe
<1>1. SearchInv => NeverAborts
  BY DEF SearchInv, ReaderInv, ReaderType, NeverAborts
<1>2. SearchInv => CacheCoherent
  <2> SUFFICES ASSUME SearchInv PROVE CacheCoherent
    OBVIOUS
  <2>1. IndexInv /\ CacheInv(cache)
    BY DEF SearchInv
  <2>2. ASSUME NEW k \in DOMAIN cache
        PROVE  LET ci     == cache[k]
                   arrays == chain[ci.first].arrays
               IN  /\ Cached(ci.first) = {k}
                   /\ ci.array \in DOMAIN arrays
                   /\ ci.total = arrays[ci.array].start
                   /\ ci.begin = arrays[ci.array].items[1] /\ ci.begin # 0
                   /\ \/ ci.last = NONE
                      \/ ci.total + ci.last < ArrayIndex(ci.first, chain[ci.first].n)
    <3>1. PICK ci \in CacheType : ci = cache[k] /\ CacheItemOK(ci)
      BY <2>1 DEF CacheInv
    <3>2. PICK c \in Chains, a \in Nat, t \in Nat, b \in Nat, last \in Nat \cup {NONE} :
             /\ c = ci.first /\ a = ci.array /\ t = ci.total /\ b = ci.begin
             /\ last = ci.last
      BY DEF CacheType
    <3>3. /\ a \in DOMAIN chain[c].arrays /\ t = chain[c].arrays[a].start
          /\ t + Plus(c) < chain[c].n /\ b = Item(c, t + Plus(c))
          /\ last # NONE => t + last + Plus(c) < chain[c].n
      BY <3>1, <3>2 DEF CacheItemOK
    <3>4. Cached(c) = {k}
      BY <2>1, <3>1, <3>2 DEF Cached, CacheInv
    <3>5. PICK plus \in 0..1, n \in Nat : /\ plus = Plus(c) /\ n = chain[c].n
                                          /\ plus = IF c = Header THEN 0 ELSE 1
      BY <2>1, ChainFacts DEF Plus
    <3>6. b = chain[c].arrays[a].items[1]
      <4>1. /\ Len(chain[c].arrays[a].items) \in Nat \ {0}
            /\ \A x \in Nat : x < Len(chain[c].arrays[a].items) =>
                 chain[c].arrays[a].items[x + 1] = Item(c, chain[c].arrays[a].start + x + Plus(c))
        BY <2>1, <3>3, ArrayFacts
      <4>2. chain[c].arrays[a].items[0 + 1] = Item(c, t + 0 + Plus(c))
        BY <3>3, <4>1
      <4>3. t + 0 + Plus(c) = t + Plus(c)
        BY <3>5
      <4> QED
        BY <3>3, <4>2, <4>3
    <3>7. b # 0
      <4>1. t + Plus(c) \in Indices(c)
        BY <2>1, <3>3, <3>5, ChainFacts
      <4> QED
        BY <2>1, <3>3, <4>1, ChainFacts
    <3>8. last = NONE \/ t + last < ArrayIndex(c, chain[c].n)
      <4> SUFFICES ASSUME last # NONE PROVE t + last < ArrayIndex(c, n)
        BY <3>5
      <4>1. last \in Nat /\ t + last + plus < n
        BY <3>3, <3>5
      <4>2. CASE c = Header
        BY <3>5, <4>1, <4>2 DEF ArrayIndex
      <4>3. CASE c # Header
        BY <3>5, <4>1, <4>3 DEF ArrayIndex
      <4> QED
        BY <4>2, <4>3
    <3> QED
      BY <3>1, <3>2, <3>3, <3>4, <3>6, <3>7, <3>8
  <2>3. Len(cache) <= CHAIN_CACHE_MAX
    BY <2>1 DEF CacheInv
  <2> QED
    BY <2>2, <2>3 DEF CacheCoherent
<1>3. SearchInv => SearchSafe
  BY <1>1, <1>2 DEF SearchSafe
<1> QED
  BY <1>3, SearchInvariant, PTL

\* The seek in two chains returns an entry of both on the right side of the time,
\* and downwards passes over none that was linked when it was called.
THEOREM SeeksInBothAreExact == SearchSpec => []SeekBothExact
<1>1. SearchInv => SeekBothExact
  <2> SUFFICES ASSUME SearchInv, Done("both") PROVE SeekBothExact
    BY DEF SeekBothExact
  <2>1. PICK r : r = reader
    OBVIOUS
  <2>2. BothInv(r) /\ r.pc = "done"
    BY <2>1 DEF SearchInv, ReaderInv, CallInv, Done
  <2>3. /\ r.res # 0 => InBoth(r.call, r.res)
        /\ r.call.dir = Down =>
             \A p \in 1..r.call.seen : InBoth(r.call, p) => r.res # 0 /\ r.res <= p
    BY <2>2 DEF BothInv
  <2> QED
    BY <2>1, <2>3 DEF SeekBothExact, InBoth, TimeSide
<1> QED
  BY <1>1, SearchInvariant, PTL
=============================================================================
