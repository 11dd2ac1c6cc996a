--------------------------- MODULE JournaldProofs ---------------------------
(***************************************************************************)
(* Proofs about the server and its files, for any number of users,         *)
(* messages, signals, rotations, failing system calls, kills and losses of *)
(* power, in any order: first what the operations do to a file and to the  *)
(* directories, then the invariant of the server, that severe messages are *)
(* on disk when their write returns, and stay there, and at the end that   *)
(* messages are stored in the order of their arrival.                      *)
(***************************************************************************)
EXTENDS Journald, Recursion, TLAPS

-----------------------------------------------------------------------------
(* The files                                                               *)

States == {"online", "offline", "archived"}

Entry == [id : Nat, at : Nat, seq : Nat]

File == [state : States, ondisk : SUBSET States, entries : Seq(Entry), synced : Nat,
         seqid : Nat, tail : Nat, head : Nat, tables : BOOLEAN]

FileNames == [loc : Locs, kind : {"active"}, at : {0}]
             \cup [loc : Locs, kind : {"archived", "corrupted"}, at : Nat]

Seqs(f) == {f.entries[i].seq : i \in DOMAIN f.entries}

FileIds(f) == {f.entries[i].id : i \in DOMAIN f.entries}

\* What a loss of power may leave of a file marked offline is complete; a file
\* that is online is so on disk, too; and its numbers ascend up to its tail.
FileOK(x, f) ==
    /\ f \in File
    /\ f.state \in f.ondisk /\ f.synced <= Len(f.entries)
    /\ "offline" \in f.ondisk => f.synced = Len(f.entries)
    /\ f.state = "online" => f.ondisk = {"online"}
    /\ x.kind = "active" => "archived" \notin f.ondisk
    /\ \A i, j \in DOMAIN f.entries : i < j => f.entries[i].seq < f.entries[j].seq
    /\ \A a \in Seqs(f) : a <= f.tail

\* May the file x get entries, or, being about to be replaced in a rotation, a
\* successor that does?
Grows(x, P) == x.kind = "active" \/ x \in P

Below(A, B) == \A a \in A, b \in B : a < b

\* Of the files with one seqnum_id at most one grows; it is above the others, and
\* its tail, from which its next number is made, is.  P is the file that a
\* rotation has just renamed.
Chained(dir, P) ==
    \A x, y \in DOMAIN dir : x # y /\ dir[x].seqid = dir[y].seqid =>
        /\ ~(Grows(x, P) /\ Grows(y, P))
        /\ Grows(x, P) => /\ Below(Seqs(dir[y]), Seqs(dir[x]))
                          /\ \A a \in Seqs(dir[y]) : a <= dir[x].tail
        /\ Below(Seqs(dir[x]), Seqs(dir[y])) \/ Below(Seqs(dir[y]), Seqs(dir[x]))

DiskOK(dir, n, P) ==
    /\ DOMAIN dir \subseteq FileNames
    /\ \A x \in DOMAIN dir : FileOK(x, dir[x]) /\ dir[x].seqid <= n
    /\ Chained(dir, P)

-----------------------------------------------------------------------------
(* What the operations on a file do                                        *)

\* The file g is what f has become: it has the messages of f and continues its
\* numbers; and it has no other numbers than f.
Continues(f, g) ==
    /\ g.seqid = f.seqid /\ g.tail >= f.tail
    /\ FileIds(f) \subseteq FileIds(g)
    /\ \A a \in Seqs(g) : a \in Seqs(f) \/ a > f.tail

Keeps(f, g) ==
    /\ g.seqid = f.seqid /\ g.tail = f.tail /\ g.entries = f.entries

\* A file that is kept is continued, with the same numbers.
LEMMA KeepsContinues ==
    ASSUME NEW f, NEW g, Keeps(f, g), f.tail \in Nat
    PROVE  Continues(f, g) /\ Seqs(g) = Seqs(f)
BY DEF Keeps, Continues, Seqs, FileIds

\* fsync(): the file is as it was, and complete on disk.
LEMMA FsyncKeeps ==
    ASSUME NEW x, NEW f, FileOK(x, f)
    PROVE  /\ FileOK(x, Fsync(f)) /\ Keeps(f, Fsync(f))
           /\ Fsync(f).state = f.state /\ Fsync(f).tables = f.tables
           /\ Fsync(f).synced = Len(Fsync(f).entries)
           /\ Fsync(f).ondisk = {f.state}
<1>1. PICK g : g = Fsync(f)
  OBVIOUS
<1>2. f \in File /\ Len(f.entries) \in Nat
  BY DEF FileOK, File
<1>3. /\ g \in File /\ g.state = f.state /\ g.ondisk = {f.state} /\ g.entries = f.entries
      /\ g.synced = Len(f.entries) /\ g.seqid = f.seqid /\ g.tail = f.tail
      /\ g.tables = f.tables
  BY <1>1, <1>2 DEF Fsync, File
<1>4. Seqs(g) = Seqs(f)
  BY <1>3 DEF Seqs
<1>5. FileOK(x, g)
  BY <1>2, <1>3, <1>4 DEF FileOK
<1> QED
  BY <1>1, <1>3, <1>5 DEF Keeps

\* A file marked archived is complete if it was offline.
LEMMA SetStateKeeps ==
    ASSUME NEW x, NEW f, FileOK(x, f), NEW s \in States,
           s = "offline" => f.synced = Len(f.entries),
           s = "archived" => x.kind # "active",
           s # "online"
    PROVE  /\ FileOK(x, SetState(f, s)) /\ Keeps(f, SetState(f, s))
           /\ SetState(f, s).state = s /\ SetState(f, s).tables = f.tables
           /\ SetState(f, s).synced = f.synced
<1>1. PICK g : g = SetState(f, s)
  OBVIOUS
<1>2. f \in File /\ Len(f.entries) \in Nat
  BY DEF FileOK, File
<1>3. /\ g \in File /\ g.state = s /\ g.ondisk = f.ondisk \cup {s} /\ g.entries = f.entries
      /\ g.synced = f.synced /\ g.seqid = f.seqid /\ g.tail = f.tail
      /\ g.tables = f.tables
  BY <1>1, <1>2 DEF SetState, File
<1>4. Seqs(g) = Seqs(f)
  BY <1>3 DEF Seqs
<1>5. FileOK(x, g)
  BY <1>2, <1>3, <1>4 DEF FileOK
<1> QED
  BY <1>1, <1>3, <1>5 DEF Keeps

\* journal_file_set_online(): the file is online on disk, too, before anything
\* is written to it.
LEMMA SetOnlineKeeps ==
    ASSUME NEW x, NEW f, FileOK(x, f)
    PROVE  /\ FileOK(x, SetOnline(f)) /\ Keeps(f, SetOnline(f))
           /\ SetOnline(f).tables = f.tables
           /\ f.state # "archived" =>
                SetOnline(f).state = "online" /\ SetOnline(f).ondisk = {"online"}
<1>1. CASE f.state = "offline"
  <2>1. PICK g : g = SetOnline(f)
    OBVIOUS
  <2>2. f \in File /\ Len(f.entries) \in Nat
    BY DEF FileOK, File
  <2>3. g = Fsync(SetState(f, "online"))
    BY <1>1, <2>1 DEF SetOnline
  <2>4. PICK h : h = SetState(f, "online")
    OBVIOUS
  <2>5. h \in File /\ h.state = "online" /\ h.entries = f.entries
        /\ h.synced = f.synced /\ h.seqid = f.seqid /\ h.tail = f.tail
        /\ h.tables = f.tables
    BY <2>4, <2>2 DEF SetState, File, States
  <2>6. /\ g \in File /\ g.state = "online" /\ g.ondisk = {"online"}
        /\ g.entries = f.entries /\ g.synced = Len(f.entries) /\ g.seqid = f.seqid
        /\ g.tail = f.tail /\ g.tables = f.tables
    BY <2>2, <2>3, <2>4, <2>5 DEF Fsync, File
  <2>7. Seqs(g) = Seqs(f)
    BY <2>6 DEF Seqs
  <2>8. FileOK(x, g)
    BY <2>2, <2>6, <2>7 DEF FileOK
  <2> QED
    BY <2>1, <2>6, <2>8 DEF Keeps
<1>2. CASE f.state # "offline"
  <2>1. SetOnline(f) = f
    BY <1>2 DEF SetOnline
  <2>2. f.state \in States
    BY DEF FileOK, File
  <2>3. f.state # "archived" => f.state = "online" /\ f.ondisk = {"online"}
    BY <1>2, <2>2 DEF FileOK, States
  <2> QED
    BY <2>1, <2>3 DEF Keeps
<1> QED
  BY <1>1, <1>2

\* journal_file_set_offline(): all is on disk before the file is marked.
LEMMA SetOfflineKeeps ==
    ASSUME NEW x, NEW f, FileOK(x, f)
    PROVE  FileOK(x, SetOffline(f)) /\ Keeps(f, SetOffline(f))
<1>1. CASE f.state = "online"
  <2>1. PICK g : g = Fsync(f)
    OBVIOUS
  <2>2. FileOK(x, g) /\ Keeps(f, g) /\ g.synced = Len(g.entries)
    BY <2>1, FsyncKeeps
  <2>3. PICK h : h = SetState(g, "offline")
    OBVIOUS
  <2>4. FileOK(x, h) /\ Keeps(g, h)
    BY <2>2, <2>3, SetStateKeeps DEF States
  <2>5. FileOK(x, Fsync(h)) /\ Keeps(h, Fsync(h))
    BY <2>4, FsyncKeeps
  <2>6. SetOffline(f) = Fsync(h)
    BY <1>1, <2>1, <2>3 DEF SetOffline
  <2> QED
    BY <2>2, <2>4, <2>5, <2>6 DEF Keeps
<1>2. CASE f.state # "online"
  BY <1>2 DEF SetOffline, Keeps
<1> QED
  BY <1>1, <1>2

\* An entry with a number above the tail.
LEMMA AppendedContinues ==
    ASSUME NEW x, NEW f, FileOK(x, f), x.kind = "active",
           NEW id \in Nat, NEW at \in Nat, NEW seq \in Nat, seq > f.tail
    PROVE  /\ FileOK(x, Appended(f, id, at, seq)) /\ Continues(f, Appended(f, id, at, seq))
           /\ Appended(f, id, at, seq).tables = f.tables
           /\ id \in FileIds(Appended(f, id, at, seq))
<1>1. PICK g : g = SetOnline(f)
  OBVIOUS
<1>2. FileOK(x, g) /\ Keeps(f, g) /\ g.tables = f.tables
  BY <1>1, SetOnlineKeeps
<1>3. f.state # "archived"
  BY DEF FileOK
<1>4. g.state = "online" /\ g.ondisk = {"online"}
  BY <1>1, <1>3, SetOnlineKeeps
<1>5. PICK h : h = Appended(f, id, at, seq)
  OBVIOUS
<1>6. g \in File
  BY <1>2 DEF FileOK
<1>7. PICK e : e = [id |-> id, at |-> at, seq |-> seq]
  OBVIOUS
<1>8. e \in Entry /\ e.id = id /\ e.seq = seq
  BY <1>7 DEF Entry
<1>9. /\ h \in File /\ h.state = "online" /\ h.ondisk = {"online"}
      /\ h.entries = Append(g.entries, e) /\ h.synced = g.synced /\ h.seqid = g.seqid
      /\ h.tail = seq /\ h.tables = g.tables
  <2>1. PICK t : t = IF g.head = 0 THEN at ELSE g.head
    OBVIOUS
  <2>2. t \in Nat
    BY <1>6, <2>1 DEF File
  <2>3. h = [g EXCEPT !.entries = Append(g.entries, e), !.tail = seq, !.head = t]
    BY <1>1, <1>5, <1>7, <2>1 DEF Appended
  <2>4. PICK l : l = Append(g.entries, e)
    OBVIOUS
  <2>5. l \in Seq(Entry)
    BY <1>6, <1>8, <2>4 DEF File
  <2> QED
    BY <1>4, <1>6, <2>2, <2>3, <2>4, <2>5 DEF File
<1>10. PICK n \in Nat : n = Len(g.entries) /\ DOMAIN g.entries = 1..n
  BY <1>6 DEF File
<1>11. /\ Len(h.entries) = n + 1 /\ DOMAIN h.entries = 1..(n + 1)
       /\ h.entries[n + 1] = e /\ \A i \in 1..n : h.entries[i] = g.entries[i]
  BY <1>6, <1>8, <1>9, <1>10 DEF File
<1>12. \A i \in 1..n : g.entries[i].seq \in Nat /\ g.entries[i].seq <= f.tail /\ f.tail \in Nat
  <2> SUFFICES ASSUME NEW i \in 1..n
               PROVE  g.entries[i].seq \in Nat /\ g.entries[i].seq <= f.tail /\ f.tail \in Nat
    OBVIOUS
  <2>1. g.entries[i] \in Entry /\ g.tail \in Nat /\ g.entries[i].seq \in Seqs(g)
    BY <1>6, <1>10 DEF File, Seqs
  <2> QED
    BY <1>2, <2>1 DEF FileOK, Keeps, Entry
<1>13. \A i, j \in DOMAIN h.entries : i < j => h.entries[i].seq < h.entries[j].seq
  <2> SUFFICES ASSUME NEW i \in 1..(n + 1), NEW j \in 1..(n + 1), i < j
               PROVE  h.entries[i].seq < h.entries[j].seq
    BY <1>11
  <2>1. i \in 1..n
    OBVIOUS
  <2>2. CASE j \in 1..n
    BY <1>2, <1>10, <1>11, <2>1, <2>2 DEF FileOK
  <2>3. CASE j = n + 1
    <3>1. PICK t \in Nat : t = f.tail
      BY <1>12, <2>1
    <3>2. PICK k \in Nat : k = h.entries[i].seq /\ k <= t
      BY <1>11, <1>12, <2>1, <3>1
    <3>3. h.entries[j].seq = seq
      BY <1>8, <1>11, <2>3
    <3> QED
      BY <3>1, <3>2, <3>3
  <2> QED
    BY <2>2, <2>3
<1>14. \A a \in Seqs(h) : a <= h.tail
  <2> SUFFICES ASSUME NEW i \in 1..(n + 1) PROVE h.entries[i].seq <= seq
    BY <1>9, <1>11 DEF Seqs
  <2>1. CASE i \in 1..n
    <3>1. PICK t \in Nat : t = f.tail
      BY <1>12, <2>1
    <3>2. PICK k \in Nat : k = h.entries[i].seq /\ k <= t
      BY <1>11, <1>12, <2>1, <3>1
    <3> QED
      BY <3>1, <3>2
  <2>2. CASE i = n + 1
    BY <1>8, <1>11, <2>2
  <2> QED
    BY <2>1, <2>2
<1>15. h.synced <= Len(h.entries)
  BY <1>2, <1>6, <1>9, <1>10, <1>11 DEF FileOK, File
<1>16. FileOK(x, h)
  BY <1>9, <1>13, <1>14, <1>15 DEF FileOK
<1>17. \A a \in Seqs(h) : a \in Seqs(f) \/ a > f.tail
  <2> SUFFICES ASSUME NEW i \in 1..(n + 1)
               PROVE  h.entries[i].seq \in Seqs(f) \/ h.entries[i].seq > f.tail
    BY <1>11 DEF Seqs
  <2>1. CASE i \in 1..n
    BY <1>2, <1>10, <1>11, <2>1 DEF Seqs, Keeps
  <2>2. CASE i = n + 1
    BY <1>8, <1>11, <2>2
  <2> QED
    BY <2>1, <2>2
<1>18. FileIds(f) \subseteq FileIds(h)
  <2> SUFFICES ASSUME NEW i \in 1..n PROVE i \in 1..(n + 1) /\ h.entries[i].id = f.entries[i].id
    BY <1>2, <1>10, <1>11 DEF Keeps, FileIds
  <2> QED
    BY <1>2, <1>11 DEF Keeps
<1>19. Continues(f, h)
  <2>1. h.seqid = f.seqid /\ h.tail >= f.tail
    BY <1>2, <1>6, <1>9 DEF Keeps, File
  <2> QED
    BY <2>1, <1>17, <1>18 DEF Continues
<1>20. id \in FileIds(h)
  BY <1>8, <1>11 DEF FileIds
<1> QED
  BY <1>2, <1>5, <1>9, <1>16, <1>19, <1>20

\* journal_file_open() of a file that did not exist, complete or given up.
LEMMA EmptyFileOK ==
    ASSUME NEW x, NEW f \in File, f.state = "online", f.ondisk = {"online"},
           f.entries = <<>>, f.synced = 0
    PROVE  FileOK(x, f)
<1>2. PICK e : e = f.entries
  OBVIOUS
<1>3. e \in Seq(Entry) /\ Len(e) = 0 /\ DOMAIN e = {}
  BY <1>2
<1>5. Seqs(f) = {}
  BY <1>2, <1>3 DEF Seqs
<1>6. f.synced <= Len(f.entries) /\ DOMAIN f.entries = {}
  BY <1>2, <1>3
<1> QED
  BY <1>5, <1>6 DEF FileOK

\* A file that was just created is in order.
LEMMA NewFileOK ==
    ASSUME NEW x, NEW id \in Nat, NEW tail \in Nat, x.kind = "active"
    PROVE  /\ FileOK(x, NewFile(id, tail))
           /\ NewFile(id, tail).entries = <<>> /\ NewFile(id, tail).seqid = id
           /\ NewFile(id, tail).tail = tail
<1>1. PICK f : f = NewFile(id, tail)
  OBVIOUS
<1>2. /\ f \in File /\ f.state = "online" /\ f.ondisk = {"online"} /\ f.entries = <<>>
      /\ f.synced = 0 /\ f.seqid = id /\ f.tail = tail
  BY <1>1 DEF NewFile, File, States
<1> QED
  BY <1>1, <1>2, EmptyFileOK

\* So is one whose setup failed and which was closed again.
LEMMA StubOK ==
    ASSUME NEW x, NEW id \in Nat, NEW tail \in Nat, x.kind = "active",
           NEW f, f = SetOffline([NewFile(id, tail) EXCEPT !.tables = FALSE])
    PROVE  FileOK(x, f) /\ f.entries = <<>> /\ f.seqid = id /\ f.tail = tail
<1>1. PICK g : g = [NewFile(id, tail) EXCEPT !.tables = FALSE]
  OBVIOUS
<1>2. /\ g \in File /\ g.state = "online" /\ g.ondisk = {"online"} /\ g.entries = <<>>
      /\ g.synced = 0 /\ g.seqid = id /\ g.tail = tail
  <2>1. g = [state |-> "online", ondisk |-> {"online"}, entries |-> <<>>, synced |-> 0,
             seqid |-> id, tail |-> tail, head |-> 0, tables |-> FALSE]
    BY <1>1 DEF NewFile
  <2> QED
    BY <2>1 DEF File, States
<1>3. FileOK(x, g)
  BY <1>2, EmptyFileOK
<1>4. FileOK(x, f) /\ Keeps(g, f)
  BY <1>1, <1>3, SetOfflineKeeps
<1> QED
  BY <1>2, <1>4 DEF Keeps

Cut(f, n, st) == [f EXCEPT !.entries = SubSeq(f.entries, 1, n), !.synced = n,
                           !.state = st, !.ondisk = {st}]

\* What is left of a file after a loss of power is in order.
LEMMA CutFile ==
    ASSUME NEW x, NEW f, FileOK(x, f), NEW st \in f.ondisk, NEW n \in 0..Len(f.entries), NEW g,
           g = Cut(f, n, st)
    PROVE  /\ FileOK(x, g) /\ g.seqid = f.seqid /\ g.tail = f.tail
           /\ Seqs(g) \subseteq Seqs(f)
<1>1. f \in File /\ st \in States
  BY DEF FileOK, File
<1>2. PICK s \in Seq(Entry) : s = f.entries
  BY <1>1 DEF File
<1>3. PICK m \in Nat : m = Len(s) /\ DOMAIN s = 1..m
  BY <1>2
<1>4. n \in Nat /\ n <= m
  BY <1>2, <1>3
<1>5. PICK t : t = SubSeq(s, 1, n)
  OBVIOUS
<1>6. t \in Seq(Entry) /\ Len(t) = n /\ DOMAIN t = 1..n /\ \A i \in 1..n : t[i] = s[i] /\ i \in 1..m
  BY <1>2, <1>3, <1>4, <1>5
<1>7. /\ g \in File /\ g.entries = t /\ g.synced = n /\ g.state = st /\ g.ondisk = {st}
      /\ g.seqid = f.seqid /\ g.tail = f.tail
  BY <1>1, <1>2, <1>4, <1>5, <1>6 DEF File, Cut
<1>8. Seqs(g) \subseteq Seqs(f)
  BY <1>2, <1>3, <1>6, <1>7 DEF Seqs
<1>9. \A i, j \in DOMAIN g.entries : i < j => g.entries[i].seq < g.entries[j].seq
  BY <1>2, <1>3, <1>6, <1>7 DEF FileOK
<1>10. \A a \in Seqs(g) : a <= g.tail
  BY <1>7, <1>8 DEF FileOK
<1>11. g.synced = Len(g.entries) /\ g.synced <= Len(g.entries)
  BY <1>4, <1>6, <1>7
<1>12. x.kind = "active" => st # "archived"
  BY DEF FileOK
<1>13. FileOK(x, g)
  BY <1>7, <1>9, <1>10, <1>11, <1>12 DEF FileOK
<1> QED
  BY <1>7, <1>8, <1>13

-----------------------------------------------------------------------------
(* What a change of the directory does to the order of the numbers         *)

\* Every file of e is a file of d, maybe under another name, that has kept its
\* entries, lost some, or, if it may grow, got some; files that do not grow do
\* not begin to.
Evolves(d, P, e, Q, from) ==
    /\ from \in [DOMAIN e -> DOMAIN d]
    /\ \A x, y \in DOMAIN e : from[x] = from[y] => x = y
    /\ \A x \in DOMAIN e :
         /\ FileOK(x, e[x]) /\ x \in FileNames
         /\ e[x].seqid = d[from[x]].seqid /\ e[x].tail >= d[from[x]].tail
         /\ Grows(x, Q) => Grows(from[x], P)
         /\ \A a \in Seqs(e[x]) : a \in Seqs(d[from[x]]) \/ (Grows(x, Q) /\ a > d[from[x]].tail)

\* Numbers and tails are natural numbers.
LEMMA Numbers ==
    ASSUME NEW x, NEW f, FileOK(x, f)
    PROVE  Seqs(f) \subseteq Nat /\ f.tail \in Nat /\ f.seqid \in Nat
<1>1. f \in File
  BY DEF FileOK
<1>2. \A i \in DOMAIN f.entries : f.entries[i].seq \in Nat
  <2>1. PICK s : s = f.entries
    OBVIOUS
  <2>2. s \in Seq(Entry)
    BY <1>1, <2>1 DEF File
  <2>3. \A i \in DOMAIN s : s[i] \in Entry
    BY <2>2
  <2> QED
    BY <2>1, <2>3 DEF Entry
<1> QED
  BY <1>1, <1>2 DEF File, Seqs

\* A directory that has evolved is in order.
LEMMA Evolution ==
    ASSUME NEW d, NEW n \in Nat, NEW P, DiskOK(d, n, P), NEW e, NEW m \in Nat, NEW Q, m >= n,
           NEW from, Evolves(d, P, e, Q, from)
    PROVE  DiskOK(e, m, Q)
<1>1. ASSUME NEW x \in DOMAIN e
      PROVE  /\ from[x] \in DOMAIN d /\ FileOK(x, e[x]) /\ x \in FileNames
             /\ e[x].seqid = d[from[x]].seqid /\ e[x].tail >= d[from[x]].tail
             /\ Grows(x, Q) => Grows(from[x], P)
             /\ \A a \in Seqs(e[x]) :
                  a \in Seqs(d[from[x]]) \/ (Grows(x, Q) /\ a > d[from[x]].tail)
  BY DEF Evolves
<1>2. ASSUME NEW x \in DOMAIN e
      PROVE  /\ Seqs(e[x]) \subseteq Nat /\ e[x].tail \in Nat /\ e[x].seqid \in Nat
             /\ Seqs(d[from[x]]) \subseteq Nat /\ d[from[x]].tail \in Nat
             /\ d[from[x]].seqid <= n
  <2>1. FileOK(x, e[x]) /\ FileOK(from[x], d[from[x]]) /\ d[from[x]].seqid <= n
    BY <1>1 DEF DiskOK
  <2> QED
    BY <2>1, Numbers
<1>3. ASSUME NEW x \in DOMAIN e, NEW y \in DOMAIN e, x # y, e[x].seqid = e[y].seqid
      PROVE  /\ ~(Grows(x, Q) /\ Grows(y, Q))
             /\ Grows(x, Q) => /\ Below(Seqs(e[y]), Seqs(e[x]))
                               /\ \A a \in Seqs(e[y]) : a <= e[x].tail
             /\ ~Grows(x, Q) /\ ~Grows(y, Q) =>
                  Below(Seqs(e[x]), Seqs(e[y])) \/ Below(Seqs(e[y]), Seqs(e[x]))
  <2>1. PICK u \in DOMAIN d : u = from[x]
    BY <1>1
  <2>2. PICK v \in DOMAIN d : v = from[y]
    BY <1>1
  <2>3. u # v /\ d[u].seqid = d[v].seqid
    BY <1>1, <1>3, <2>1, <2>2 DEF Evolves
  <2>4. /\ ~(Grows(u, P) /\ Grows(v, P))
        /\ Grows(u, P) => /\ Below(Seqs(d[v]), Seqs(d[u]))
                          /\ \A a \in Seqs(d[v]) : a <= d[u].tail
        /\ Below(Seqs(d[u]), Seqs(d[v])) \/ Below(Seqs(d[v]), Seqs(d[u]))
    BY <2>3 DEF DiskOK, Chained
  <2>5. ~(Grows(x, Q) /\ Grows(y, Q))
    BY <1>1, <2>1, <2>2, <2>4
  <2>6. ~Grows(y, Q) => Seqs(e[y]) \subseteq Seqs(d[v])
    BY <1>1, <2>2
  <2>7. ~Grows(x, Q) => Seqs(e[x]) \subseteq Seqs(d[u])
    BY <1>1, <2>1
  <2>8. ASSUME Grows(x, Q)
        PROVE  /\ Below(Seqs(e[y]), Seqs(e[x]))
               /\ \A a \in Seqs(e[y]) : a <= e[x].tail
    <3>1. Grows(u, P) /\ Seqs(e[y]) \subseteq Seqs(d[v])
      BY <1>1, <2>1, <2>5, <2>6, <2>8
    <3>2. \A a \in Seqs(e[y]) : a \in Nat /\ a <= d[u].tail /\ \A b \in Seqs(d[u]) : a < b
      BY <1>2, <2>4, <3>1 DEF Below
    <3>3. d[u].tail \in Nat /\ e[x].tail \in Nat /\ e[x].tail >= d[u].tail
          /\ Seqs(e[x]) \subseteq Nat
      BY <1>1, <1>2, <2>1
    <3>4. \A b \in Seqs(e[x]) : b \in Seqs(d[u]) \/ b > d[u].tail
      BY <1>1, <2>1
    <3>5. ASSUME NEW a \in Seqs(e[y]), NEW b \in Seqs(e[x]) PROVE a < b
      BY <3>2, <3>3, <3>4
    <3>6. \A a \in Seqs(e[y]) : a <= e[x].tail
      BY <3>2, <3>3
    <3> QED
      BY <3>5, <3>6 DEF Below
  <2>9. ~Grows(x, Q) /\ ~Grows(y, Q) =>
          Below(Seqs(e[x]), Seqs(e[y])) \/ Below(Seqs(e[y]), Seqs(e[x]))
    BY <2>4, <2>6, <2>7 DEF Below
  <2> QED
    BY <2>5, <2>8, <2>9
<1>4. Chained(e, Q)
  <2> SUFFICES ASSUME NEW x \in DOMAIN e, NEW y \in DOMAIN e, x # y, e[x].seqid = e[y].seqid
               PROVE  Below(Seqs(e[x]), Seqs(e[y])) \/ Below(Seqs(e[y]), Seqs(e[x]))
    BY <1>3 DEF Chained
  <2> QED
    BY <1>3
<1>5. \A x \in DOMAIN e : FileOK(x, e[x]) /\ e[x].seqid <= m /\ x \in FileNames
  BY <1>1, <1>2
<1> QED
  BY <1>4, <1>5 DEF DiskOK

\* Ids that are generated and not used do no harm.
LEMMA Aging ==
    ASSUME NEW d, NEW n \in Nat, NEW P, DiskOK(d, n, P), NEW m \in Nat, m >= n
    PROVE  DiskOK(d, m, P)
<1>1. \A x \in DOMAIN d : d[x].seqid \in Nat /\ d[x].seqid <= n
  BY Numbers DEF DiskOK
<1>2. \A x \in DOMAIN d : d[x].seqid <= m
  BY <1>1
<1> QED
  BY <1>2 DEF DiskOK

\* A file is replaced by one that has kept its entries or, if it is in use, got
\* one more.
LEMMA Replacing ==
    ASSUME NEW d, NEW n \in Nat, NEW m \in Nat, NEW P, NEW Q, DiskOK(d, n, P), m >= n,
           \A x \in DOMAIN d : Grows(x, Q) => Grows(x, P),
           NEW x, NEW g,
           x \in DOMAIN d => /\ FileOK(x, g)
                             /\ Keeps(d[x], g) \/ (Continues(d[x], g) /\ x.kind = "active")
    PROVE  DiskOK([d EXCEPT ![x] = g], m, Q)
<1>1. PICK e : e = [d EXCEPT ![x] = g]
  OBVIOUS
<1>2. DOMAIN e = DOMAIN d /\ \A y \in DOMAIN d : e[y] = IF y = x THEN g ELSE d[y]
  BY <1>1
<1>3. PICK from : from = [y \in DOMAIN e |-> y]
  OBVIOUS
<1>4. from \in [DOMAIN e -> DOMAIN d] /\ \A y \in DOMAIN e : from[y] = y
  BY <1>2, <1>3
<1>5. ASSUME NEW y \in DOMAIN e
      PROVE  /\ FileOK(y, e[y]) /\ y \in FileNames
             /\ e[y].seqid = d[y].seqid /\ e[y].tail >= d[y].tail
             /\ \A a \in Seqs(e[y]) : a \in Seqs(d[y]) \/ (Grows(y, Q) /\ a > d[y].tail)
  <2>1. FileOK(y, d[y]) /\ y \in FileNames /\ d[y].tail \in Nat
    BY <1>2, Numbers DEF DiskOK
  <2>2. CASE y # x
    BY <1>2, <2>1, <2>2
  <2>3. CASE y = x
    <3>1. Continues(d[x], g) /\ (Seqs(g) = Seqs(d[x]) \/ Grows(x, Q))
      BY <1>2, <2>1, <2>3, KeepsContinues DEF Grows
    <3> QED
      BY <1>2, <2>1, <2>3, <3>1 DEF Continues
  <2> QED
    BY <2>2, <2>3
<1>6. Evolves(d, P, e, Q, from)
  BY <1>2, <1>4, <1>5 DEF Evolves
<1> QED
  BY <1>1, <1>6, Evolution

\* Files are removed.
LEMMA Removing ==
    ASSUME NEW d, NEW n \in Nat, NEW m \in Nat, NEW P, NEW Q, DiskOK(d, n, P), m >= n,
           \A x \in DOMAIN d : Grows(x, Q) => Grows(x, P), NEW names
    PROVE  DiskOK(Without(d, names), m, Q)
<1>1. PICK e : e = Without(d, names)
  OBVIOUS
<1>2. DOMAIN e \subseteq DOMAIN d /\ \A y \in DOMAIN e : e[y] = d[y]
  BY <1>1 DEF Without
<1>3. PICK from : from = [y \in DOMAIN e |-> y]
  OBVIOUS
<1>4. from \in [DOMAIN e -> DOMAIN d] /\ \A y \in DOMAIN e : from[y] = y
  BY <1>2, <1>3
<1>5. ASSUME NEW y \in DOMAIN e PROVE FileOK(y, d[y]) /\ y \in FileNames /\ d[y].tail \in Nat
  BY <1>2, Numbers DEF DiskOK
<1>6. Evolves(d, P, e, Q, from)
  BY <1>2, <1>4, <1>5 DEF Evolves
<1> QED
  BY <1>1, <1>6, Evolution

\* A file in use gets another name, and replaces the file that has it.
LEMMA Renaming ==
    ASSUME NEW d, NEW n \in Nat, NEW m \in Nat, NEW Q, DiskOK(d, n, {}), m >= n,
           NEW x \in DOMAIN d, NEW to \in FileNames, Q \subseteq {to},
           x.kind = "active", to.kind # "active"
    PROVE  DiskOK(Renamed(d, x, to), m, Q)
<1>1. PICK e : e = Renamed(d, x, to)
  OBVIOUS
<1>2. /\ DOMAIN e = (DOMAIN d \ {x}) \cup {to} /\ e[to] = d[x]
      /\ \A y \in DOMAIN e : y # to => y \in DOMAIN d /\ y # x /\ e[y] = d[y]
  BY <1>1 DEF Renamed, With, Without
<1>3. PICK from : from = [y \in DOMAIN e |-> IF y = to THEN x ELSE y]
  OBVIOUS
<1>4. /\ from \in [DOMAIN e -> DOMAIN d] /\ from[to] = x
      /\ \A y \in DOMAIN e : y # to => from[y] = y
  BY <1>2, <1>3
<1>5. ASSUME NEW y \in DOMAIN e
      PROVE  /\ FileOK(y, e[y]) /\ y \in FileNames /\ e[y] = d[from[y]]
             /\ e[y].tail \in Nat /\ (Grows(y, Q) => Grows(from[y], {}))
  <2>1. CASE y # to
    BY <1>2, <1>4, <2>1, Numbers DEF DiskOK, Grows
  <2>2. CASE y = to
    <3>1. FileOK(x, d[x])
      BY DEF DiskOK
    <3>2. FileOK(to, d[x])
      BY <3>1 DEF FileOK
    <3> QED
      BY <1>2, <1>4, <2>2, <3>1, <3>2, Numbers DEF Grows
  <2> QED
    BY <2>1, <2>2
<1>6. \A y, z \in DOMAIN e : from[y] = from[z] => y = z
  BY <1>2, <1>4
<1>7. Evolves(d, {}, e, Q, from)
  BY <1>4, <1>5, <1>6 DEF Evolves
<1> QED
  BY <1>1, <1>7, Evolution

\* A file without entries is created, with a seqnum_id of its own or with that of
\* the file which a rotation has renamed.
LEMMA Creating ==
    ASSUME NEW d, NEW n \in Nat, NEW m \in Nat, NEW P, DiskOK(d, n, P), m >= n,
           NEW x \in FileNames, x \notin DOMAIN d, x.kind = "active",
           NEW f, FileOK(x, f), f.entries = <<>>, f.seqid <= m,
           \A p \in P : p.kind # "active",
           \/ f.seqid > n
           \/ \E p \in P \cap DOMAIN d : f.seqid = d[p].seqid /\ f.tail >= d[p].tail
    PROVE  DiskOK(With(d, x, f), m, {})
<1>1. PICK e : e = With(d, x, f)
  OBVIOUS
<1>2. /\ DOMAIN e = DOMAIN d \cup {x} /\ e[x] = f
      /\ \A y \in DOMAIN d : e[y] = d[y] /\ y # x
  BY <1>1 DEF With
<1>3. \A y \in DOMAIN d : /\ FileOK(y, d[y]) /\ y \in FileNames /\ d[y].tail \in Nat
                          /\ d[y].seqid \in Nat /\ d[y].seqid <= n
  BY Numbers DEF DiskOK
<1>4. Seqs(f) = {} /\ f.tail \in Nat /\ f.seqid \in Nat
  <2>1. DOMAIN f.entries = {}
    OBVIOUS
  <2> QED
    BY <2>1, Numbers DEF Seqs
<1>5. ASSUME NEW y \in DOMAIN d, d[y].seqid = f.seqid
      PROVE  ~Grows(y, {}) /\ \A a \in Seqs(d[y]) : a <= f.tail
  <2>1. PICK p \in P \cap DOMAIN d : f.seqid = d[p].seqid /\ f.tail >= d[p].tail
    BY <1>3, <1>4, <1>5
  <2>2. p.kind # "active" /\ Grows(p, P)
    BY <2>1 DEF Grows
  <2>3. CASE y = p
    <3>1. Seqs(d[p]) \subseteq Nat /\ d[p].tail \in Nat
      BY <1>3, Numbers
    <3>2. \A a \in Seqs(d[p]) : a <= d[p].tail
      BY <1>3 DEF FileOK
    <3> QED
      BY <1>4, <2>1, <2>2, <2>3, <3>1, <3>2 DEF Grows
  <2>4. CASE y # p
    <3>1. ~Grows(y, P) /\ \A a \in Seqs(d[y]) : a <= d[p].tail
      BY <1>5, <2>1, <2>2, <2>4 DEF DiskOK, Chained
    <3>2. Seqs(d[y]) \subseteq Nat /\ d[p].tail \in Nat
      BY <1>3, Numbers
    <3> QED
      BY <1>4, <2>1, <3>1, <3>2 DEF Grows
  <2> QED
    BY <2>3, <2>4
<1>6. Chained(e, {})
  <2> SUFFICES ASSUME NEW y \in DOMAIN e, NEW z \in DOMAIN e, y # z, e[y].seqid = e[z].seqid
               PROVE  /\ ~(Grows(y, {}) /\ Grows(z, {}))
                      /\ Grows(y, {}) => /\ Below(Seqs(e[z]), Seqs(e[y]))
                                         /\ \A a \in Seqs(e[z]) : a <= e[y].tail
                      /\ Below(Seqs(e[y]), Seqs(e[z])) \/ Below(Seqs(e[z]), Seqs(e[y]))
    BY DEF Chained
  <2>1. CASE y = x
    <3>1. z \in DOMAIN d /\ e[z] = d[z] /\ e[y] = f
      BY <1>2, <2>1
    <3> QED
      BY <1>4, <1>5, <3>1 DEF Below
  <2>2. CASE z = x
    <3>1. y \in DOMAIN d /\ e[y] = d[y] /\ e[z] = f
      BY <1>2, <2>2
    <3> QED
      BY <1>4, <1>5, <3>1 DEF Below
  <2>3. CASE y # x /\ z # x
    <3>1. y \in DOMAIN d /\ e[y] = d[y] /\ z \in DOMAIN d /\ e[z] = d[z]
      BY <1>2, <2>3
    <3> QED
      BY <3>1 DEF DiskOK, Chained, Grows
  <2> QED
    BY <2>1, <2>2, <2>3
<1>7. \A y \in DOMAIN e : FileOK(y, e[y]) /\ e[y].seqid <= m /\ y \in FileNames
  BY <1>2, <1>3
<1> QED
  BY <1>1, <1>6, <1>7 DEF DiskOK

-----------------------------------------------------------------------------
(* What a change of the directory does to the messages                     *)

\* Every message in a file of d is in a file of e of the same journal, or in G.
Kept(d, e, G) ==
    \A x \in DOMAIN d : \A m \in FileIds(d[x]) :
        m \in G \/ \E y \in DOMAIN e : y.loc = x.loc /\ m \in FileIds(e[y])

\* No message comes to the runtime journal.
NoneNew(d, e) ==
    \A y \in DOMAIN e : y.loc = Runtime =>
        \A m \in FileIds(e[y]) : \E x \in DOMAIN d : x.loc = Runtime /\ m \in FileIds(d[x])

RuntimeIds(dir) == Ids(dir, {x \in DOMAIN dir : ~InVar(x)})

VarIds(dir) == Ids(dir, {x \in DOMAIN dir : InVar(x)})

\* A message found in some of the files is found in one of them.
LEMMA IdsOf ==
    ASSUME NEW d, NEW S, NEW m
    PROVE  m \in Ids(d, S) <=> \E x \in S : m \in FileIds(d[x])
BY DEF Ids, FileIds

\* Messages that are kept are found again, those of /var in /var.
LEMMA KeptIds ==
    ASSUME NEW d, NEW e, NEW G, Kept(d, e, G)
    PROVE  /\ Ids(d, DOMAIN d) \subseteq Ids(e, DOMAIN e) \cup G
           /\ VarIds(d) \subseteq VarIds(e) \cup G
<1>1. ASSUME NEW m \in Ids(d, DOMAIN d), m \notin G PROVE m \in Ids(e, DOMAIN e)
  <2>1. PICK x \in DOMAIN d : m \in FileIds(d[x])
    BY <1>1, IdsOf
  <2>2. PICK y \in DOMAIN e : m \in FileIds(e[y])
    BY <1>1, <2>1 DEF Kept
  <2> QED
    BY <2>2, IdsOf
<1>2. ASSUME NEW m \in VarIds(d), m \notin G PROVE m \in VarIds(e)
  <2>1. PICK x \in {z \in DOMAIN d : InVar(z)} : m \in FileIds(d[x])
    BY <1>2, IdsOf DEF VarIds
  <2>2. PICK y \in DOMAIN e : y.loc = x.loc /\ m \in FileIds(e[y])
    BY <1>2, <2>1 DEF Kept
  <2>3. y \in {z \in DOMAIN e : InVar(z)}
    BY <2>1, <2>2 DEF InVar
  <2> QED
    BY <2>2, <2>3, IdsOf DEF VarIds
<1> QED
  BY <1>1, <1>2

\* The runtime journal has no message that it had not.
LEMMA NoneNewIds ==
    ASSUME NEW d, NEW e, NoneNew(d, e)
    PROVE  RuntimeIds(e) \subseteq RuntimeIds(d)
<1> SUFFICES ASSUME NEW m \in RuntimeIds(e) PROVE m \in RuntimeIds(d)
  OBVIOUS
<1>1. PICK y \in {z \in DOMAIN e : ~InVar(z)} : m \in FileIds(e[y])
  BY IdsOf DEF RuntimeIds
<1>2. PICK x \in DOMAIN d : x.loc = Runtime /\ m \in FileIds(d[x])
  BY <1>1 DEF NoneNew, InVar
<1>3. x \in {z \in DOMAIN d : ~InVar(z)}
  BY <1>2 DEF InVar
<1> QED
  BY <1>2, <1>3, IdsOf DEF RuntimeIds

\* What is kept twice is kept.
LEMMA KeptAgain ==
    ASSUME NEW d, NEW e, NEW h, NEW G, Kept(d, e, G), Kept(e, h, G)
    PROVE  Kept(d, h, G)
BY DEF Kept

\* A file that still has its messages takes the place of the old one.
LEMMA KeptReplacing ==
    ASSUME NEW d, NEW x, NEW g, NEW G, x \in DOMAIN d => FileIds(d[x]) \subseteq FileIds(g)
    PROVE  /\ Kept(d, [d EXCEPT ![x] = g], G)
           /\ \A l : Active(l) \in DOMAIN d => Active(l) \in DOMAIN [d EXCEPT ![x] = g]
<1>1. PICK e : e = [d EXCEPT ![x] = g]
  OBVIOUS
<1>2. DOMAIN e = DOMAIN d /\ \A y \in DOMAIN d : e[y] = IF y = x THEN g ELSE d[y]
  BY <1>1
<1>3. Kept(d, e, G)
  BY <1>2 DEF Kept
<1> QED
  BY <1>1, <1>2, <1>3

\* The history gone accounts for the files put aside that a change replaces.
LEMMA DeletedKept ==
    ASSUME NEW e, NEW G, {g.id : g \in gone \cup Deleted(e)} \subseteq G,
           \A x \in DOMAIN disk : x.kind = "active" =>
             \E y \in DOMAIN e : y.loc = x.loc /\ FileIds(disk[x]) \subseteq FileIds(e[y])
    PROVE  Kept(disk, e, G)
<1> SUFFICES ASSUME NEW x \in DOMAIN disk, NEW m \in FileIds(disk[x])
             PROVE  m \in G \/ \E y \in DOMAIN e : y.loc = x.loc /\ m \in FileIds(e[y])
  BY DEF Kept
<1>1. CASE x.kind = "active"
  BY <1>1
<1>2. CASE x.kind # "active" /\ x \in DOMAIN e /\ e[x] = disk[x]
  BY <1>2
<1>3. CASE x.kind # "active" /\ (x \notin DOMAIN e \/ e[x] # disk[x])
  <2> DEFINE S == {z \in DOMAIN disk : z.kind # "active" /\ (z \notin DOMAIN e \/ e[z] # disk[z])}
  <2>1. x \in S
    BY <1>3
  <2>2. m \in Ids(disk, S)
    BY <2>1, IdsOf
  <2>3. PICK g : g = [id |-> m, why |-> "deleted"]
    OBVIOUS
  <2>4. g \in Deleted(e) /\ g.id = m
    BY <2>2, <2>3 DEF Deleted
  <2> QED
    BY <2>4
<1> QED
  BY <1>1, <1>2, <1>3

-----------------------------------------------------------------------------
(* Opening a journal                                                       *)

\* The names that the server makes.
LEMMA NamesOK ==
    ASSUME NEW loc \in Locs, NEW t \in Nat
    PROVE  /\ Active(loc) \in FileNames /\ Active(loc).kind = "active"
           /\ Active(loc).loc = loc
           /\ \A k \in {"archived", "corrupted"} :
                /\ Name(loc, k, t) \in FileNames /\ Name(loc, k, t).kind # "active"
                /\ Name(loc, k, t).loc = loc
BY DEF Active, Name, FileNames

\* The names of journals in use are those of their places.
LEMMA ActiveNames ==
    ASSUME NEW x \in FileNames, x.kind = "active"
    PROVE  x.loc \in Locs /\ x = Active(x.loc)
<1>1. x \in [loc : Locs, kind : {"active"}, at : {0}]
  BY DEF FileNames
<1> QED
  BY <1>1 DEF Active, Name

\* Journals of two places have two names.
LEMMA ActiveInjective ==
    ASSUME NEW a, NEW b, Active(a) = Active(b)
    PROVE  a = b
<1>1. Active(a).loc = a /\ Active(b).loc = b
  BY DEF Active, Name
<1> QED
  BY <1>1

\* What journal_file_open_reliably() leaves, whether it succeeds or not.
Opened(d, loc, e) ==
    /\ DiskOK(e, ids + 1, {})
    /\ \A l \in Locs : l # loc /\ Active(l) \in DOMAIN d => Active(l) \in DOMAIN e
    /\ \A x \in DOMAIN d : x.kind = "active" =>
         \E y \in DOMAIN e : y.loc = x.loc /\ FileIds(d[x]) \subseteq FileIds(e[y])

\* A file that was not closed is put aside, with its messages.
LEMMA PutAsideKeeps ==
    ASSUME NEW d, NEW loc \in Locs, DiskOK(d, ids, {}), ids \in Nat, clock \in Nat
    PROVE  /\ DiskOK(PutAside(d, loc), ids, {}) /\ Opened(d, loc, PutAside(d, loc))
           /\ Active(loc) \in DOMAIN PutAside(d, loc) => PutAside(d, loc) = d
<1>1. CASE Refused(d, loc)
  <2>1. PICK x : x = Active(loc)
    OBVIOUS
  <2>2. PICK to : to = Name(loc, "corrupted", clock)
    OBVIOUS
  <2>3. x \in DOMAIN d /\ x.kind = "active" /\ to \in FileNames /\ to.kind # "active"
        /\ to.loc = loc /\ x.loc = loc
    BY <1>1, <2>1, <2>2, NamesOK DEF Refused
  <2>4. PICK e : e = PutAside(d, loc)
    OBVIOUS
  <2>5. e = Renamed(d, x, to)
    BY <1>1, <2>1, <2>2, <2>4 DEF PutAside
  <2>6. DiskOK(e, ids, {}) /\ DiskOK(e, ids + 1, {})
    BY <2>3, <2>5, Renaming
  <2>7. /\ DOMAIN e = (DOMAIN d \ {x}) \cup {to} /\ e[to] = d[x]
        /\ \A y \in DOMAIN e : y # to => y \in DOMAIN d /\ y # x /\ e[y] = d[y]
    BY <2>5 DEF Renamed, With, Without
  <2>8. ASSUME NEW l \in Locs, l # loc, Active(l) \in DOMAIN d PROVE Active(l) \in DOMAIN e
    BY <2>1, <2>7, <2>8, ActiveInjective
  <2>9. ASSUME NEW y \in DOMAIN d, y.kind = "active"
        PROVE  \E z \in DOMAIN e : z.loc = y.loc /\ FileIds(d[y]) \subseteq FileIds(e[z])
    <3>1. CASE y = x
      BY <2>3, <2>7, <3>1
    <3>2. CASE y # x
      BY <2>3, <2>7, <2>9, <3>2
    <3> QED
      BY <3>1, <3>2
  <2>10. x \notin DOMAIN e
    BY <2>3, <2>7
  <2> QED
    BY <2>1, <2>4, <2>6, <2>8, <2>9, <2>10 DEF Opened
<1>2. CASE ~Refused(d, loc)
  <2>1. PutAside(d, loc) = d
    BY <1>2 DEF PutAside
  <2>2. DiskOK(d, ids + 1, {})
    BY Aging
  <2> QED
    BY <2>1, <2>2 DEF Opened
<1> QED
  BY <1>1, <1>2

\* journal_file_open_reliably(), with every outcome.
LEMMA Opening ==
    ASSUME NEW d, NEW loc \in Locs, DiskOK(d, ids, {}), ids \in Nat, clock \in Nat,
           NEW e, e = OpenReliably(d, loc) \/ e \in OpenFailures(d, loc)
    PROVE  Opened(d, loc, e) /\ (e = OpenReliably(d, loc) => Active(loc) \in DOMAIN e)
<1>0. PICK m \in Nat : m = ids + 1 /\ m >= ids /\ m > ids /\ m <= m
  OBVIOUS
<1>1. PICK x : x = Active(loc)
  OBVIOUS
<1>2. x \in FileNames /\ x.kind = "active" /\ x.loc = loc
  BY <1>1, NamesOK
<1>3. PICK a : a = PutAside(d, loc)
  OBVIOUS
<1>4. DiskOK(a, ids, {}) /\ Opened(d, loc, a) /\ (x \in DOMAIN a => a = d)
  BY <1>1, <1>3, PutAsideKeeps
<1>5. PICK f : f = Fsync(SetOnline(a[x]))
  OBVIOUS
<1>6. ASSUME x \in DOMAIN a PROVE FileOK(x, f) /\ Keeps(a[x], f)
  <2>1. FileOK(x, a[x])
    BY <1>4, <1>6 DEF DiskOK
  <2>2. PICK g : g = SetOnline(a[x])
    OBVIOUS
  <2>3. FileOK(x, g) /\ Keeps(a[x], g)
    BY <2>1, <2>2, SetOnlineKeeps
  <2>4. FileOK(x, f) /\ Keeps(g, f)
    BY <1>5, <2>2, <2>3, FsyncKeeps
  <2> QED
    BY <2>3, <2>4 DEF Keeps
<1>7. CASE x \in DOMAIN a /\ e = With(a, x, f)
  <2>1. e = [a EXCEPT ![x] = f]
    BY <1>7 DEF With
  <2>2. DiskOK(e, ids + 1, {})
    <3>1. FileOK(x, f) /\ Keeps(a[x], f)
      BY <1>6, <1>7
    <3>2. DiskOK([a EXCEPT ![x] = f], m, {})
      BY <1>0, <1>4, <3>1, Replacing
    <3> QED
      BY <1>0, <2>1, <3>2
  <2>3. DOMAIN e = DOMAIN a /\ \A y \in DOMAIN a : e[y] = IF y = x THEN f ELSE a[y]
    BY <2>1
  <2>4. \A y \in DOMAIN a : FileIds(e[y]) = FileIds(a[y])
    BY <1>6, <1>7, <2>3 DEF Keeps, FileIds
  <2> QED
    BY <1>1, <1>4, <1>7, <2>2, <2>3, <2>4 DEF Opened
<1>8. ASSUME NEW g, FileOK(x, g), g.entries = <<>>, g.seqid = ids + 1,
             x \notin DOMAIN a, e = With(a, x, g)
      PROVE  Opened(d, loc, e) /\ Active(loc) \in DOMAIN e
  <2>1. DiskOK(e, ids + 1, {})
    <3>1. DiskOK(e, m, {})
      BY <1>0, <1>2, <1>4, <1>8, Creating
    <3> QED
      BY <1>0, <3>1
  <2>2. DOMAIN e = DOMAIN a \cup {x} /\ \A y \in DOMAIN a : e[y] = a[y]
    BY <1>8 DEF With
  <2> QED
    BY <1>1, <1>4, <2>1, <2>2 DEF Opened
<1>9. CASE e = OpenReliably(d, loc)
  <2>1. CASE x \in DOMAIN a
    <3>1. e = With(a, x, f)
      BY <1>1, <1>3, <1>5, <1>9, <2>1 DEF OpenReliably
    <3> QED
      BY <1>1, <1>7, <2>1, <3>1 DEF With
  <2>2. CASE x \notin DOMAIN a
    <3>1. PICK g : g = NewFile(ids + 1, 0)
      OBVIOUS
    <3>2. e = With(a, x, g)
      BY <1>1, <1>3, <1>9, <2>2, <3>1 DEF OpenReliably
    <3>3. FileOK(x, g) /\ g.entries = <<>> /\ g.seqid = ids + 1
      <4>1. FileOK(x, NewFile(m, 0)) /\ NewFile(m, 0).entries = <<>>
            /\ NewFile(m, 0).seqid = m
        BY <1>2, NewFileOK, 0 \in Nat
      <4> QED
        BY <1>0, <3>1, <4>1
    <3> QED
      BY <1>8, <2>2, <3>2, <3>3
  <2> QED
    BY <2>1, <2>2
<1>10. CASE e # OpenReliably(d, loc) /\ e \in OpenFailures(d, loc)
  <2>1. PICK g : g = SetOffline([NewFile(ids + 1, 0) EXCEPT !.tables = FALSE])
    OBVIOUS
  <2>2. e = d \/ e = a \/ (x \notin DOMAIN a /\ e = With(a, x, g))
    BY <1>1, <1>3, <1>10, <2>1 DEF OpenFailures
  <2>3. FileOK(x, g) /\ g.entries = <<>> /\ g.seqid = ids + 1
    BY <1>0, <1>2, <2>1, StubOK, 0 \in Nat
  <2>4. CASE e = d
    <3>1. DiskOK(d, ids + 1, {})
      BY Aging
    <3> QED
      BY <1>10, <2>4, <3>1 DEF Opened
  <2>5. CASE x \notin DOMAIN a /\ e = With(a, x, g)
    BY <1>8, <2>3, <2>5
  <2> QED
    BY <1>4, <1>10, <2>2, <2>4, <2>5
<1> QED
  BY <1>9, <1>10

-----------------------------------------------------------------------------
(* The tasks                                                               *)

Jobs == {"write", "retry", "return", "rotate", "rename", "create", "vacuum", "sync",
         "set_offline", "offline", "fsync", "synced", "turn", "loop", "open_system",
         "open_runtime", "space", "flush", "begin", "copy", "recopy", "finish", "done"}

Tasks == [do : Jobs, loc : Locs \cup {""}, id : Nat, at : Nat]

\* May the task b wait while a is done?
MayPrecede(a, b) ==
    /\ b.do \notin {"create", "copy", "offline", "finish"}
    /\ b.do = "recopy" => a.do \in {"rotate", "vacuum", "rename", "create"}
    /\ b.do = "rename" => a.do \in {"rename", "create"} /\ a.loc # b.loc

InOrder(s) == \A i, j \in DOMAIN s : i < j => MayPrecede(s[i], s[j])

\* The messages that are in a file, or were in one that is gone.
GoneIds == {g.id : g \in gone}

Saved == Ids(disk, DOMAIN disk) \cup GoneIds

TaskOK(t) ==
    /\ t.id <= Len(msgs)
    /\ t.do \in {"rename", "create"} => t.loc \in Locs /\ IsOpen(t.loc)
    /\ t.do = "return" /\ t.id # 0 => t.id \in Saved

First(do) == todo # <<>> /\ Head(todo).do = do

\* What holds of the task that comes next.
FirstOK ==
    /\ First("create") =>
         /\ Active(Head(todo).loc) \notin DOMAIN disk
         /\ Name(Head(todo).loc, "archived", Head(todo).at) \in DOMAIN disk
    /\ First("offline") /\ Active(Head(todo).loc) \in DOMAIN disk =>
         LET f == disk[Active(Head(todo).loc)] IN f.synced = Len(f.entries)
    /\ First("copy") => open.system
    /\ First("finish") /\ ~flush.err => flush.left = {}

TodoOK ==
    /\ todo \in Seq(Tasks) /\ InOrder(todo) /\ FirstOK
    /\ \A i \in DOMAIN todo : TaskOK(todo[i])
    /\ ~up => todo = <<>>

\* The file that a rotation has renamed and not yet replaced.
Pending ==
    IF First("create") THEN {Name(Head(todo).loc, "archived", Head(todo).at)} ELSE {}

OpenOK ==
    /\ open \in [runtime : BOOLEAN, system : BOOLEAN, users : Seq(Users)]
    /\ IsInjective(open.users) /\ Len(open.users) <= USER_JOURNALS_MAX
    /\ \A loc \in Locs : IsOpen(loc) =>
         Active(loc) \in DOMAIN disk \/ (First("create") /\ Head(todo).loc = loc)

-----------------------------------------------------------------------------
(* The flush                                                               *)

Left == [id : Nat, at : Nat, seqid : Nat, seq : Nat]

Flushing == \E i \in DOMAIN todo : todo[i].do \in {"copy", "recopy", "finish"}

Flushes == [left : SUBSET Left, err : BOOLEAN, unread : SUBSET Nat]

\* The messages that the flush w will copy, or could not read.
Accounted(w) == {e.id : e \in w.left} \cup w.unread

\* What a flush has not copied, it will, unless it could not be read.
FlushOK ==
    /\ flush \in Flushes
    /\ \A i \in DOMAIN todo : todo[i].do = "recopy" => flush.left # {}
    /\ Flushing /\ ~flush.err =>
         RuntimeIds(disk) \subseteq Accounted(flush) \cup VarIds(disk) \cup GoneIds

-----------------------------------------------------------------------------

AckOK == \A a \in acked : a.id \in Saved /\ a.id \in 1..Len(msgs)

BasicsOK ==
    /\ up \in BOOLEAN /\ seqnum \in Nat /\ clock \in Nat /\ ids \in Nat
    /\ msgs \in Seq([uid : Users \cup {"root"}, pri : Nat])
    /\ scope \in Scopes

ServerInv ==
    /\ DiskOK(disk, ids, Pending)
    /\ OpenOK /\ TodoOK /\ FlushOK /\ AckOK /\ BasicsOK

-----------------------------------------------------------------------------
(* What follows when a task is done and others are put in its place        *)

\* A task that may wait for any other.
Ordinary(t) == t.do \notin {"create", "copy", "offline", "finish", "recopy", "rename"}

\* A task is one.
LEMMA MadeTask ==
    ASSUME NEW do \in Jobs, NEW t, t = Task(do)
    PROVE  t \in Tasks /\ t.do = do /\ t.id = 0
BY DEF Task, Tasks

\* So is one for a journal,
LEMMA MadeTaskOn ==
    ASSUME NEW do \in Jobs, NEW loc \in Locs \cup {""}, NEW t, t = TaskOn(do, loc)
    PROVE  t \in Tasks /\ t.do = do /\ t.loc = loc /\ t.id = 0
BY DEF Task, TaskOn, Tasks

\* and one for a message.
LEMMA MadeTaskFor ==
    ASSUME NEW do \in Jobs, NEW id \in Nat, NEW t, t = TaskFor(do, id)
    PROVE  t \in Tasks /\ t.do = do /\ t.id = id
BY DEF Task, TaskFor, Tasks

\* The tasks after others are put in the place of the first one.
LEMMA Pushed ==
    ASSUME NEW s \in Seq(Tasks), s # <<>>, NEW a \in Seq(Tasks), NEW q, q = a \o Tail(s)
    PROVE  /\ q \in Seq(Tasks)
           /\ \A k \in DOMAIN q : \/ k \in DOMAIN a /\ q[k] = a[k]
                                  \/ /\ k > Len(a) /\ k - Len(a) + 1 \in DOMAIN s
                                     /\ k - Len(a) + 1 # 1 /\ q[k] = s[k - Len(a) + 1]
<1>1. PICK t : t = Tail(s)
  OBVIOUS
<1>2. PICK n \in Nat : n = Len(s) /\ n # 0 /\ DOMAIN s = 1..n
  OBVIOUS
<1>3. PICK m \in Nat : m = Len(a) /\ DOMAIN a = 1..m
  OBVIOUS
<1>4. t \in Seq(Tasks) /\ Len(t) = n - 1 /\ \A i \in 1..(n - 1) : t[i] = s[i + 1]
  BY <1>1, <1>2
<1>5. q \in Seq(Tasks) /\ Len(q) = m + (n - 1)
      /\ (\A i \in 1..m : q[i] = a[i]) /\ (\A i \in 1..(n - 1) : q[m + i] = t[i])
  BY <1>1, <1>2, <1>3, <1>4
<1>6. ASSUME NEW k \in 1..(m + (n - 1))
      PROVE  \/ k \in 1..m /\ q[k] = a[k]
             \/ k > m /\ k - m + 1 \in 1..n /\ k - m + 1 # 1 /\ q[k] = s[k - m + 1]
  <2>1. CASE k <= m
    BY <1>2, <1>3, <1>5, <2>1
  <2>2. CASE k > m
    <3>1. PICK i \in 1..(n - 1) : k = m + i
      <4>1. k - m \in 1..(n - 1) /\ k = m + (k - m)
        BY <1>2, <1>3, <2>2
      <4> QED
        BY <4>1
    <3>2. q[k] = s[i + 1] /\ i + 1 = k - m + 1
      BY <1>2, <1>3, <1>4, <1>5, <3>1
    <3>3. i + 1 \in 1..n /\ i + 1 # 1
      BY <1>2, <3>1
    <3> QED
      BY <2>2, <3>2, <3>3
  <2> QED
    BY <1>2, <1>3, <2>1, <2>2
<1>7. DOMAIN q = 1..(m + (n - 1))
  BY <1>5
<1> QED
  BY <1>2, <1>3, <1>5, <1>6, <1>7

\* The order is kept when the tasks put in front may precede those that follow.
LEMMA PushedInOrder ==
    ASSUME NEW s \in Seq(Tasks), s # <<>>, NEW a \in Seq(Tasks), InOrder(s), InOrder(a),
           \A i \in DOMAIN a, j \in DOMAIN s : j # 1 => MayPrecede(a[i], s[j])
    PROVE  InOrder(a \o Tail(s))
<1>1. PICK q : q = a \o Tail(s)
  OBVIOUS
<1> SUFFICES ASSUME NEW i \in DOMAIN q, NEW j \in DOMAIN q, i < j PROVE MayPrecede(q[i], q[j])
  BY <1>1 DEF InOrder
<1>2. PICK m \in Nat : m = Len(a) /\ DOMAIN a = 1..m
  OBVIOUS
<1>3. \A k \in DOMAIN q : \/ k \in 1..m /\ q[k] = a[k]
                          \/ /\ k > m /\ k - m + 1 \in DOMAIN s
                             /\ k - m + 1 # 1 /\ q[k] = s[k - m + 1]
  BY <1>1, <1>2, Pushed
<1>4. q \in Seq(Tasks)
  BY <1>1, Pushed
<1>5. i \in Nat /\ j \in Nat
  BY <1>4
<1>6. CASE j \in 1..m /\ q[j] = a[j]
  BY <1>2, <1>3, <1>5, <1>6 DEF InOrder
<1>7. CASE j > m /\ j - m + 1 \in DOMAIN s /\ j - m + 1 # 1 /\ q[j] = s[j - m + 1]
  <2>1. CASE i \in 1..m /\ q[i] = a[i]
    BY <1>2, <1>7, <2>1
  <2>2. CASE i > m /\ i - m + 1 \in DOMAIN s /\ q[i] = s[i - m + 1]
    <3>1. i - m + 1 < j - m + 1
      BY <1>2, <1>5
    <3> QED
      BY <1>7, <2>2, <3>1 DEF InOrder
  <2> QED
    BY <1>3, <2>1, <2>2
<1> QED
  BY <1>3, <1>6, <1>7

\* A handler that is neither rotating nor vacuuming has only ordinary tasks left.
LEMMA RestOrdinary ==
    ASSUME TodoOK, todo # <<>>, Head(todo).do \notin {"rotate", "vacuum", "rename", "create"}
    PROVE  \A j \in DOMAIN todo : j # 1 => Ordinary(todo[j])
<1>1. 1 \in DOMAIN todo /\ Head(todo) = todo[1] /\ DOMAIN todo = 1..Len(todo)
  BY DEF TodoOK
<1> SUFFICES ASSUME NEW j \in DOMAIN todo, j # 1 PROVE Ordinary(todo[j])
  OBVIOUS
<1>2. 1 < j
  BY <1>1 DEF TodoOK
<1>3. MayPrecede(todo[1], todo[j])
  BY <1>1, <1>2 DEF TodoOK, InOrder
<1> QED
  BY <1>1, <1>3 DEF MayPrecede, Ordinary

\* Ordinary tasks in the place of the first one leave ordinary tasks.
LEMMA PushOrdinary ==
    ASSUME TodoOK, todo # <<>>, Head(todo).do \notin {"rotate", "vacuum", "rename", "create"},
           NEW a \in Seq(Tasks), \A i \in DOMAIN a : Ordinary(a[i]) /\ TaskOK(a[i])',
           Saved \subseteq Saved', msgs' = msgs, todo' = a \o Rest
    PROVE  todo' \in Seq(Tasks) /\ (\A i \in DOMAIN todo : Ordinary(todo[i]) /\ TaskOK(todo[i]))'
<1>1. PICK q : q = todo'
  OBVIOUS
<1>2. todo \in Seq(Tasks)
  BY DEF TodoOK
<1>3. q \in Seq(Tasks) /\ \A k \in DOMAIN q : \/ k \in DOMAIN a /\ q[k] = a[k]
                                              \/ \E j \in DOMAIN todo : j # 1 /\ q[k] = todo[j]
  <2>1. q = a \o Tail(todo)
    BY <1>1 DEF Rest
  <2>2. PICK n : n = Len(a)
    OBVIOUS
  <2>3. q \in Seq(Tasks) /\ \A k \in DOMAIN q : \/ k \in DOMAIN a /\ q[k] = a[k]
                                  \/ /\ k > n /\ k - n + 1 \in DOMAIN todo
                                     /\ k - n + 1 # 1 /\ q[k] = todo[k - n + 1]
    BY <1>2, <2>1, <2>2, Pushed
  <2> QED
    BY <2>3
<1>4. ASSUME NEW j \in DOMAIN todo, j # 1, NEW t, t = todo[j] PROVE Ordinary(t) /\ TaskOK(t)'
  <2>1. Ordinary(t) /\ TaskOK(t)
    BY <1>4, RestOrdinary DEF TodoOK
  <2> QED
    BY <2>1 DEF Ordinary, TaskOK
<1>5. \A k \in DOMAIN q : Ordinary(q[k]) /\ TaskOK(q[k])'
  BY <1>3, <1>4
<1> QED
  BY <1>1, <1>3, <1>5

\* What is left to show of a step after which all tasks are ordinary.
LEMMA OrdinaryStep ==
    ASSUME todo' \in Seq(Tasks),
           (\A i \in DOMAIN todo : Ordinary(todo[i]) /\ TaskOK(todo[i]))',
           (up \/ todo = <<>>)', up' \in BOOLEAN,
           DiskOK(disk', ids', {}),
           (open \in [runtime : BOOLEAN, system : BOOLEAN, users : Seq(Users)])',
           (IsInjective(open.users) /\ Len(open.users) <= USER_JOURNALS_MAX)',
           (\A loc \in Locs : IsOpen(loc) => Active(loc) \in DOMAIN disk)',
           flush' \in Flushes, AckOK', BasicsOK'
    PROVE  ServerInv'
<1>1. PICK q : q = todo'
  OBVIOUS
<1>2. q \in Seq(Tasks) /\ \A i \in DOMAIN q : Ordinary(q[i])
  BY <1>1
<1>3. q # <<>> => Ordinary(Head(q))
  <2>1. q # <<>> => 1 \in DOMAIN q /\ Head(q) = q[1]
    BY <1>2
  <2> QED
    BY <1>2, <2>1
<1>4. InOrder(q)
  BY <1>2 DEF InOrder, MayPrecede, Ordinary
<1>5. ~First("create")' /\ ~First("offline")' /\ ~First("copy")' /\ ~First("finish")'
  BY <1>1, <1>3 DEF First, Ordinary
<1>6. FirstOK' /\ Pending' = {}
  BY <1>5 DEF FirstOK, Pending
<1>7. TodoOK'
  <2>1. InOrder(todo)' /\ (~up => todo = <<>>)'
    BY <1>1, <1>4 DEF InOrder
  <2> QED
    BY <1>6, <2>1 DEF TodoOK
<1>8. ~Flushing' /\ (\A i \in DOMAIN todo : todo[i].do # "recopy")'
  BY <1>1, <1>2 DEF Flushing, Ordinary
<1>9. FlushOK'
  BY <1>8 DEF FlushOK
<1>10. OpenOK'
  BY DEF OpenOK
<1> QED
  BY <1>6, <1>7, <1>9, <1>10 DEF ServerInv

\* Messages that are kept stay saved.
LEMMA SavedKept ==
    ASSUME Kept(disk, disk', GoneIds'), gone \subseteq gone'
    PROVE  Saved \subseteq Saved'
<1>1. GoneIds \subseteq GoneIds'
  BY DEF GoneIds
<1>2. PICK e : e = disk'
  OBVIOUS
<1>3. PICK G : G = GoneIds'
  OBVIOUS
<1>4. Ids(disk, DOMAIN disk) \subseteq Ids(e, DOMAIN e) \cup G
  BY <1>2, <1>3, KeptIds
<1>5. Saved' = Ids(e, DOMAIN e) \cup G
  BY <1>2, <1>3 DEF Saved, Ids
<1> QED
  BY <1>1, <1>3, <1>4, <1>5 DEF Saved

\* What was acknowledged stays saved.
LEMMA AcksKept ==
    ASSUME AckOK, Saved \subseteq Saved', acked' = acked, msgs' = msgs
    PROVE  AckOK'
BY DEF AckOK

\* Ordinary tasks that are not about a message.
Plain == {t \in Tasks : Ordinary(t) /\ t.id = 0}

\* Tasks that are plain.
LEMMA PlainTasks ==
    ASSUME NEW do \in Jobs \ {"create", "copy", "offline", "finish", "recopy", "rename"},
           NEW loc \in Locs \cup {""}
    PROVE  Task(do) \in Plain /\ TaskOn(do, loc) \in Plain /\ TaskFor(do, 0) \in Plain
<1>1. /\ Task(do) \in Tasks /\ Task(do).do = do /\ Task(do).id = 0
      /\ TaskOn(do, loc) \in Tasks /\ TaskOn(do, loc).do = do /\ TaskOn(do, loc).id = 0
      /\ TaskFor(do, 0) \in Tasks /\ TaskFor(do, 0).do = do /\ TaskFor(do, 0).id = 0
  BY DEF Task, TaskOn, TaskFor, Tasks
<1> QED
  BY <1>1 DEF Plain, Ordinary

\* One plain task for each journal.
LEMMA OnEachPlain ==
    ASSUME NEW do \in Jobs \ {"create", "copy", "offline", "finish", "recopy", "rename"},
           NEW locs \in Seq(Locs)
    PROVE  OnEach(do, locs) \in Seq(Plain)
<1>1. PICK n \in Nat : n = Len(locs) /\ DOMAIN locs = 1..n
  OBVIOUS
<1>2. \A i \in 1..n : locs[i] \in Locs
  BY <1>1
<1>3. \A i \in 1..n : TaskOn(do, locs[i]) \in Plain
  BY <1>2, PlainTasks
<1>4. OnEach(do, locs) \in [1..n -> Plain]
  BY <1>1, <1>3 DEF OnEach
<1> QED
  BY <1>1, <1>4

\* The open journals are journals.
LEMMA VarJournalsListed ==
    ASSUME OpenOK
    PROVE  VarJournals \in Seq(Locs) /\ OpenJournals \in Seq(Locs)
<1>1. PICK u : u = open.users
  OBVIOUS
<1>2. u \in Seq(Users)
  BY <1>1 DEF OpenOK
<1>3. u \in Seq(Locs)
  BY <1>2 DEF Locs
<1>4. <<System>> \in Seq(Locs) /\ <<Runtime>> \in Seq(Locs) /\ <<>> \in Seq(Locs)
  BY DEF Locs
<1>5. VarJournals \in Seq(Locs)
  BY <1>1, <1>3, <1>4 DEF VarJournals
<1> QED
  BY <1>4, <1>5 DEF OpenJournals

\* Messages are numbered from 1.
LEMMA MsgsCounted ==
    ASSUME BasicsOK
    PROVE  Len(msgs) \in Nat /\ DOMAIN msgs = 1..Len(msgs)
BY DEF BasicsOK

\* Plain tasks may be done at any time.
LEMMA PlainOK ==
    ASSUME NEW t \in Plain, Len(msgs)' \in Nat
    PROVE  Ordinary(t) /\ TaskOK(t)'
BY DEF Plain, Ordinary, TaskOK

\* Plain tasks in the place of the first one,
LEMMA PlainPushed ==
    ASSUME TodoOK, BasicsOK, todo # <<>>,
           Head(todo).do \notin {"rotate", "vacuum", "rename", "create"},
           NEW a \in Seq(Plain), Saved \subseteq Saved', msgs' = msgs, todo' = a \o Rest
    PROVE  todo' \in Seq(Tasks) /\ (\A i \in DOMAIN todo : Ordinary(todo[i]) /\ TaskOK(todo[i]))'
<1>1. Len(msgs)' \in Nat
  BY MsgsCounted
<1>2. a \in Seq(Tasks) /\ \A i \in DOMAIN a : a[i] \in Plain
  BY DEF Plain
<1>3. \A i \in DOMAIN a : Ordinary(a[i]) /\ TaskOK(a[i])'
  BY <1>1, <1>2, PlainOK
<1> QED
  BY <1>2, <1>3, PushOrdinary

\* or none.
LEMMA PlainPopped ==
    ASSUME TodoOK, BasicsOK, todo # <<>>,
           Head(todo).do \notin {"rotate", "vacuum", "rename", "create"},
           Saved \subseteq Saved', msgs' = msgs, todo' = Rest
    PROVE  todo' \in Seq(Tasks) /\ (\A i \in DOMAIN todo : Ordinary(todo[i]) /\ TaskOK(todo[i]))'
<1>1. <<>> \in Seq(Plain)
  OBVIOUS
<1>2. todo' = <<>> \o Rest
  BY DEF TodoOK, Rest
<1> QED
  BY <1>1, <1>2, PlainPushed

-----------------------------------------------------------------------------
(* Steps that leave the files and the open journals alone                  *)

quietVars == <<disk, up, open, flush, seqnum, clock, ids, msgs, acked, gone, scope>>

\* A step that only changes the tasks.
LEMMA QuietStep ==
    ASSUME ServerInv, ~First("create"), UNCHANGED quietVars, up,
           todo' \in Seq(Tasks),
           (\A i \in DOMAIN todo : Ordinary(todo[i]) /\ TaskOK(todo[i]))'
    PROVE  ServerInv'
<1>1. DiskOK(disk, ids, {}) /\ \A loc \in Locs : IsOpen(loc) => Active(loc) \in DOMAIN disk
  BY DEF ServerInv, Pending, OpenOK
<1>2. /\ DiskOK(disk', ids', {})
      /\ (\A loc \in Locs : IsOpen(loc) => Active(loc) \in DOMAIN disk)'
  BY <1>1 DEF quietVars, IsOpen
<1>3. /\ (open \in [runtime : BOOLEAN, system : BOOLEAN, users : Seq(Users)])'
      /\ (IsInjective(open.users) /\ Len(open.users) <= USER_JOURNALS_MAX)'
  BY DEF ServerInv, OpenOK, quietVars
<1>4. flush' \in Flushes /\ up' \in BOOLEAN /\ up'
  BY DEF ServerInv, FlushOK, BasicsOK, quietVars
<1>5. AckOK' /\ BasicsOK'
  BY DEF ServerInv, AckOK, BasicsOK, quietVars, Saved, GoneIds
<1> QED
  BY <1>2, <1>3, <1>4, <1>5, OrdinaryStep

\* Such a step that puts plain tasks in the place of the first one,
LEMMA QuietTasks ==
    ASSUME ServerInv, UNCHANGED quietVars, up, todo # <<>>,
           Head(todo).do \notin {"rotate", "vacuum", "rename", "create"},
           NEW a \in Seq(Plain), todo' = a \o Rest
    PROVE  ServerInv'
<1>1. Saved \subseteq Saved' /\ msgs' = msgs
  BY DEF quietVars, Saved, GoneIds
<1>2. ~First("create")
  BY DEF First
<1> QED
  BY <1>1, <1>2, PlainPushed, QuietStep DEF ServerInv

\* or none.
LEMMA QuietPop ==
    ASSUME ServerInv, UNCHANGED quietVars, up, todo # <<>>,
           Head(todo).do \notin {"rotate", "vacuum", "rename", "create"}, todo' = Rest
    PROVE  ServerInv'
<1>1. <<>> \in Seq(Plain)
  OBVIOUS
<1>2. todo' = <<>> \o Rest
  BY DEF ServerInv, TodoOK, Rest
<1> QED
  BY <1>1, <1>2, QuietTasks

\* server_sync() begins.
LEMMA SyncKeeps ==
    ASSUME ServerInv, Sync, scope' = scope
    PROVE  ServerInv'
<1>1. UNCHANGED quietVars /\ up /\ todo # <<>> /\ Head(todo).do = "sync"
  BY DEF Sync, Doing, quietVars
<1>2. CASE sync.seqnum >= seqnum
  <2>1. PICK b : b = IF sync.seqnum >= seqnum THEN <<>>
                     ELSE OnEach("set_offline", VarJournals) \o <<Task("synced")>>
    OBVIOUS
  <2>2. todo' = b \o Rest
    BY <2>1 DEF Sync
  <2>3. b \in Seq(Plain)
    BY <1>2, <2>1
  <2> QED
    BY <1>1, <2>2, <2>3, QuietTasks
<1>3. CASE ~(sync.seqnum >= seqnum)
  <2>1. PICK b : b = OnEach("set_offline", VarJournals)
    OBVIOUS
  <2>2. b \in Seq(Plain)
    BY <2>1, OnEachPlain, VarJournalsListed DEF ServerInv, Jobs
  <2>3. Task("synced") \in Plain
    BY PlainTasks DEF Jobs
  <2>4. b \o <<Task("synced")>> \in Seq(Plain)
    BY <2>2, <2>3
  <2>5. todo' = (b \o <<Task("synced")>>) \o Rest
    BY <1>3, <2>1 DEF Sync
  <2> QED
    BY <1>1, <2>4, <2>5, QuietTasks
<1> QED
  BY <1>2, <1>3

\* server_sync() ends.
LEMMA SyncedKeeps ==
    ASSUME ServerInv, Synced, scope' = scope
    PROVE  ServerInv'
<1>1. UNCHANGED quietVars /\ up /\ todo # <<>> /\ Head(todo).do = "synced" /\ todo' = Rest
  BY DEF Synced, Doing, quietVars
<1> QED
  BY <1>1, QuietPop

\* The main loop turns.
LEMMA TurnKeeps ==
    ASSUME ServerInv, Turn, scope' = scope
    PROVE  ServerInv'
<1>1. UNCHANGED quietVars /\ up /\ todo # <<>> /\ Head(todo).do = "turn"
  BY DEF Turn, Doing, quietVars
<1>2. Task("sync") \in Plain /\ Task("loop") \in Plain
  BY PlainTasks DEF Jobs
<1>3. PICK a : a = (IF sync.time + SyncInterval > loop THEN <<Task("sync")>> ELSE <<>>)
                     \o <<Task("loop")>>
  OBVIOUS
<1>4. a \in Seq(Plain)
  BY <1>2, <1>3
<1>5. todo' = a \o Rest
  BY <1>3 DEF Turn
<1> QED
  BY <1>1, <1>4, <1>5, QuietTasks

\* The main loop notes the time.
LEMMA LoopKeeps ==
    ASSUME ServerInv, Loop, scope' = scope
    PROVE  ServerInv'
<1>1. UNCHANGED quietVars /\ up /\ todo # <<>> /\ Head(todo).do = "loop" /\ todo' = Rest
  BY DEF Loop, Doing, quietVars
<1> QED
  BY <1>1, QuietPop

\* available_space() reports.
LEMMA SpaceKeeps ==
    ASSUME ServerInv, Space, scope' = scope
    PROVE  ServerInv'
<1>1. UNCHANGED quietVars /\ up /\ todo # <<>> /\ Head(todo).do = "space"
      /\ (todo' = Rest \/ todo' = <<Driver>> \o Rest)
  BY DEF Space, Doing, quietVars
<1>2. <<Driver>> \in Seq(Plain)
  <2>1. Driver \in Plain
    BY PlainTasks DEF Jobs, Driver
  <2> QED
    BY <2>1
<1> QED
  BY <1>1, <1>2, QuietPop, QuietTasks

\* server_flush_to_var() begins.
LEMMA FlushKeeps ==
    ASSUME ServerInv, Flush, scope' = scope
    PROVE  ServerInv'
<1>1. UNCHANGED quietVars /\ up /\ todo # <<>> /\ Head(todo).do = "flush"
  BY DEF Flush, Doing, quietVars
<1>2. /\ Task("open_system") \in Plain /\ Task("open_runtime") \in Plain
      /\ Task("space") \in Plain /\ Task("begin") \in Plain
  BY PlainTasks DEF Jobs
<1>3. PICK a : a = IF IsOpen(Runtime)
                   THEN <<Task("open_system"), Task("open_runtime"), Task("space"),
                          Task("begin")>>
                   ELSE <<>>
  OBVIOUS
<1>4. a \in Seq(Plain)
  BY <1>2, <1>3
<1>5. todo' = a \o Rest
  BY <1>3 DEF Flush
<1> QED
  BY <1>1, <1>4, <1>5, QuietTasks

\* An idle daemon, or one that starts, begins a handler.
LEMMA Begins ==
    ASSUME ServerInv, todo = <<>>, up',
           UNCHANGED <<disk, open, flush, seqnum, clock, ids, acked, gone, scope>>,
           todo' \in Seq(Tasks), (\A i \in DOMAIN todo : Ordinary(todo[i]) /\ TaskOK(todo[i]))',
           BasicsOK', Len(msgs)' >= Len(msgs)
    PROVE  ServerInv'
<1>1. DiskOK(disk, ids, {}) /\ \A loc \in Locs : IsOpen(loc) => Active(loc) \in DOMAIN disk
  BY DEF ServerInv, Pending, OpenOK, First
<1>2. /\ DiskOK(disk', ids', {})
      /\ (\A loc \in Locs : IsOpen(loc) => Active(loc) \in DOMAIN disk)'
  BY <1>1 DEF IsOpen
<1>3. /\ (open \in [runtime : BOOLEAN, system : BOOLEAN, users : Seq(Users)])'
      /\ (IsInjective(open.users) /\ Len(open.users) <= USER_JOURNALS_MAX)'
  BY DEF ServerInv, OpenOK
<1>4. flush' \in Flushes /\ up' \in BOOLEAN
  BY DEF ServerInv, FlushOK, BasicsOK
<1>5. AckOK'
  <2>1. Saved' = Saved
    BY DEF Saved, GoneIds
  <2>2. PICK n \in Nat : n = Len(msgs)
    BY MsgsCounted DEF ServerInv
  <2>3. PICK k \in Nat : k = Len(msgs)' /\ k >= n
    BY <2>2 DEF BasicsOK
  <2>4. \A a \in acked : a.id \in Saved /\ a.id \in 1..n
    BY <2>2 DEF ServerInv, AckOK
  <2>5. \A a \in acked : a.id \in 1..k
    BY <2>2, <2>3, <2>4
  <2> QED
    BY <2>1, <2>3, <2>4, <2>5 DEF AckOK
<1> QED
  BY <1>2, <1>3, <1>4, <1>5, OrdinaryStep

\* A handler of plain tasks.
LEMMA PlainHandler ==
    ASSUME NEW a \in Seq(Plain), todo' = a, Len(msgs)' \in Nat
    PROVE  todo' \in Seq(Tasks) /\ (\A i \in DOMAIN todo : Ordinary(todo[i]) /\ TaskOK(todo[i]))'
<1>1. a \in Seq(Tasks) /\ \A i \in DOMAIN a : a[i] \in Plain
  BY DEF Plain
<1>2. \A i \in DOMAIN a : Ordinary(a[i]) /\ TaskOK(a[i])'
  BY <1>1, PlainOK
<1> QED
  BY <1>1, <1>2

\* The daemon starts.
LEMMA StartKeeps ==
    ASSUME ServerInv, Start, scope' = scope
    PROVE  ServerInv'
<1>1. /\ UNCHANGED <<disk, open, flush, seqnum, clock, ids, msgs, acked, gone, scope>>
      /\ up' = TRUE /\ todo = <<>>
  BY DEF Start, ServerInv, TodoOK
<1>2. /\ Task("open_system") \in Plain /\ Task("open_runtime") \in Plain
      /\ Task("space") \in Plain /\ Task("vacuum") \in Plain /\ Task("flush") \in Plain
      /\ Driver \in Plain /\ Task("loop") \in Plain
  BY PlainTasks DEF Jobs, Driver
<1>3. PICK a : a = <<Task("open_system"), Task("open_runtime"), Task("space"),
                     Task("vacuum"), Task("flush"), Driver, Task("loop")>>
  OBVIOUS
<1>4. a \in Seq(Plain) /\ todo' = a
  BY <1>2, <1>3 DEF Start
<1>5. Len(msgs) \in Nat /\ Len(msgs)' = Len(msgs)
  BY <1>1, MsgsCounted DEF ServerInv
<1>6. BasicsOK'
  BY <1>1 DEF ServerInv, BasicsOK
<1>7. todo' \in Seq(Tasks) /\ (\A i \in DOMAIN todo : Ordinary(todo[i]) /\ TaskOK(todo[i]))'
  BY <1>4, <1>5, PlainHandler
<1> QED
  BY <1>1, <1>5, <1>6, <1>7, Begins

\* A signal arrives.
LEMMA SignalKeeps ==
    ASSUME ServerInv, NEW a \in Seq(Plain), Signal(a), scope' = scope
    PROVE  ServerInv'
<1>1. /\ UNCHANGED <<disk, open, flush, seqnum, clock, ids, msgs, acked, gone, scope>>
      /\ up' /\ todo = <<>> /\ todo' = a
  BY DEF Signal, Idle
<1>2. Len(msgs) \in Nat /\ Len(msgs)' = Len(msgs)
  BY <1>1, MsgsCounted DEF ServerInv
<1>3. BasicsOK'
  BY <1>1 DEF ServerInv, BasicsOK, Signal
<1>4. todo' \in Seq(Tasks) /\ (\A i \in DOMAIN todo : Ordinary(todo[i]) /\ TaskOK(todo[i]))'
  BY <1>1, <1>2, PlainHandler
<1> QED
  BY <1>1, <1>2, <1>3, <1>4, Begins

\* SIGUSR1, SIGUSR2 and SIGTERM.
LEMMA SignalsKeep ==
    ASSUME ServerInv, SIGUSR1 \/ SIGUSR2 \/ SIGTERM, scope' = scope
    PROVE  ServerInv'
<1>1. /\ Task("flush") \in Plain /\ Task("sync") \in Plain /\ Task("turn") \in Plain
      /\ Driver \in Plain /\ Task("done") \in Plain /\ Task("rotate") \in Plain
      /\ Task("vacuum") \in Plain
  BY PlainTasks DEF Jobs, Driver
<1>2. CASE SIGUSR1
  <2>1. PICK a : a = <<Task("flush"), Task("sync"), Task("turn")>>
    OBVIOUS
  <2>2. a \in Seq(Plain) /\ Signal(a)
    BY <1>1, <1>2, <2>1 DEF SIGUSR1
  <2> QED
    BY <2>2, SignalKeeps
<1>3. CASE SIGUSR2
  <2>1. PICK a : a = RotateAndVacuum \o <<Task("turn")>>
    OBVIOUS
  <2>2. a \in Seq(Plain)
    BY <1>1, <2>1 DEF RotateAndVacuum
  <2>3. Signal(a)
    BY <1>3, <2>1 DEF SIGUSR2
  <2> QED
    BY <2>2, <2>3, SignalKeeps
<1>4. CASE SIGTERM
  <2>1. PICK a : a = <<Task("turn"), Task("turn"), Driver, Task("done")>>
    OBVIOUS
  <2>2. a \in Seq(Plain) /\ Signal(a)
    BY <1>1, <1>4, <2>1 DEF SIGTERM
  <2> QED
    BY <2>2, SignalKeeps
<1> QED
  BY <1>2, <1>3, <1>4

\* A message arrives: its write waits for what it will be saved in.
LEMMA ReceiveKeeps ==
    ASSUME ServerInv, NEW uid \in scope.users \cup {"root"}, Receive(uid, scope.level),
           scope' = scope
    PROVE  ServerInv'
<1>1. /\ UNCHANGED <<disk, open, flush, seqnum, clock, ids, acked, gone, scope>>
      /\ up' /\ up' = up /\ todo = <<>>
      /\ msgs' = Append(msgs, [uid |-> uid, pri |-> scope.level])
  BY DEF Receive, Idle
<1>2. PICK n \in Nat : n = Len(msgs)
  BY MsgsCounted DEF ServerInv
<1>3. /\ [uid |-> uid, pri |-> scope.level] \in [uid : Users \cup {"root"}, pri : Nat]
      /\ msgs \in Seq([uid : Users \cup {"root"}, pri : Nat])
  BY JournaldAssumption DEF ServerInv, BasicsOK
<1>4. msgs' \in Seq([uid : Users \cup {"root"}, pri : Nat]) /\ Len(msgs)' = n + 1
  BY <1>1, <1>2, <1>3
<1>5. BasicsOK'
  BY <1>1, <1>4 DEF ServerInv, BasicsOK
<1>6. PICK t : t = TaskFor("write", n + 1)
  OBVIOUS
<1>7. t \in Tasks /\ t.do = "write" /\ t.id = n + 1
  <2>1. n + 1 \in Nat /\ "write" \in Jobs
    BY <1>2 DEF Jobs
  <2> QED
    BY <1>6, <2>1, MadeTaskFor
<1>8. Ordinary(t) /\ TaskOK(t)'
  BY <1>2, <1>4, <1>7 DEF Ordinary, TaskOK
<1>9. Task("turn") \in Plain /\ Driver \in Plain
  BY PlainTasks DEF Jobs, Driver
<1>10. PICK v : v = Task("turn")
  OBVIOUS
<1>11. PICK w : w = Driver
  OBVIOUS
<1>12. v \in Tasks /\ w \in Tasks /\ Ordinary(v) /\ TaskOK(v)' /\ Ordinary(w) /\ TaskOK(w)'
  <2>1. v \in Plain /\ w \in Plain /\ Len(msgs)' \in Nat
    BY <1>2, <1>4, <1>9, <1>10, <1>11
  <2> QED
    BY <2>1, PlainOK DEF Plain
<1>13. PICK V : V = {t, v, w}
  OBVIOUS
<1>14. PICK q : todo' = q /\ q \in Seq(V)
  <2>1. PICK p \in {<<>>, <<w>>} : todo' = p \o <<t, v>>
    BY <1>2, <1>6, <1>10, <1>11 DEF Receive
  <2>2. p \in Seq(V) /\ <<t, v>> \in Seq(V)
    <3>1. t \in V /\ v \in V /\ w \in V
      BY <1>13
    <3>2. <<t, v>> \in Seq(V)
      BY <3>1
    <3>3. <<>> \in Seq(V) /\ <<w>> \in Seq(V)
      BY <3>1
    <3> QED
      BY <2>1, <3>2, <3>3
  <2>3. p \o <<t, v>> \in Seq(V)
    BY <2>2
  <2> QED
    BY <2>1, <2>3
<1>15. q \in Seq(Tasks) /\ \A i \in DOMAIN q : q[i] \in {t, v, w}
  BY <1>7, <1>12, <1>13, <1>14
<1>16. \A i \in DOMAIN q : Ordinary(q[i]) /\ TaskOK(q[i])'
  BY <1>8, <1>12, <1>15
<1>17. todo' \in Seq(Tasks) /\ (\A i \in DOMAIN todo : Ordinary(todo[i]) /\ TaskOK(todo[i]))'
  BY <1>14, <1>15, <1>16
<1>18. Len(msgs)' >= Len(msgs)
  BY <1>2, <1>4
<1> QED
  BY <1>1, <1>5, <1>17, <1>18, Begins

\* write_to_journal() returns: the message is saved.
LEMMA ReturnKeeps ==
    ASSUME ServerInv, WriteReturns, scope' = scope
    PROVE  ServerInv'
<1>1. /\ UNCHANGED <<disk, up, open, flush, seqnum, clock, ids, msgs, gone, scope>>
      /\ up /\ todo # <<>> /\ Head(todo).do = "return" /\ todo' = Rest
      /\ acked' = acked \cup [id : {Head(todo).id} \ {0}, loc : {Head(todo).loc}]
  BY DEF WriteReturns, Doing
<1>2. Saved' = Saved
  BY <1>1 DEF Saved, GoneIds
<1>3. todo' \in Seq(Tasks) /\ (\A i \in DOMAIN todo : Ordinary(todo[i]) /\ TaskOK(todo[i]))'
  BY <1>1, <1>2, PlainPopped DEF ServerInv
<1>4. PICK n \in Nat : n = Len(msgs)
  BY MsgsCounted DEF ServerInv
<1>5. PICK t \in Tasks : t = Head(todo)
  <2>1. Head(todo) = todo[1] /\ todo[1] \in Tasks
    BY <1>1 DEF ServerInv, TodoOK
  <2> QED
    BY <2>1
<1>6. TaskOK(t)
  <2>1. 1 \in DOMAIN todo /\ t = todo[1]
    BY <1>1, <1>5 DEF ServerInv, TodoOK
  <2> QED
    BY <2>1 DEF ServerInv, TodoOK
<1>7. t.id # 0 => t.id \in Saved /\ t.id \in 1..n
  <2>1. t.id \in Nat /\ t.do = "return"
    BY <1>1, <1>5 DEF Tasks
  <2>2. t.id <= n /\ (t.id # 0 => t.id \in Saved)
    BY <1>4, <1>6, <2>1 DEF TaskOK
  <2> QED
    BY <1>4, <2>1, <2>2
<1>8. \A a \in acked' : a.id \in Saved /\ a.id \in 1..n
  <2>1. \A a \in acked : a.id \in Saved /\ a.id \in 1..n
    BY <1>4 DEF ServerInv, AckOK
  <2>2. \A a \in [id : {t.id} \ {0}, loc : {t.loc}] : a.id = t.id /\ t.id # 0
    OBVIOUS
  <2> QED
    BY <1>1, <1>5, <1>7, <2>1, <2>2
<1>9. AckOK'
  BY <1>1, <1>2, <1>4, <1>8 DEF AckOK
<1>10. DiskOK(disk, ids, {}) /\ \A loc \in Locs : IsOpen(loc) => Active(loc) \in DOMAIN disk
  BY <1>1 DEF ServerInv, Pending, OpenOK, First
<1>11. /\ DiskOK(disk', ids', {})
       /\ (\A loc \in Locs : IsOpen(loc) => Active(loc) \in DOMAIN disk)'
  BY <1>1, <1>10 DEF IsOpen
<1>12. /\ (open \in [runtime : BOOLEAN, system : BOOLEAN, users : Seq(Users)])'
       /\ (IsInjective(open.users) /\ Len(open.users) <= USER_JOURNALS_MAX)'
  BY <1>1 DEF ServerInv, OpenOK
<1>13. flush' \in Flushes /\ up' \in BOOLEAN /\ up' /\ BasicsOK'
  BY <1>1 DEF ServerInv, FlushOK, BasicsOK
<1> QED
  BY <1>3, <1>9, <1>11, <1>12, <1>13, OrdinaryStep

\* Time passes.
LEMMA TickKeeps ==
    ASSUME ServerInv, Tick, scope' = scope
    PROVE  ServerInv'
<1>1. /\ UNCHANGED <<disk, up, open, todo, flush, seqnum, ids, msgs, acked, gone, scope>>
      /\ clock' = clock + 1
  BY DEF Tick
<1>2. Pending' = Pending /\ FirstOK' = FirstOK /\ First("create")' = First("create")
  BY <1>1 DEF Pending, First, FirstOK
<1>3. DiskOK(disk', ids', Pending')
  BY <1>1, <1>2 DEF ServerInv
<1>4. OpenOK'
  BY <1>1, <1>2 DEF ServerInv, OpenOK, IsOpen
<1>5. TodoOK'
  BY <1>1, <1>2 DEF ServerInv, TodoOK, TaskOK, IsOpen, Saved, GoneIds
<1>6. FlushOK'
  BY <1>1 DEF ServerInv, FlushOK, Flushing, GoneIds
<1>7. AckOK' /\ BasicsOK'
  BY <1>1 DEF ServerInv, AckOK, BasicsOK, Saved, GoneIds
<1> QED
  BY <1>3, <1>4, <1>5, <1>6, <1>7 DEF ServerInv

-----------------------------------------------------------------------------
(* The end of the daemon and of the power supply                           *)

\* The end of the daemon leaves the files, as far as they are in order.
LEMMA EndedKeeps ==
    ASSUME ServerInv, Ended, scope' = scope, DiskOK(disk', ids', {}), Saved \subseteq Saved'
    PROVE  ServerInv'
<1>1. /\ up' = FALSE /\ open' = NoJournals /\ todo' = <<>> /\ flush' = NoFlush /\ seqnum' = 0
      /\ UNCHANGED <<clock, ids, msgs, acked>>
  BY DEF Ended
<1>2. todo' \in Seq(Tasks) /\ (\A i \in DOMAIN todo : Ordinary(todo[i]) /\ TaskOK(todo[i]))'
  BY <1>1
<1>3. PICK o : o = open'
  OBVIOUS
<1>4. PICK u : u = o.users
  OBVIOUS
<1>5. /\ o.runtime = FALSE /\ o.system = FALSE /\ u = <<>>
      /\ o \in [runtime : BOOLEAN, system : BOOLEAN, users : Seq(Users)]
  BY <1>1, <1>3, <1>4 DEF NoJournals
<1>6. u \in Seq(Users) /\ Len(u) = 0 /\ DOMAIN u = {}
  BY <1>5
<1>7. IsInjective(u) /\ Len(u) <= USER_JOURNALS_MAX
  BY <1>6, JournaldAssumption DEF IsInjective
<1>8. (\A loc \in Locs : ~IsOpen(loc))'
  BY <1>3, <1>4, <1>5, <1>6 DEF IsOpen
<1>9. /\ (open \in [runtime : BOOLEAN, system : BOOLEAN, users : Seq(Users)])'
      /\ (IsInjective(open.users) /\ Len(open.users) <= USER_JOURNALS_MAX)'
  BY <1>3, <1>4, <1>5, <1>7
<1>10. flush' \in Flushes
  BY <1>1 DEF NoFlush, Flushes
<1>11. AckOK'
  BY <1>1, AcksKept DEF ServerInv
<1>12. BasicsOK'
  BY <1>1 DEF ServerInv, BasicsOK
<1> QED
  BY <1>1, <1>2, <1>8, <1>9, <1>10, <1>11, <1>12, OrdinaryStep

\* A handler cut off in a rotation leaves the file that it has renamed.
LEMMA NothingPending ==
    ASSUME ServerInv
    PROVE  DiskOK(disk, ids, {}) /\ ids \in Nat
<1>1. DiskOK(disk, ids, Pending) /\ ids \in Nat
  BY DEF ServerInv, BasicsOK
<1>2. DOMAIN disk \subseteq FileNames /\ \A x \in DOMAIN disk : FileOK(x, disk[x]) /\ disk[x].seqid <= ids
  BY <1>1 DEF DiskOK
<1>3. PICK P : P = Pending
  OBVIOUS
<1>4. Chained(disk, P)
  BY <1>1, <1>3 DEF DiskOK
<1>5. \A x : Grows(x, {}) => Grows(x, P)
  BY DEF Grows
<1>6. Chained(disk, {})
  BY <1>4, <1>5 DEF Chained
<1> QED
  BY <1>1, <1>2, <1>6 DEF DiskOK

\* The daemon is killed, or dies of an assertion.
LEMMA KillKeeps ==
    ASSUME ServerInv, Kill \/ FlushFaults, scope' = scope
    PROVE  ServerInv'
<1>1. Ended /\ UNCHANGED <<disk, gone>>
  BY DEF Kill, FlushFaults
<1>2. DiskOK(disk', ids', {})
  BY <1>1, NothingPending DEF Ended
<1>3. Saved' = Saved
  BY <1>1 DEF Saved, GoneIds
<1> QED
  BY <1>1, <1>2, <1>3, EndedKeeps

\* server_done() closes what is open.
LEMMA DoneKeeps ==
    ASSUME ServerInv, Done, scope' = scope
    PROVE  ServerInv'
<1>1. PICK e : e = disk'
  OBVIOUS
<1>2. /\ e = [x \in DOMAIN disk |-> IF x.kind = "active" /\ IsOpen(x.loc) THEN SetOffline(disk[x])
                                                                       ELSE disk[x]]
      /\ Ended /\ gone' = gone
  BY <1>1 DEF Done
<1>3. DiskOK(disk, ids, {}) /\ ids \in Nat
  BY NothingPending
<1>4. \A x \in DOMAIN disk : FileOK(x, disk[x]) /\ x \in FileNames /\ disk[x].tail \in Nat
  BY <1>3, Numbers DEF DiskOK
<1>5. DOMAIN e = DOMAIN disk
  BY <1>2
<1>6. ASSUME NEW x \in DOMAIN e PROVE FileOK(x, e[x]) /\ Keeps(disk[x], e[x])
  <2>1. FileOK(x, disk[x]) /\ (e[x] = SetOffline(disk[x]) \/ e[x] = disk[x])
    BY <1>2, <1>4, <1>5
  <2>2. FileOK(x, SetOffline(disk[x])) /\ Keeps(disk[x], SetOffline(disk[x]))
    BY <2>1, SetOfflineKeeps
  <2>3. Keeps(disk[x], disk[x])
    BY DEF Keeps
  <2> QED
    BY <2>1, <2>2, <2>3
<1>7. PICK from : from = [y \in DOMAIN e |-> y]
  OBVIOUS
<1>8. from \in [DOMAIN e -> DOMAIN disk] /\ \A y \in DOMAIN e : from[y] = y
  BY <1>5, <1>7
<1>9. \A x \in DOMAIN e : Seqs(e[x]) = Seqs(disk[x]) /\ FileIds(e[x]) = FileIds(disk[x])
  BY <1>6 DEF Keeps, Seqs, FileIds
<1>10. Evolves(disk, {}, e, {}, from)
  BY <1>4, <1>5, <1>6, <1>8, <1>9 DEF Evolves, Keeps
<1>11. DiskOK(e, ids, {})
  BY <1>3, <1>10, Evolution
<1>12. DiskOK(disk', ids', {})
  BY <1>1, <1>2, <1>11 DEF Ended
<1>13. Kept(disk, e, GoneIds')
  BY <1>5, <1>9 DEF Kept
<1>14. Saved \subseteq Saved'
  BY <1>1, <1>2, <1>13, SavedKept
<1> QED
  BY <1>2, <1>12, <1>14, EndedKeeps

\* A loss of power cuts files off and forgets the runtime journal.
LEMMA PowerLossKeeps ==
    ASSUME ServerInv, PowerLoss, scope' = scope
    PROVE  ServerInv'
<1> DEFINE var == {x \in DOMAIN disk : InVar(x)}
<1>2. PICK e : e = disk'
  OBVIOUS
<1>3. PICK cut \in SUBSET var, state \in [var -> {"online", "offline", "archived"}] :
         /\ \A x \in var : state[x] \in disk[x].ondisk
         /\ e = [x \in var |->
              LET n == IF x \in cut THEN disk[x].synced ELSE Len(disk[x].entries)
              IN  [disk[x] EXCEPT !.entries = SubSeq(@, 1, n), !.synced = n,
                                  !.state = state[x], !.ondisk = {state[x]}]]
  BY <1>2 DEF PowerLoss
<1> HIDE DEF var
<1>4. /\ gone' = gone \cup [id : Ids(disk, DOMAIN disk) \ Ids(e, DOMAIN e), why : {"power"}]
      /\ Ended
  BY <1>2 DEF PowerLoss
<1>5. DiskOK(disk, ids, {}) /\ ids \in Nat
  BY NothingPending
<1>6. DOMAIN e = var /\ var \subseteq DOMAIN disk
  BY <1>3 DEF var
<1>7. \A x \in DOMAIN disk : FileOK(x, disk[x]) /\ x \in FileNames /\ disk[x].tail \in Nat
  BY <1>5, Numbers DEF DiskOK
<1>8. ASSUME NEW x \in DOMAIN e
      PROVE  /\ FileOK(x, e[x]) /\ e[x].seqid = disk[x].seqid /\ e[x].tail = disk[x].tail
             /\ Seqs(e[x]) \subseteq Seqs(disk[x])
  <2>1. PICK f : f = disk[x]
    OBVIOUS
  <2>2. PICK n : n = IF x \in cut THEN f.synced ELSE Len(f.entries)
    OBVIOUS
  <2>3. e[x] = [f EXCEPT !.entries = SubSeq(f.entries, 1, n), !.synced = n,
                         !.state = state[x], !.ondisk = {state[x]}]
    BY <1>3, <1>6, <2>1, <2>2
  <2>4. FileOK(x, f) /\ state[x] \in f.ondisk
    BY <1>3, <1>6, <1>7, <2>1
  <2>5. f.synced \in Nat /\ Len(f.entries) \in Nat /\ f.synced <= Len(f.entries)
    BY <2>4 DEF FileOK, File
  <2>6. n \in 0..Len(f.entries)
    BY <2>2, <2>5
  <2> QED
    <3>1. PICK st : st = state[x]
      OBVIOUS
    <3>2. PICK g : g = e[x]
      OBVIOUS
    <3>3. st \in f.ondisk /\ g = Cut(f, n, st)
      BY <2>3, <2>4, <3>1, <3>2 DEF Cut
    <3>4. /\ FileOK(x, g) /\ g.seqid = f.seqid /\ g.tail = f.tail
          /\ Seqs(g) \subseteq Seqs(f)
      BY <2>4, <2>6, <3>3, CutFile
    <3> QED
      BY <2>1, <3>2, <3>4
<1>9. PICK from : from = [y \in DOMAIN e |-> y]
  OBVIOUS
<1>10. from \in [DOMAIN e -> DOMAIN disk] /\ \A y \in DOMAIN e : from[y] = y
  BY <1>6, <1>9
<1>11. Evolves(disk, {}, e, {}, from)
  BY <1>6, <1>7, <1>8, <1>10 DEF Evolves
<1>12. DiskOK(disk', ids', {})
  BY <1>2, <1>4, <1>5, <1>11, Evolution DEF Ended
<1>13. Saved \subseteq Saved'
  <2>1. Saved' = Ids(e, DOMAIN e) \cup GoneIds'
    BY <1>2 DEF Saved, Ids
  <2>2. GoneIds \subseteq GoneIds'
    BY <1>4 DEF GoneIds
  <2>3. ASSUME NEW m \in Ids(disk, DOMAIN disk), m \notin Ids(e, DOMAIN e) PROVE m \in GoneIds'
    <3>1. PICK g : g = [id |-> m, why |-> "power"]
      OBVIOUS
    <3>2. g \in gone' /\ g.id = m
      BY <1>4, <2>3, <3>1
    <3> QED
      BY <3>2 DEF GoneIds
  <2> QED
    BY <2>1, <2>2, <2>3 DEF Saved
<1> QED
  BY <1>4, <1>12, <1>13, EndedKeeps

-----------------------------------------------------------------------------
(* Synchronisation                                                         *)

OpenShape ==
    /\ open \in [runtime : BOOLEAN, system : BOOLEAN, users : Seq(Users)]
    /\ IsInjective(open.users) /\ Len(open.users) <= USER_JOURNALS_MAX

OpenFound == \A loc \in Locs : IsOpen(loc) => Active(loc) \in DOMAIN disk

\* Outside a rotation every journal that is open is there.
LEMMA AllFound ==
    ASSUME ServerInv, ~First("create")
    PROVE  /\ DiskOK(disk, ids, {}) /\ ids \in Nat /\ OpenFound /\ OpenShape
           /\ Len(msgs) \in Nat /\ Pending = {}
BY MsgsCounted DEF ServerInv, Pending, OpenOK, OpenFound, OpenShape, BasicsOK

\* A file is replaced by what it has become.
LEMMA Replaced ==
    ASSUME NEW d, NEW n \in Nat, NEW m \in Nat, m >= n, DiskOK(d, n, {}), NEW x, NEW g,
           x \in DOMAIN d => /\ FileOK(x, g)
                             /\ Keeps(d[x], g) \/ (Continues(d[x], g) /\ x.kind = "active"),
           NEW e, e = [d EXCEPT ![x] = g]
    PROVE  DiskOK(e, m, {})
<1>1. \A y \in DOMAIN d : Grows(y, {}) => Grows(y, {})
  OBVIOUS
<1>2. DiskOK([d EXCEPT ![x] = g], m, {})
  BY <1>1, Replacing
<1> QED
  BY <1>2

\* Such a step keeps the messages and the open journals.
LEMMA ReplaceStep ==
    ASSUME ServerInv, ~First("create"), NEW x, NEW g,
           x \in DOMAIN disk => /\ FileOK(x, g)
                                /\ \/ Keeps(disk[x], g)
                                   \/ Continues(disk[x], g) /\ x.kind = "active",
           disk' = [disk EXCEPT ![x] = g], UNCHANGED <<open, ids, gone>>
    PROVE  /\ DiskOK(disk', ids', {}) /\ Kept(disk, disk', GoneIds') /\ Saved \subseteq Saved'
           /\ OpenFound' /\ OpenShape' /\ DOMAIN disk' = DOMAIN disk
           /\ \A y \in DOMAIN disk : disk'[y] = IF y = x THEN g ELSE disk[y]
<1>1. DiskOK(disk, ids, {}) /\ ids \in Nat /\ OpenFound /\ OpenShape
  BY AllFound
<1>2. PICK e : e = [disk EXCEPT ![x] = g]
  OBVIOUS
<1>3. DiskOK(e, ids, {})
  <2>1. PICK n \in Nat : n = ids /\ n >= n
    BY <1>1
  <2>2. DiskOK(disk, n, {})
    BY <1>1, <2>1
  <2>3. DiskOK(e, n, {})
    BY <1>2, <2>1, <2>2, Replaced
  <2> QED
    BY <2>1, <2>3
<1>4. x \in DOMAIN disk => FileIds(disk[x]) \subseteq FileIds(g)
  BY DEF Keeps, Continues, FileIds
<1>5. PICK G : G = GoneIds'
  OBVIOUS
<1>6. Kept(disk, e, G)
  BY <1>2, <1>4, KeptReplacing
<1>7. DOMAIN e = DOMAIN disk /\ \A y \in DOMAIN disk : e[y] = IF y = x THEN g ELSE disk[y]
  BY <1>2
<1>8. Kept(disk, disk', GoneIds') /\ gone \subseteq gone'
  BY <1>2, <1>5, <1>6
<1>9. Saved \subseteq Saved'
  BY <1>8, SavedKept
<1>10. OpenFound' /\ OpenShape'
  BY <1>1, <1>2, <1>7 DEF OpenFound, OpenShape, IsOpen
<1> QED
  BY <1>2, <1>3, <1>7, <1>8, <1>9, <1>10

\* The task put in front of ordinary ones.
LEMMA OneTask ==
    ASSUME ServerInv, up', todo # <<>>,
           Head(todo).do \notin {"rotate", "vacuum", "rename", "create"},
           NEW t \in Tasks, TaskOK(t)', todo' = <<t>> \o Rest, Saved \subseteq Saved', msgs' = msgs
    PROVE  /\ todo' # <<>> /\ Head(todo)' = t
           /\ \A i \in DOMAIN todo' : i # 1 => Ordinary(todo'[i])
           /\ FirstOK' => TodoOK'
<1>1. PICK q : q = todo'
  OBVIOUS
<1>2. PICK a : a = <<t>>
  OBVIOUS
<1>3. a \in Seq(Tasks) /\ Len(a) = 1 /\ DOMAIN a = {1} /\ a[1] = t
  BY <1>2
<1>4. todo \in Seq(Tasks) /\ q = a \o Tail(todo) /\ TodoOK /\ InOrder(todo)
  BY <1>1, <1>2 DEF ServerInv, TodoOK, Rest
<1>5. q \in Seq(Tasks) /\ \A k \in DOMAIN q : \/ k \in DOMAIN a /\ q[k] = a[k]
                                              \/ k > 1 /\ \E j \in DOMAIN todo : j # 1 /\ q[k] = todo[j]
  <2>1. PICK n : n = Len(a)
    OBVIOUS
  <2>2. q \in Seq(Tasks) /\ \A k \in DOMAIN q : \/ k \in DOMAIN a /\ q[k] = a[k]
                                  \/ /\ k > n /\ k - n + 1 \in DOMAIN todo
                                     /\ k - n + 1 # 1 /\ q[k] = todo[k - n + 1]
    <3>1. a \in Seq(Tasks)
      BY <1>3
    <3> QED
      BY <1>4, <2>1, <3>1, Pushed
  <2> QED
    BY <1>3, <2>1, <2>2
<1>6. \A k \in DOMAIN q : k # 1 => \E j \in DOMAIN todo : j # 1 /\ q[k] = todo[j]
  BY <1>3, <1>5
<1>7. \A k \in DOMAIN q : k = 1 => q[k] = t
  BY <1>3, <1>5
<1>8. \A j \in DOMAIN todo : j # 1 => Ordinary(todo[j])
  BY <1>4, RestOrdinary
<1>9. q # <<>> /\ Head(q) = t
  <2>1. Tail(todo) \in Seq(Tasks)
    BY <1>4
  <2>2. Len(q) # 0 /\ q[1] = t
    <3>1. PICK r \in Seq(Tasks) : r = Tail(todo)
      BY <2>1
    <3>2. q = a \o r
      BY <1>4, <3>1
    <3>3. PICK n \in Nat : n = Len(a)
      BY <1>3
    <3>4. a \in Seq(Tasks)
      BY <1>3
    <3>5. Len(q) = n + Len(r) /\ Len(r) \in Nat /\ \A i \in 1..n : q[i] = a[i]
      BY <3>1, <3>2, <3>3, <3>4
    <3>6. n = 1 /\ 1 \in 1..n
      BY <1>3, <3>3
    <3> QED
      BY <1>3, <3>5, <3>6
  <2> QED
    BY <1>5, <2>2
<1>10. \A i \in DOMAIN q : i # 1 => Ordinary(q[i])
  BY <1>6, <1>8
<1>11. ASSUME FirstOK' PROVE TodoOK'
  <2>1. InOrder(q)
    <3>1. InOrder(a)
      BY <1>3 DEF InOrder
    <3>2. \A i \in DOMAIN a, j \in DOMAIN todo : j # 1 => MayPrecede(a[i], todo[j])
      BY <1>8 DEF MayPrecede, Ordinary
    <3> QED
      BY <1>3, <1>4, <3>1, <3>2, PushedInOrder
  <2>2. ASSUME NEW j \in DOMAIN todo, j # 1, NEW s, s = todo[j] PROVE TaskOK(s)'
    <3>1. Ordinary(s) /\ TaskOK(s)
      BY <1>4, <1>8, <2>2 DEF TodoOK
    <3> QED
      BY <3>1 DEF Ordinary, TaskOK
  <2>3. \A k \in DOMAIN q : TaskOK(q[k])'
    BY <1>6, <1>7, <2>2
  <2>4. (\A k \in DOMAIN todo : TaskOK(todo[k]))' /\ InOrder(todo)'
    BY <1>1, <2>1, <2>3 DEF InOrder
  <2> QED
    BY <1>1, <1>5, <1>11, <2>4 DEF TodoOK
<1> QED
  BY <1>1, <1>9, <1>10, <1>11

\* The steps of journal_file_set_offline().
LEMMA SyncFileKeeps ==
    ASSUME ServerInv, SyncFile, scope' = scope
    PROVE  ServerInv'
<1>1. PICK loc : loc = Head(todo).loc
  OBVIOUS
<1>2. PICK x : x = Active(loc)
  OBVIOUS
<1>3. UNCHANGED <<up, open, flush, seqnum, clock, ids, msgs, acked, gone, scope>>
  BY DEF SyncFile
<1>4. todo # <<>> /\ up /\ Head(todo).do \in {"set_offline", "offline", "fsync"}
  BY DEF SyncFile, Doing
<1>5. ~First("create") /\ Head(todo).do \notin {"rotate", "vacuum", "rename", "create"}
  BY <1>4 DEF First
<1>6. DiskOK(disk, ids, {}) /\ ids \in Nat /\ Len(msgs) \in Nat
  BY <1>5, AllFound
<1>7. x \in DOMAIN disk => FileOK(x, disk[x])
  BY <1>6 DEF DiskOK
<1>8. loc \in Locs \cup {""}
  <2>1. Head(todo) \in Tasks
    BY <1>4 DEF ServerInv, TodoOK
  <2> QED
    BY <1>1, <2>1 DEF Tasks
<1>9. flush' \in Flushes /\ up' \in BOOLEAN /\ up' /\ BasicsOK'
  BY <1>3, <1>4 DEF ServerInv, FlushOK, BasicsOK
<1>10. CASE Head(todo).do = "set_offline" /\ disk[x].state # "online"
  <2>1. UNCHANGED disk /\ todo' = Rest
    BY <1>1, <1>2, <1>10 DEF SyncFile, Doing
  <2> QED
    BY <1>3, <1>4, <1>5, <2>1, QuietPop DEF quietVars
<1>11. CASE Head(todo).do = "set_offline" /\ disk[x].state = "online"
  <2>1. PICK g : g = Fsync(disk[x])
    OBVIOUS
  <2>2. PICK t : t = TaskOn("offline", loc)
    OBVIOUS
  <2>3. disk' = [disk EXCEPT ![x] = g] /\ todo' = <<t>> \o Rest
    BY <1>1, <1>2, <1>11, <2>1, <2>2 DEF SyncFile, Doing
  <2>4. x \in DOMAIN disk => FileOK(x, g) /\ Keeps(disk[x], g) /\ g.synced = Len(g.entries)
    BY <1>7, <2>1, FsyncKeeps
  <2>5. /\ DiskOK(disk', ids', {}) /\ Saved \subseteq Saved' /\ OpenFound' /\ OpenShape'
        /\ DOMAIN disk' = DOMAIN disk
        /\ \A y \in DOMAIN disk : disk'[y] = IF y = x THEN g ELSE disk[y]
    BY <1>3, <1>5, <2>3, <2>4, ReplaceStep
  <2>6. t \in Tasks /\ t.do = "offline" /\ t.loc = loc /\ t.id = 0
    <3>1. "offline" \in Jobs
      BY DEF Jobs
    <3> QED
      BY <1>8, <2>2, <3>1 DEF Task, TaskOn, Tasks
  <2>7. TaskOK(t)'
    BY <1>3, <1>6, <2>6 DEF TaskOK
  <2>8. /\ todo' # <<>> /\ Head(todo)' = t
        /\ \A i \in DOMAIN todo' : i # 1 => Ordinary(todo'[i])
        /\ FirstOK' => TodoOK'
    BY <1>3, <1>4, <1>5, <2>3, <2>5, <2>6, <2>7, OneTask
  <2>9. FirstOK'
    <3>1. x \in DOMAIN disk' => disk'[x].synced = Len(disk'[x].entries)
      BY <2>4, <2>5
    <3> QED
      BY <1>2, <2>6, <2>8, <3>1 DEF FirstOK, First
  <2>10. Pending' = {} /\ ~First("create")'
    BY <2>6, <2>8 DEF Pending, First
  <2>11. OpenOK'
    BY <2>5 DEF OpenOK, OpenFound, OpenShape
  <2>12. AckOK'
    BY <1>3, <2>5, AcksKept DEF ServerInv
  <2>13. FlushOK'
    <3>1. \A i \in DOMAIN todo' : todo'[i].do \notin {"copy", "recopy", "finish"}
      <4>1. todo'[1] = t
        BY <2>8, <2>9 DEF TodoOK
      <4>2. \A i \in DOMAIN todo' : i = 1 \/ Ordinary(todo'[i])
        BY <2>8
      <4> QED
        BY <2>6, <4>1, <4>2 DEF Ordinary
    <3> QED
      BY <1>9, <3>1 DEF FlushOK, Flushing
  <2> QED
    BY <1>9, <2>5, <2>8, <2>9, <2>10, <2>11, <2>12, <2>13 DEF ServerInv
<1>12. ASSUME NEW g, NEW a \in Seq(Plain), x \in DOMAIN disk => FileOK(x, g) /\ Keeps(disk[x], g),
              disk' = [disk EXCEPT ![x] = g], todo' = a \o Rest
       PROVE  ServerInv'
  <2>1. DiskOK(disk', ids', {}) /\ Saved \subseteq Saved' /\ OpenFound' /\ OpenShape'
    BY <1>3, <1>5, <1>12, ReplaceStep
  <2>2. todo' \in Seq(Tasks) /\ (\A i \in DOMAIN todo : Ordinary(todo[i]) /\ TaskOK(todo[i]))'
    BY <1>3, <1>4, <1>5, <1>12, <2>1, PlainPushed DEF ServerInv
  <2>3. AckOK'
    BY <1>3, <2>1, AcksKept DEF ServerInv
  <2> QED
    BY <1>9, <2>1, <2>2, <2>3, OrdinaryStep DEF OpenShape, OpenFound
<1>13. CASE Head(todo).do = "offline"
  <2>1. PICK g : g = SetState(disk[x], "offline")
    OBVIOUS
  <2>2. PICK a : a = <<TaskOn("fsync", loc)>>
    OBVIOUS
  <2>3. disk' = [disk EXCEPT ![x] = g] /\ todo' = a \o Rest
    BY <1>1, <1>2, <1>13, <2>1, <2>2 DEF SyncFile, Doing
  <2>4. x \in DOMAIN disk => disk[x].synced = Len(disk[x].entries)
    BY <1>1, <1>2, <1>4, <1>13 DEF ServerInv, TodoOK, FirstOK, First
  <2>5. x \in DOMAIN disk => FileOK(x, g) /\ Keeps(disk[x], g)
    BY <1>7, <2>1, <2>4, SetStateKeeps DEF States
  <2>6. a \in Seq(Plain)
    <3>1. TaskOn("fsync", loc) \in Plain
      BY <1>8, PlainTasks DEF Jobs
    <3> QED
      BY <2>2, <3>1
  <2> QED
    BY <1>12, <2>3, <2>5, <2>6
<1>14. CASE Head(todo).do = "fsync"
  <2>1. PICK g : g = Fsync(disk[x])
    OBVIOUS
  <2>2. disk' = [disk EXCEPT ![x] = g] /\ todo' = <<>> \o Rest
    BY <1>1, <1>2, <1>14, <2>1 DEF SyncFile, Doing
  <2>3. x \in DOMAIN disk => FileOK(x, g) /\ Keeps(disk[x], g)
    BY <1>7, <2>1, FsyncKeeps
  <2>4. <<>> \in Seq(Plain)
    OBVIOUS
  <2> QED
    BY <1>12, <2>2, <2>3, <2>4
<1> QED
  BY <1>4, <1>10, <1>11, <1>13, <1>14

-----------------------------------------------------------------------------
(* Rotation and vacuuming                                                  *)

\* A task is done and others take its place, while a flush may be waiting.
LEMMA PushTodo ==
    ASSUME ServerInv, up', todo # <<>>, NEW a \in Seq(Tasks), InOrder(a),
           \A i \in DOMAIN a : TaskOK(a[i])',
           \A i \in DOMAIN a, j \in DOMAIN todo : j # 1 => MayPrecede(a[i], todo[j]),
           todo' = a \o Rest, msgs' = msgs, Saved \subseteq Saved',
           \A j \in DOMAIN todo : j # 1 /\ todo[j].do \in {"rename", "create"} =>
             \A l \in Locs : l = todo[j].loc /\ IsOpen(l) => IsOpen(l)'
    PROVE  /\ FirstOK' => TodoOK'
           /\ \A i \in DOMAIN todo' : \/ i \in DOMAIN a /\ todo'[i] = a[i]
                                      \/ \E j \in DOMAIN todo : j # 1 /\ todo'[i] = todo[j]
           /\ a # <<>> => todo' # <<>> /\ Head(todo)' = a[1]
           /\ a = <<>> => FirstOK' /\ ~First("create")'
<1>1. PICK q : q = todo'
  OBVIOUS
<1>2. todo \in Seq(Tasks) /\ q = a \o Tail(todo) /\ TodoOK /\ InOrder(todo)
  BY <1>1 DEF ServerInv, TodoOK, Rest
<1>3. PICK n \in Nat : n = Len(a) /\ DOMAIN a = 1..n
  OBVIOUS
<1>4. q \in Seq(Tasks) /\ \A k \in DOMAIN q : \/ k \in DOMAIN a /\ q[k] = a[k]
                                              \/ \E j \in DOMAIN todo : j # 1 /\ q[k] = todo[j]
  <2>1. q \in Seq(Tasks) /\ \A k \in DOMAIN q : \/ k \in DOMAIN a /\ q[k] = a[k]
                                  \/ /\ k > n /\ k - n + 1 \in DOMAIN todo
                                     /\ k - n + 1 # 1 /\ q[k] = todo[k - n + 1]
    BY <1>2, <1>3, Pushed
  <2> QED
    BY <2>1
<1>5. InOrder(q)
  BY <1>2, PushedInOrder
<1>6. ASSUME NEW j \in DOMAIN todo, j # 1, NEW s, s = todo[j] PROVE TaskOK(s)'
  <2>1. TaskOK(s)
    BY <1>2, <1>6 DEF TodoOK
  <2> QED
    BY <1>6, <2>1 DEF TaskOK
<1>7. \A k \in DOMAIN q : TaskOK(q[k])'
  BY <1>4, <1>6
<1>8. ASSUME FirstOK' PROVE TodoOK'
  <2>1. (\A k \in DOMAIN todo : TaskOK(todo[k]))' /\ InOrder(todo)'
    BY <1>1, <1>5, <1>7 DEF InOrder
  <2> QED
    BY <1>1, <1>4, <1>8, <2>1 DEF TodoOK
<1>9. ASSUME a # <<>> PROVE q # <<>> /\ Head(q) = a[1]
  <2>1. PICK r \in Seq(Tasks) : r = Tail(todo)
    <3>1. todo \in Seq(Tasks)
      BY <1>2
    <3>2. Tail(todo) \in Seq(Tasks)
      BY <3>1
    <3> QED
      BY <3>2
  <2>2. q = a \o r
    BY <1>2, <2>1
  <2>3. Len(q) = n + Len(r) /\ Len(r) \in Nat /\ \A i \in 1..n : q[i] = a[i]
    BY <1>3, <2>1, <2>2
  <2>4. n # 0 /\ 1 \in 1..n
    BY <1>3, <1>9
  <2>5. Len(q) # 0 /\ q[1] = a[1]
    BY <1>3, <2>3, <2>4
  <2> QED
    BY <1>4, <2>5
<1>10. ASSUME a = <<>> PROVE FirstOK' /\ ~First("create")'
  <2>1. ASSUME q # <<>> PROVE Head(q).do \notin {"create", "copy", "offline", "finish"}
    <3>1. 1 \in DOMAIN q /\ Head(q) = q[1] /\ 1 \notin DOMAIN a
      BY <1>3, <1>4, <1>10, <2>1
    <3>2. PICK j \in DOMAIN todo : j # 1 /\ q[1] = todo[j]
      BY <1>4, <3>1
    <3>3. 1 \in DOMAIN todo /\ 1 < j
      BY <1>2, <3>2
    <3>4. MayPrecede(todo[1], todo[j])
      BY <1>2, <3>3 DEF InOrder
    <3> QED
      BY <3>1, <3>2, <3>4 DEF MayPrecede
  <2>2. ~First("create")' /\ ~First("offline")' /\ ~First("copy")' /\ ~First("finish")'
    BY <1>1, <2>1 DEF First
  <2> QED
    BY <2>2 DEF FirstOK
<1> QED
  BY <1>1, <1>4, <1>8, <1>9, <1>10

\* A flush that waits has its invariant kept by what leaves the messages in /run
\* where they are.
LEMMA FlushKept ==
    ASSUME ServerInv, flush' = flush, Kept(disk, disk', GoneIds'), NoneNew(disk, disk'),
           gone \subseteq gone',
           \A i \in DOMAIN todo' : \/ todo'[i].do \notin {"copy", "recopy", "finish"}
                                   \/ \E j \in DOMAIN todo : todo'[i] = todo[j]
    PROVE  FlushOK'
<1>1. PICK e : e = disk'
  OBVIOUS
<1>2. PICK G : G = GoneIds'
  OBVIOUS
<1>3. VarIds(disk) \subseteq VarIds(e) \cup G /\ RuntimeIds(e) \subseteq RuntimeIds(disk)
  BY <1>1, <1>2, KeptIds, NoneNewIds
<1>4. VarIds(disk)' = VarIds(e) /\ RuntimeIds(disk)' = RuntimeIds(e)
  BY <1>1
<1>5. GoneIds \subseteq G
  BY <1>2 DEF GoneIds
<1>6. Flushing' => Flushing
  BY DEF Flushing
<1>7. (\A i \in DOMAIN todo : todo[i].do = "recopy" => flush.left # {})'
  BY DEF ServerInv, FlushOK
<1>8. flush' \in Flushes
  BY DEF ServerInv, FlushOK
<1>9. PICK L : L = Accounted(flush)
  OBVIOUS
<1>10. Flushing /\ ~flush.err => RuntimeIds(disk) \subseteq L \cup VarIds(disk) \cup GoneIds
  BY <1>9 DEF ServerInv, FlushOK
<1>11. Flushing' /\ ~flush.err' => RuntimeIds(e) \subseteq L \cup VarIds(e) \cup G
  BY <1>3, <1>5, <1>6, <1>10
<1>12. (Flushing /\ ~flush.err =>
         RuntimeIds(disk) \subseteq Accounted(flush) \cup VarIds(disk) \cup GoneIds)'
  BY <1>1, <1>2, <1>9, <1>11
<1> QED
  BY <1>7, <1>8, <1>12 DEF FlushOK

\* Nothing happens to the files.
LEMMA DiskStays ==
    ASSUME UNCHANGED <<disk, gone>>
    PROVE  Kept(disk, disk', GoneIds') /\ NoneNew(disk, disk') /\ Saved \subseteq Saved'
BY DEF Kept, NoneNew, Saved, GoneIds

\* The journals that server_rotate() goes through are distinct, and open.
LEMMA OpenJournalsListed ==
    ASSUME OpenShape
    PROVE  /\ OpenJournals \in Seq(Locs) /\ IsInjective(OpenJournals)
           /\ \A i \in DOMAIN OpenJournals : IsOpen(OpenJournals[i])
<1>1. PICK u : u = open.users
  OBVIOUS
<1>2. PICK U : U = ToSet(u)
  OBVIOUS
<1>3. u \in Seq(Users) /\ IsInjective(u)
  BY <1>1 DEF OpenShape
<1>4. u \in Seq(Locs) /\ Lists(u, U)
  BY <1>2, <1>3 DEF Locs, Lists
<1>5. U \subseteq Users /\ System \notin U /\ Runtime \notin U /\ System # Runtime
      /\ System \in Locs /\ Runtime \in Locs
  BY <1>2, <1>3, JournaldAssumption DEF ToSet, System, Runtime, Locs
<1>6. \A l \in U : IsOpen(l)
  BY <1>1, <1>2 DEF ToSet, IsOpen
<1>7. PICK v : v = VarJournals
  OBVIOUS
<1>8. PICK V : V = IF open.system THEN U \cup {System} ELSE U
  OBVIOUS
<1>9. v \in Seq(Locs) /\ Lists(v, V)
  <2>1. CASE open.system
    <3>1. v = <<System>> \o u
      BY <1>1, <1>7, <2>1 DEF VarJournals
    <3> QED
      BY <1>4, <1>5, <1>8, <2>1, <3>1, LinkedLists
  <2>2. CASE ~open.system
    <3>1. v = u
      BY <1>1, <1>4, <1>7, <2>2 DEF VarJournals
    <3> QED
      BY <1>4, <1>8, <2>2, <3>1
  <2> QED
    BY <2>1, <2>2
<1>10. Runtime \notin V /\ \A l \in V : IsOpen(l)
  BY <1>5, <1>6, <1>8 DEF IsOpen
<1>11. PICK w : w = OpenJournals
  OBVIOUS
<1>12. PICK W : W = IF open.runtime THEN V \cup {Runtime} ELSE V
  OBVIOUS
<1>13. w \in Seq(Locs) /\ Lists(w, W)
  <2>1. CASE open.runtime
    <3>1. w = <<Runtime>> \o v
      BY <1>7, <1>11, <2>1 DEF OpenJournals
    <3> QED
      BY <1>5, <1>9, <1>10, <1>12, <2>1, <3>1, LinkedLists
  <2>2. CASE ~open.runtime
    <3>1. w = v
      BY <1>7, <1>9, <1>11, <2>2 DEF OpenJournals
    <3> QED
      BY <1>9, <1>12, <2>2, <3>1
  <2> QED
    BY <2>1, <2>2
<1>14. \A l \in W : IsOpen(l)
  BY <1>10, <1>12 DEF IsOpen
<1> QED
  BY <1>11, <1>13, <1>14 DEF Lists, ToSet

\* server_rotate(): one renaming for each journal that is open.
LEMMA RotateKeeps ==
    ASSUME ServerInv, Rotate, scope' = scope
    PROVE  ServerInv'
<1>1. UNCHANGED <<disk, up, open, flush, seqnum, clock, ids, msgs, acked, gone, scope>>
  BY DEF Rotate
<1>2. todo # <<>> /\ up /\ Head(todo).do = "rotate"
  BY DEF Rotate, Doing
<1>3. DiskOK(disk, ids, {}) /\ ids \in Nat /\ OpenFound /\ OpenShape /\ Len(msgs) \in Nat
  BY <1>2, AllFound DEF First
<1>4. PICK o : o = OpenJournals
  OBVIOUS
<1>5. o \in Seq(Locs) /\ IsInjective(o) /\ \A i \in DOMAIN o : IsOpen(o[i])
  BY <1>3, <1>4, OpenJournalsListed
<1>6. PICK a : a = OnEach("rename", o)
  OBVIOUS
<1>7. todo' = a \o Rest
  BY <1>4, <1>6 DEF Rotate
<1>8. PICK n \in Nat : n = Len(o) /\ DOMAIN o = 1..n
  BY <1>5
<1>9. DOMAIN a = 1..n /\ \A i \in 1..n : a[i] = TaskOn("rename", o[i]) /\ o[i] \in Locs
  BY <1>5, <1>6, <1>8 DEF OnEach
<1>10. ASSUME NEW i \in 1..n
       PROVE  a[i] \in Tasks /\ a[i].do = "rename" /\ a[i].loc = o[i] /\ a[i].id = 0
  <2>1. "rename" \in Jobs
    BY DEF Jobs
  <2>2. PICK l \in Locs : l = o[i]
    BY <1>9
  <2>3. a[i] = TaskOn("rename", l)
    BY <1>9, <2>2
  <2>4. PICK t : t = TaskOn("rename", l)
    OBVIOUS
  <2>5. t \in Tasks /\ t.do = "rename" /\ t.loc = l /\ t.id = 0
    BY <2>1, <2>2, <2>4 DEF Task, TaskOn, Tasks
  <2> QED
    BY <2>2, <2>3, <2>4, <2>5
<1>11. a \in Seq(Tasks)
  <2>1. a \in [1..n -> Tasks]
    BY <1>6, <1>8, <1>9, <1>10 DEF OnEach
  <2> QED
    BY <1>8, <2>1
<1>12. InOrder(a)
  <2> SUFFICES ASSUME NEW i \in 1..n, NEW j \in 1..n, i < j PROVE MayPrecede(a[i], a[j])
    BY <1>9 DEF InOrder
  <2>1. o[i] # o[j]
    BY <1>5, <1>8 DEF IsInjective
  <2> QED
    BY <1>10, <2>1 DEF MayPrecede
<1>13. \A j \in DOMAIN todo : j # 1 =>
         todo[j].do \notin {"create", "copy", "offline", "finish", "rename"}
  <2> SUFFICES ASSUME NEW j \in DOMAIN todo, j # 1
               PROVE  todo[j].do \notin {"create", "copy", "offline", "finish", "rename"}
    OBVIOUS
  <2>1. 1 \in DOMAIN todo /\ 1 < j /\ todo[1] = Head(todo)
    BY <1>2 DEF ServerInv, TodoOK
  <2>2. MayPrecede(todo[1], todo[j])
    BY <2>1 DEF ServerInv, TodoOK, InOrder
  <2> QED
    BY <1>2, <2>1, <2>2 DEF MayPrecede
<1>14. \A i \in DOMAIN a, j \in DOMAIN todo : j # 1 => MayPrecede(a[i], todo[j])
  BY <1>9, <1>10, <1>13 DEF MayPrecede
<1>15. \A i \in DOMAIN a : TaskOK(a[i])'
  <2> SUFFICES ASSUME NEW i \in 1..n PROVE TaskOK(a[i])'
    BY <1>9
  <2>1. o[i] \in Locs /\ IsOpen(o[i])
    BY <1>5, <1>8, <1>9
  <2>2. PICK t : t = a[i]
    OBVIOUS
  <2>3. t.do = "rename" /\ t.loc \in Locs /\ IsOpen(t.loc) /\ t.id = 0
    BY <1>10, <2>1, <2>2
  <2>4. TaskOK(t)'
    BY <1>1, <1>3, <2>3 DEF TaskOK, IsOpen
  <2> QED
    BY <2>2, <2>4
<1>16. Kept(disk, disk', GoneIds') /\ NoneNew(disk, disk') /\ Saved \subseteq Saved'
  BY <1>1, DiskStays
<1>17. \A l \in Locs : IsOpen(l)' = IsOpen(l)
  BY <1>1 DEF IsOpen
<1>18. /\ FirstOK' => TodoOK'
       /\ \A i \in DOMAIN todo' : \/ i \in DOMAIN a /\ todo'[i] = a[i]
                                  \/ \E j \in DOMAIN todo : j # 1 /\ todo'[i] = todo[j]
       /\ a # <<>> => todo' # <<>> /\ Head(todo)' = a[1]
       /\ a = <<>> => FirstOK' /\ ~First("create")'
  BY <1>1, <1>2, <1>7, <1>11, <1>12, <1>14, <1>15, <1>16, <1>17, PushTodo
<1>19. FirstOK' /\ ~First("create")'
  <2>1. CASE a = <<>>
    BY <1>18, <2>1
  <2>2. CASE a # <<>>
    <3>1. 1 \in 1..n
      BY <1>8, <1>9, <1>11, <2>2
    <3>2. Head(todo)'.do = "rename"
      BY <1>10, <1>18, <2>2, <3>1
    <3> QED
      BY <3>2 DEF FirstOK, First
  <2> QED
    BY <2>1, <2>2
<1>20. FlushOK'
  <2>1. \A i \in DOMAIN todo' : \/ todo'[i].do \notin {"copy", "recopy", "finish"}
                                \/ \E j \in DOMAIN todo : todo'[i] = todo[j]
    BY <1>9, <1>10, <1>18
  <2> QED
    BY <1>1, <1>16, <2>1, FlushKept
<1>21. Pending' = {}
  BY <1>19 DEF Pending
<1>22. OpenOK'
  BY <1>1, <1>3, <1>17 DEF OpenOK, OpenShape, OpenFound
<1>23. AckOK' /\ BasicsOK'
  BY <1>1, <1>16, AcksKept DEF ServerInv, BasicsOK
<1> QED
  BY <1>1, <1>3, <1>18, <1>19, <1>20, <1>21, <1>22, <1>23 DEF ServerInv

\* The first task is done, the others wait as they did.
LEMMA Popped ==
    ASSUME ServerInv, up', todo # <<>>, todo' = Rest, msgs' = msgs, Saved \subseteq Saved',
           \A j \in DOMAIN todo : j # 1 /\ todo[j].do \in {"rename", "create"} =>
             \A l \in Locs : l = todo[j].loc /\ IsOpen(l) => IsOpen(l)'
    PROVE  /\ TodoOK' /\ ~First("create")' /\ Pending' = {}
           /\ \A i \in DOMAIN todo' : \E j \in DOMAIN todo : j # 1 /\ todo'[i] = todo[j]
<1>1. PICK a : a = <<>>
  OBVIOUS
<1>2. a \in Seq(Tasks) /\ DOMAIN a = {}
  BY <1>1
<1>3. todo' = a \o Rest
  BY <1>1 DEF ServerInv, TodoOK, Rest
<1>4. InOrder(a)
  BY <1>2 DEF InOrder
<1>5. /\ FirstOK' => TodoOK'
      /\ \A i \in DOMAIN todo' : \/ i \in DOMAIN a /\ todo'[i] = a[i]
                                 \/ \E j \in DOMAIN todo : j # 1 /\ todo'[i] = todo[j]
      /\ a = <<>> => FirstOK' /\ ~First("create")'
  BY <1>2, <1>3, <1>4, PushTodo
<1> QED
  BY <1>1, <1>2, <1>5 DEF Pending

\* The head of the tasks is a task, and in order.
LEMMA HeadOK ==
    ASSUME ServerInv, todo # <<>>
    PROVE  Head(todo) \in Tasks /\ TaskOK(Head(todo)) /\ 1 \in DOMAIN todo /\ Head(todo) = todo[1]
<1>1. todo \in Seq(Tasks)
  BY DEF ServerInv, TodoOK
<1>2. 1 \in DOMAIN todo /\ Head(todo) = todo[1] /\ todo[1] \in Tasks
  BY <1>1
<1> QED
  BY <1>2 DEF ServerInv, TodoOK

\* server_vacuum() deletes files that are not in use.
LEMMA VacuumKeeps ==
    ASSUME ServerInv, Vacuum, scope' = scope
    PROVE  ServerInv'
<1>1. /\ UNCHANGED <<up, open, flush, seqnum, clock, ids, msgs, acked, scope>>
      /\ todo # <<>> /\ up /\ Head(todo).do = "vacuum" /\ todo' = Rest
      /\ gone' = gone \cup Deleted(disk')
  BY DEF Vacuum, Doing
<1>2. PICK names : disk' = Without(disk, names) /\ \A x \in names : x.kind = "corrupted"
  BY DEF Vacuum
<1>3. DiskOK(disk, ids, {}) /\ ids \in Nat /\ OpenFound /\ OpenShape
  BY <1>1, AllFound DEF First
<1>4. PICK e : e = Without(disk, names)
  OBVIOUS
<1>5. DOMAIN e = DOMAIN disk \ names /\ \A x \in DOMAIN e : e[x] = disk[x]
  BY <1>4 DEF Without
<1>6. DiskOK(e, ids, {})
  <2>1. PICK n \in Nat : n = ids /\ n >= n
    BY <1>3
  <2>2. DiskOK(disk, n, {}) /\ \A x \in DOMAIN disk : Grows(x, {}) => Grows(x, {})
    BY <1>3, <2>1
  <2>3. DiskOK(Without(disk, names), n, {})
    BY <2>1, <2>2, Removing
  <2> QED
    BY <1>4, <2>1, <2>3
<1>7. PICK G : G = GoneIds'
  OBVIOUS
<1>8. Kept(disk, e, G)
  <2>1. {g.id : g \in gone \cup Deleted(e)} \subseteq G
    BY <1>1, <1>2, <1>4, <1>7 DEF GoneIds
  <2>2. \A x \in DOMAIN disk : x.kind = "active" =>
          \E y \in DOMAIN e : y.loc = x.loc /\ FileIds(disk[x]) \subseteq FileIds(e[y])
    BY <1>2, <1>5
  <2> QED
    BY <2>1, <2>2, DeletedKept
<1>9. Kept(disk, disk', GoneIds') /\ gone \subseteq gone'
  BY <1>1, <1>2, <1>4, <1>7, <1>8
<1>10. NoneNew(disk, disk')
  BY <1>2, <1>4, <1>5 DEF NoneNew
<1>11. Saved \subseteq Saved'
  BY <1>9, SavedKept
<1>12. \A l \in Locs : IsOpen(l)' = IsOpen(l)
  BY <1>1 DEF IsOpen
<1>13. /\ TodoOK' /\ ~First("create")' /\ Pending' = {}
       /\ \A i \in DOMAIN todo' : \E j \in DOMAIN todo : j # 1 /\ todo'[i] = todo[j]
  BY <1>1, <1>11, <1>12, Popped
<1>14. FlushOK'
  BY <1>1, <1>9, <1>10, <1>13, FlushKept
<1>15. OpenOK'
  <2>1. ASSUME NEW l \in Locs, Active(l) \in DOMAIN disk PROVE Active(l) \in DOMAIN disk'
    <3>1. Active(l).kind = "active"
      BY DEF Active, Name
    <3> QED
      BY <1>2, <1>4, <1>5, <2>1, <3>1
  <2>2. OpenFound'
    BY <1>3, <1>12, <2>1 DEF OpenFound
  <2>3. OpenShape'
    BY <1>1, <1>3 DEF OpenShape
  <2> QED
    BY <2>2, <2>3 DEF OpenOK, OpenFound, OpenShape
<1>16. AckOK' /\ BasicsOK'
  BY <1>1, <1>11, AcksKept DEF ServerInv, BasicsOK
<1>17. DiskOK(disk', ids', {})
  BY <1>1, <1>2, <1>4, <1>6
<1> QED
  BY <1>13, <1>14, <1>15, <1>16, <1>17 DEF ServerInv

\* The renaming: the file that has the name is replaced, its messages are gone.
LEMMA RotateRenameKeeps ==
    ASSUME ServerInv, RotateRename, scope' = scope
    PROVE  ServerInv'
<1>1. /\ UNCHANGED <<up, open, flush, seqnum, clock, ids, msgs, acked, scope>>
      /\ todo # <<>> /\ up /\ Head(todo).do = "rename"
  BY DEF RotateRename, Doing
<1>2. DiskOK(disk, ids, {}) /\ ids \in Nat /\ OpenFound /\ OpenShape /\ Len(msgs) \in Nat
  BY <1>1, AllFound DEF First
<1>3. PICK loc : loc = Head(todo).loc
  OBVIOUS
<1>4. loc \in Locs /\ IsOpen(loc)
  BY <1>1, <1>3, HeadOK DEF TaskOK
<1>5. PICK x : x = Active(loc)
  OBVIOUS
<1>6. x \in DOMAIN disk /\ x.kind = "active" /\ x.loc = loc
  BY <1>2, <1>4, <1>5 DEF OpenFound, Active, Name
<1>7. PICK at : at = disk[x].head
  OBVIOUS
<1>8. FileOK(x, disk[x]) /\ at \in Nat
  BY <1>2, <1>6, <1>7 DEF DiskOK, FileOK, File
<1>9. PICK to : to = Name(loc, "archived", at)
  OBVIOUS
<1>10. to \in FileNames /\ to.kind = "archived" /\ to.loc = loc
  <2>1. to \in FileNames /\ to.kind # "active" /\ to.loc = loc
    BY <1>4, <1>8, <1>9, NamesOK
  <2>2. to.kind = "archived"
    BY <1>9 DEF Name
  <2> QED
    BY <2>1, <2>2
<1>11. \A l \in Locs : IsOpen(l)' = IsOpen(l)
  BY <1>1 DEF IsOpen
<1>12. OpenShape'
  BY <1>1, <1>2 DEF OpenShape
<1>13. CASE todo' = Rest /\ UNCHANGED <<disk, gone>>
  <2>1. Kept(disk, disk', GoneIds') /\ NoneNew(disk, disk') /\ Saved \subseteq Saved'
    BY <1>13, DiskStays
  <2>2. /\ TodoOK' /\ ~First("create")' /\ Pending' = {}
        /\ \A i \in DOMAIN todo' : \E j \in DOMAIN todo : j # 1 /\ todo'[i] = todo[j]
    BY <1>1, <1>11, <1>13, <2>1, Popped
  <2>3. FlushOK'
    BY <1>1, <1>13, <2>1, <2>2, FlushKept
  <2>4. OpenOK'
    BY <1>2, <1>11, <1>12, <1>13 DEF OpenOK, OpenShape, OpenFound
  <2>5. AckOK' /\ BasicsOK'
    BY <1>1, <2>1, AcksKept DEF ServerInv, BasicsOK
  <2> QED
    BY <1>1, <1>2, <1>13, <2>2, <2>3, <2>4, <2>5 DEF ServerInv
<1>14. PICK t : t = [TaskOn("create", loc) EXCEPT !.at = at]
  OBVIOUS
<1>15. t \in Tasks /\ t.do = "create" /\ t.loc = loc /\ t.id = 0 /\ t.at = at
  <2>1. "create" \in Jobs
    BY DEF Jobs
  <2> QED
    BY <1>4, <1>8, <1>14, <2>1 DEF TaskOn, Task, Tasks
<1>16. PICK e : e = Renamed(disk, x, to)
  OBVIOUS
<1>17. /\ DOMAIN e = (DOMAIN disk \ {x}) \cup {to} /\ e[to] = disk[x]
       /\ \A y \in DOMAIN e : y # to => y \in DOMAIN disk /\ y # x /\ e[y] = disk[y]
  BY <1>16 DEF Renamed, With, Without
<1>18. CASE disk' = e /\ gone' = gone \cup Deleted(e) /\ todo' = <<t>> \o Rest
  <2>1. DiskOK(e, ids, {to})
    <3>1. PICK n \in Nat : n = ids /\ n >= n
      BY <1>2
    <3>2. DiskOK(disk, n, {}) /\ {to} \subseteq {to} /\ to.kind # "active"
      BY <1>2, <1>10, <3>1
    <3>3. DiskOK(Renamed(disk, x, to), n, {to})
      BY <1>6, <1>10, <3>1, <3>2, Renaming
    <3> QED
      BY <1>16, <3>1, <3>3
  <2>2. PICK G : G = GoneIds'
    OBVIOUS
  <2>3. Kept(disk, e, G)
    <3>1. {g.id : g \in gone \cup Deleted(e)} \subseteq G
      BY <1>18, <2>2 DEF GoneIds
    <3>2. ASSUME NEW y \in DOMAIN disk, y.kind = "active"
          PROVE  \E z \in DOMAIN e : z.loc = y.loc /\ FileIds(disk[y]) \subseteq FileIds(e[z])
      <4>1. CASE y = x
        BY <1>6, <1>10, <1>17, <4>1
      <4>2. CASE y # x
        BY <1>10, <1>17, <3>2, <4>2
      <4> QED
        BY <4>1, <4>2
    <3> QED
      BY <3>1, <3>2, DeletedKept
  <2>4. Kept(disk, disk', GoneIds') /\ gone \subseteq gone'
    BY <1>18, <2>2, <2>3
  <2>5. NoneNew(disk, disk')
    BY <1>6, <1>10, <1>17, <1>18 DEF NoneNew
  <2>6. Saved \subseteq Saved'
    BY <2>4, SavedKept
  <2>7. PICK a : a = <<t>>
    OBVIOUS
  <2>8. a \in Seq(Tasks) /\ DOMAIN a = {1} /\ a[1] = t /\ a # <<>> /\ todo' = a \o Rest
    BY <1>15, <1>18, <2>7
  <2>9. InOrder(a)
    BY <2>8 DEF InOrder
  <2>10. TaskOK(t)'
    BY <1>1, <1>2, <1>4, <1>11, <1>15 DEF TaskOK
  <2>11. \A j \in DOMAIN todo : j # 1 => MayPrecede(t, todo[j])
    <3> SUFFICES ASSUME NEW j \in DOMAIN todo, j # 1 PROVE MayPrecede(t, todo[j])
      OBVIOUS
    <3>1. 1 \in DOMAIN todo /\ 1 < j /\ todo[1] = Head(todo)
      BY <1>1 DEF ServerInv, TodoOK
    <3>2. MayPrecede(todo[1], todo[j])
      BY <3>1 DEF ServerInv, TodoOK, InOrder
    <3> QED
      BY <1>1, <1>3, <1>15, <3>1, <3>2 DEF MayPrecede
  <2>12. /\ FirstOK' => TodoOK'
         /\ \A i \in DOMAIN todo' : \/ i \in DOMAIN a /\ todo'[i] = a[i]
                                    \/ \E j \in DOMAIN todo : j # 1 /\ todo'[i] = todo[j]
         /\ a # <<>> => todo' # <<>> /\ Head(todo)' = a[1]
    BY <1>1, <1>11, <2>6, <2>8, <2>9, <2>10, <2>11, PushTodo
  <2>13. todo' # <<>> /\ Head(todo)' = t
    BY <2>8, <2>12
  <2>14. FirstOK'
    <3>1. x \notin DOMAIN disk' /\ to \in DOMAIN disk'
      BY <1>6, <1>10, <1>17, <1>18
    <3> QED
      BY <1>5, <1>9, <1>15, <2>13, <3>1 DEF FirstOK, First
  <2>15. Pending' = {to} /\ First("create")'
    BY <1>9, <1>15, <2>13 DEF Pending, First
  <2>16. DiskOK(disk', ids', Pending')
    BY <1>1, <1>18, <2>1, <2>15
  <2>17. OpenOK'
    <3>1. ASSUME NEW l \in Locs, IsOpen(l)'
          PROVE  Active(l) \in DOMAIN disk' \/ (First("create")' /\ Head(todo)'.loc = l)
      <4>1. CASE l = loc
        BY <1>15, <2>13, <2>15, <4>1
      <4>2. CASE l # loc
        <5>1. Active(l) \in DOMAIN disk /\ Active(l) # x
          BY <1>2, <1>5, <1>11, <3>1, <4>2, ActiveInjective DEF OpenFound
        <5> QED
          BY <1>17, <1>18, <5>1
      <4> QED
        BY <4>1, <4>2
    <3> QED
      BY <1>12, <3>1 DEF OpenOK, OpenShape
  <2>18. FlushOK'
    <3>1. \A i \in DOMAIN todo' : \/ todo'[i].do \notin {"copy", "recopy", "finish"}
                                  \/ \E j \in DOMAIN todo : todo'[i] = todo[j]
      BY <1>15, <2>8, <2>12
    <3> QED
      BY <1>1, <2>4, <2>5, <3>1, FlushKept
  <2>19. AckOK' /\ BasicsOK'
    BY <1>1, <2>6, AcksKept DEF ServerInv, BasicsOK
  <2> QED
    BY <2>12, <2>14, <2>16, <2>17, <2>18, <2>19 DEF ServerInv
<1>19. \/ todo' = Rest /\ UNCHANGED <<disk, gone>>
       \/ disk' = e /\ gone' = gone \cup Deleted(e) /\ todo' = <<t>> \o Rest
  BY <1>3, <1>5, <1>7, <1>9, <1>14, <1>16 DEF RotateRename
<1> QED
  BY <1>13, <1>18, <1>19

\* What is open once the journal loc is closed.
LEMMA ShutOpen ==
    ASSUME OpenShape, NEW loc \in Locs, IsOpen(loc), open' = Shut(loc)
    PROVE  OpenShape' /\ \A l \in Locs : IsOpen(l)' <=> IsOpen(l) /\ l # loc
<1>1. PICK u : u = open.users
  OBVIOUS
<1>2. PICK o : o = open'
  OBVIOUS
<1>3. u \in Seq(Users) /\ IsInjective(u) /\ Len(u) \in Nat /\ Len(u) <= USER_JOURNALS_MAX
      /\ open \in [runtime : BOOLEAN, system : BOOLEAN, users : Seq(Users)]
  BY <1>1 DEF OpenShape
<1>4. "runtime" \notin Users /\ "system" \notin Users /\ USER_JOURNALS_MAX \in Nat
  BY JournaldAssumption
<1>5. \A i \in DOMAIN u : u[i] \in Users
  BY <1>3
<1>6. CASE loc = Runtime
  <2>1. o = [open EXCEPT !.runtime = FALSE]
    BY <1>2, <1>4, <1>6 DEF Shut, System, Runtime
  <2>2. /\ o \in [runtime : BOOLEAN, system : BOOLEAN, users : Seq(Users)]
        /\ o.runtime = FALSE /\ o.system = open.system /\ o.users = u
    BY <1>1, <1>3, <2>1
  <2>3. OpenShape'
    BY <1>2, <1>3, <2>2 DEF OpenShape
  <2>4. ASSUME NEW l \in Locs PROVE IsOpen(l)' <=> IsOpen(l) /\ l # loc
    BY <1>1, <1>2, <1>4, <1>5, <1>6, <2>2 DEF IsOpen, Runtime, System
  <2> QED
    BY <2>3, <2>4
<1>7. CASE loc = System
  <2>1. o = [open EXCEPT !.system = FALSE]
    BY <1>2, <1>4, <1>7 DEF Shut, System, Runtime
  <2>2. /\ o \in [runtime : BOOLEAN, system : BOOLEAN, users : Seq(Users)]
        /\ o.runtime = open.runtime /\ o.system = FALSE /\ o.users = u
    BY <1>1, <1>3, <2>1
  <2>3. OpenShape'
    BY <1>2, <1>3, <2>2 DEF OpenShape
  <2>4. ASSUME NEW l \in Locs PROVE IsOpen(l)' <=> IsOpen(l) /\ l # loc
    BY <1>1, <1>2, <1>4, <1>5, <1>7, <2>2 DEF IsOpen, Runtime, System
  <2> QED
    BY <2>3, <2>4
<1>8. CASE loc \in Users
  <2>1. o = [open EXCEPT !.users = Unlinked(u, loc)]
    BY <1>1, <1>2, <1>4, <1>8 DEF Shut, System, Runtime
  <2>2. PICK U : U = ToSet(u)
    OBVIOUS
  <2>3. Lists(u, U) /\ loc \in U
    <3>1. \E i \in DOMAIN u : u[i] = loc
      BY <1>1, <1>4, <1>8 DEF IsOpen, Runtime, System
    <3> QED
      BY <1>3, <2>2, <3>1 DEF Lists, ToSet
  <2>4. PICK v : v = Unlinked(u, loc)
    OBVIOUS
  <2>5. v \in Seq(Users) /\ Lists(v, U \ {loc}) /\ Len(v) = Len(u) - 1
    BY <1>3, <2>3, <2>4, UnlinkedLists
  <2>6. /\ o \in [runtime : BOOLEAN, system : BOOLEAN, users : Seq(Users)]
        /\ o.runtime = open.runtime /\ o.system = open.system /\ o.users = v
    BY <1>3, <2>1, <2>4, <2>5
  <2>7. IsInjective(v) /\ Len(v) <= USER_JOURNALS_MAX
    BY <1>3, <1>4, <2>5 DEF Lists
  <2>8. OpenShape'
    BY <1>2, <2>6, <2>7 DEF OpenShape
  <2>9. \A l : (\E i \in DOMAIN v : v[i] = l) <=> (\E i \in DOMAIN u : u[i] = l) /\ l # loc
    BY <2>2, <2>5 DEF Lists, ToSet
  <2>10. ASSUME NEW l \in Locs PROVE IsOpen(l)' <=> IsOpen(l) /\ l # loc
    <3>1. IsOpen(l) <=> \/ l = Runtime /\ open.runtime
                        \/ l = System /\ open.system
                        \/ \E i \in DOMAIN u : u[i] = l
      BY <1>1 DEF IsOpen
    <3>2. IsOpen(l)' <=> \/ l = Runtime /\ open.runtime
                         \/ l = System /\ open.system
                         \/ \E i \in DOMAIN v : v[i] = l
      BY <1>2, <2>6 DEF IsOpen
    <3>3. loc # Runtime /\ loc # System
      BY <1>4, <1>8 DEF Runtime, System
    <3> QED
      BY <2>9, <3>1, <3>2, <3>3
  <2> QED
    BY <2>8, <2>10
<1> QED
  BY <1>6, <1>7, <1>8 DEF Locs

\* A rotated journal that is not replaced is closed; other journals that wait to
\* be rotated stay open.
LEMMA RotateCreateKeeps ==
    ASSUME ServerInv, RotateCreate, scope' = scope
    PROVE  ServerInv'
<1>1. /\ UNCHANGED <<up, flush, seqnum, clock, ids, msgs, acked, gone, scope>>
      /\ todo # <<>> /\ up /\ Head(todo).do = "create" /\ todo' = Rest
  BY DEF RotateCreate, Doing
<1>2. PICK loc : loc = Head(todo).loc
  OBVIOUS
<1>3. PICK at : at = Head(todo).at
  OBVIOUS
<1>4. loc \in Locs /\ IsOpen(loc) /\ at \in Nat
  <2>1. Head(todo) \in Tasks /\ TaskOK(Head(todo))
    BY <1>1, HeadOK
  <2> QED
    BY <1>1, <1>2, <1>3, <2>1 DEF TaskOK, Tasks
<1>5. PICK x : x = Active(loc)
  OBVIOUS
<1>6. PICK old : old = Name(loc, "archived", at)
  OBVIOUS
<1>7. /\ x \in FileNames /\ x.kind = "active" /\ x.loc = loc
      /\ old \in FileNames /\ old.kind # "active" /\ old.loc = loc
  BY <1>4, <1>5, <1>6, NamesOK
<1>8. First("create")
  BY <1>1 DEF First
<1>9. x \notin DOMAIN disk /\ old \in DOMAIN disk
  BY <1>2, <1>3, <1>5, <1>6, <1>8 DEF ServerInv, TodoOK, FirstOK
<1>10. Pending = {old}
  BY <1>2, <1>3, <1>6, <1>8 DEF Pending
<1>11. PICK n \in Nat : n = ids /\ n >= n
  BY DEF ServerInv, BasicsOK
<1>12. DiskOK(disk, n, {old}) /\ FileOK(old, disk[old])
  BY <1>9, <1>10, <1>11 DEF ServerInv, DiskOK
<1>13. PICK g : g = SetOffline(SetState(disk[old], "archived"))
  OBVIOUS
<1>14. FileOK(old, g) /\ Keeps(disk[old], g)
  <2>1. PICK h : h = SetState(disk[old], "archived")
    OBVIOUS
  <2>2. FileOK(old, h) /\ Keeps(disk[old], h)
    BY <1>7, <1>12, <2>1, SetStateKeeps DEF States
  <2>3. FileOK(old, g) /\ Keeps(h, g)
    BY <1>13, <2>1, <2>2, SetOfflineKeeps
  <2> QED
    BY <2>2, <2>3 DEF Keeps
<1>15. PICK dir : dir = [disk EXCEPT ![old] = g]
  OBVIOUS
<1>16. DOMAIN dir = DOMAIN disk /\ \A y \in DOMAIN disk : dir[y] = IF y = old THEN g ELSE disk[y]
  BY <1>15
<1>17. DiskOK(dir, n, {old}) /\ DiskOK(dir, n, {})
  <2>1. /\ \A y \in DOMAIN disk : Grows(y, {old}) => Grows(y, {old})
        /\ \A y \in DOMAIN disk : Grows(y, {}) => Grows(y, {old})
    BY DEF Grows
  <2>2. DiskOK([disk EXCEPT ![old] = g], n, {old})
    BY <1>11, <1>12, <1>14, <2>1, Replacing
  <2>3. DiskOK([disk EXCEPT ![old] = g], n, {})
    BY <1>11, <1>12, <1>14, <2>1, Replacing
  <2> QED
    BY <1>15, <2>2, <2>3
<1>18. \A y \in DOMAIN disk : FileIds(dir[y]) = FileIds(disk[y])
  BY <1>14, <1>16 DEF Keeps, FileIds
<1>19. dir[old] = g /\ g.seqid \in Nat /\ g.tail \in Nat /\ g.seqid <= n
  BY <1>9, <1>14, <1>16, <1>17, Numbers DEF DiskOK
<1>20. ASSUME NEW f, FileOK(x, f), f.entries = <<>>, f.seqid = g.seqid, f.tail = g.tail,
              NEW e, e = With(dir, x, f)
       PROVE  /\ DiskOK(e, n, {}) /\ DOMAIN e = DOMAIN disk \cup {x}
              /\ \A y \in DOMAIN disk : e[y] = dir[y]
              /\ FileIds(e[x]) = {}
  <2>1. DOMAIN e = DOMAIN disk \cup {x} /\ e[x] = f /\ \A y \in DOMAIN disk : e[y] = dir[y]
    BY <1>9, <1>16, <1>20 DEF With
  <2>2. x \notin DOMAIN dir /\ old \in {old} \cap DOMAIN dir /\ f.seqid = dir[old].seqid
        /\ f.tail >= dir[old].tail /\ f.seqid <= n
    BY <1>9, <1>16, <1>19, <1>20
  <2>3. \A p \in {old} : p.kind # "active"
    BY <1>7
  <2>4. DiskOK(With(dir, x, f), n, {})
    BY <1>7, <1>11, <1>17, <1>20, <2>2, <2>3, Creating
  <2>5. DOMAIN f.entries = {}
    BY <1>20
  <2> QED
    BY <1>20, <2>1, <2>4, <2>5 DEF FileIds
<1>21. ASSUME NEW e, disk' = e, DiskOK(e, n, {}), DOMAIN e \subseteq DOMAIN disk \cup {x},
              DOMAIN disk \subseteq DOMAIN e, \A y \in DOMAIN disk : e[y] = dir[y],
              x \in DOMAIN e => FileIds(e[x]) = {},
              \/ open' = open /\ x \in DOMAIN e
              \/ open' = Shut(loc)
       PROVE  ServerInv'
  <2>1. Kept(disk, disk', GoneIds')
    BY <1>18, <1>21 DEF Kept
  <2>2. NoneNew(disk, disk')
    <3> SUFFICES ASSUME NEW y \in DOMAIN e, y.loc = Runtime, NEW m \in FileIds(e[y])
                 PROVE  \E z \in DOMAIN disk : z.loc = Runtime /\ m \in FileIds(disk[z])
      BY <1>21 DEF NoneNew
    <3>1. y \in DOMAIN disk /\ m \in FileIds(disk[y])
      BY <1>18, <1>21
    <3> QED
      BY <3>1
  <2>3. Saved \subseteq Saved' /\ gone \subseteq gone'
    BY <1>1, <2>1, SavedKept
  <2>4. OpenShape /\ \A l \in Locs : IsOpen(l) /\ l # loc => Active(l) \in DOMAIN disk
    BY <1>2, <1>8 DEF ServerInv, OpenOK, OpenShape
  <2>5. OpenShape' /\ \A l \in Locs : /\ IsOpen(l) /\ l # loc => IsOpen(l)'
                                      /\ IsOpen(l)' => IsOpen(l) /\ (l # loc \/ x \in DOMAIN e)
    <3>1. CASE open' = open /\ x \in DOMAIN e
      BY <2>4, <3>1 DEF OpenShape, IsOpen
    <3>2. CASE open' = Shut(loc)
      BY <1>4, <2>4, <3>2, ShutOpen
    <3> QED
      BY <1>21, <3>1, <3>2
  <2>6. \A j \in DOMAIN todo : j # 1 /\ todo[j].do \in {"rename", "create"} =>
          \A l \in Locs : l = todo[j].loc /\ IsOpen(l) => IsOpen(l)'
    <3> SUFFICES ASSUME NEW j \in DOMAIN todo, j # 1, todo[j].do \in {"rename", "create"},
                        NEW l \in Locs, l = todo[j].loc, IsOpen(l)
                 PROVE  IsOpen(l)'
      OBVIOUS
    <3>1. 1 \in DOMAIN todo /\ 1 < j /\ todo[1] = Head(todo)
      BY <1>1 DEF ServerInv, TodoOK
    <3>2. MayPrecede(todo[1], todo[j])
      BY <3>1 DEF ServerInv, TodoOK, InOrder
    <3>3. l # loc
      BY <1>2, <3>1, <3>2 DEF MayPrecede
    <3> QED
      BY <2>5, <3>3
  <2>7. /\ TodoOK' /\ ~First("create")' /\ Pending' = {}
        /\ \A i \in DOMAIN todo' : \E j \in DOMAIN todo : j # 1 /\ todo'[i] = todo[j]
    BY <1>1, <2>3, <2>6, Popped
  <2>8. FlushOK'
    BY <1>1, <2>1, <2>2, <2>3, <2>7, FlushKept
  <2>9. OpenOK'
    <3>1. \A l \in Locs : IsOpen(l)' => Active(l) \in DOMAIN disk'
      BY <1>5, <1>21, <2>4, <2>5
    <3> QED
      BY <2>5, <3>1 DEF OpenOK, OpenShape
  <2>10. AckOK' /\ BasicsOK'
    BY <1>1, <2>3, AcksKept DEF ServerInv, BasicsOK
  <2>11. DiskOK(disk', ids', Pending')
    BY <1>1, <1>11, <1>21, <2>7
  <2> QED
    BY <2>7, <2>8, <2>9, <2>10, <2>11 DEF ServerInv
<1>22. PICK f : f = NewFile(g.seqid, g.tail)
  OBVIOUS
<1>23. PICK h : h = SetOffline([NewFile(g.seqid, g.tail) EXCEPT !.tables = FALSE])
  OBVIOUS
<1>24. /\ FileOK(x, f) /\ f.entries = <<>> /\ f.seqid = g.seqid /\ f.tail = g.tail
       /\ FileOK(x, h) /\ h.entries = <<>> /\ h.seqid = g.seqid /\ h.tail = g.tail
  BY <1>7, <1>19, <1>22, <1>23, NewFileOK, StubOK
<1>25. \/ disk' = With(dir, x, f) /\ open' = open
       \/ disk' \in {dir, With(dir, x, h)} /\ open' = Shut(loc)
  <2>1. dir = [disk EXCEPT ![old] = SetOffline(SetState(@, "archived"))]
    BY <1>13, <1>15
  <2>2. f = NewFile(dir[old].seqid, dir[old].tail)
        /\ h = SetOffline([NewFile(dir[old].seqid, dir[old].tail) EXCEPT !.tables = FALSE])
    BY <1>19, <1>22, <1>23
  <2> QED
    BY <1>2, <1>3, <1>5, <1>6, <2>1, <2>2 DEF RotateCreate
<1>26. CASE disk' = With(dir, x, f) /\ open' = open
  <2>1. PICK e : e = With(dir, x, f)
    OBVIOUS
  <2>2. /\ DiskOK(e, n, {}) /\ DOMAIN e = DOMAIN disk \cup {x}
        /\ \A y \in DOMAIN disk : e[y] = dir[y]
        /\ FileIds(e[x]) = {}
    BY <1>20, <1>24, <2>1
  <2> QED
    BY <1>21, <1>26, <2>1, <2>2
<1>27. CASE disk' = With(dir, x, h) /\ open' = Shut(loc)
  <2>1. PICK e : e = With(dir, x, h)
    OBVIOUS
  <2>2. /\ DiskOK(e, n, {}) /\ DOMAIN e = DOMAIN disk \cup {x}
        /\ \A y \in DOMAIN disk : e[y] = dir[y]
        /\ FileIds(e[x]) = {}
    BY <1>20, <1>24, <2>1
  <2> QED
    BY <1>21, <1>27, <2>1, <2>2
<1>28. CASE disk' = dir /\ open' = Shut(loc)
  BY <1>9, <1>16, <1>17, <1>21, <1>28
<1> QED
  BY <1>25, <1>26, <1>27, <1>28

\* A step of a handler that is not rotating, to tasks that are ordinary.
LEMMA OrdinaryPush ==
    ASSUME ServerInv, todo # <<>>,
           Head(todo).do \notin {"rotate", "vacuum", "rename", "create"},
           NEW a \in Seq(Tasks), \A i \in DOMAIN a : Ordinary(a[i]) /\ TaskOK(a[i])',
           todo' = a \o Rest, Saved \subseteq Saved',
           UNCHANGED <<up, clock, msgs, acked, scope>>, up,
           DiskOK(disk', ids', {}), OpenShape', OpenFound',
           flush' \in Flushes, seqnum' \in Nat, ids' \in Nat
    PROVE  ServerInv'
<1>1. TodoOK /\ AckOK /\ BasicsOK
  BY DEF ServerInv
<1>2. todo' \in Seq(Tasks) /\ (\A i \in DOMAIN todo : Ordinary(todo[i]) /\ TaskOK(todo[i]))'
  BY <1>1, PushOrdinary
<1>3. AckOK'
  BY <1>1, AcksKept
<1>4. BasicsOK' /\ up' \in BOOLEAN /\ (up \/ todo = <<>>)'
  BY <1>1 DEF BasicsOK
<1>5. /\ (open \in [runtime : BOOLEAN, system : BOOLEAN, users : Seq(Users)])'
      /\ (IsInjective(open.users) /\ Len(open.users) <= USER_JOURNALS_MAX)'
  BY DEF OpenShape
<1>6. (\A loc \in Locs : IsOpen(loc) => Active(loc) \in DOMAIN disk)'
  BY DEF OpenFound
<1> QED
  BY <1>2, <1>3, <1>4, <1>5, <1>6, OrdinaryStep

\* The same, to the tasks that were waiting.
LEMMA OrdinaryPop ==
    ASSUME ServerInv, todo # <<>>,
           Head(todo).do \notin {"rotate", "vacuum", "rename", "create"},
           todo' = Rest, Saved \subseteq Saved',
           UNCHANGED <<up, clock, msgs, acked, scope>>, up,
           DiskOK(disk', ids', {}), OpenShape', OpenFound',
           flush' \in Flushes, seqnum' \in Nat, ids' \in Nat
    PROVE  ServerInv'
<1>1. PICK a : a = <<>>
  OBVIOUS
<1>2. a \in Seq(Tasks) /\ DOMAIN a = {}
  BY <1>1
<1>3. todo \in Seq(Tasks)
  BY DEF ServerInv, TodoOK
<1>4. todo' = a \o Rest
  BY <1>1, <1>3 DEF Rest
<1>5. \A i \in DOMAIN a : Ordinary(a[i]) /\ TaskOK(a[i])'
  BY <1>2
<1> QED
  BY <1>2, <1>4, <1>5, OrdinaryPush

\* What journal_file_open_reliably() leaves has all messages and the journals that
\* are open.
LEMMA OpenedStep ==
    ASSUME ServerInv, ~First("create"), NEW loc \in Locs, Opened(disk, loc, disk'),
           gone' = gone \cup Deleted(disk'), ids' = ids + 1,
           \A l \in Locs : IsOpen(l)' =>
             \/ l # loc /\ IsOpen(l)
             \/ Active(l) \in DOMAIN disk'
    PROVE  DiskOK(disk', ids', {}) /\ ids' \in Nat /\ OpenFound' /\ Saved \subseteq Saved'
<1>1. PICK e : e = disk'
  OBVIOUS
<1>2. /\ DiskOK(e, ids + 1, {})
      /\ \A l \in Locs : l # loc /\ Active(l) \in DOMAIN disk => Active(l) \in DOMAIN e
      /\ \A x \in DOMAIN disk : x.kind = "active" =>
           \E y \in DOMAIN e : y.loc = x.loc /\ FileIds(disk[x]) \subseteq FileIds(e[y])
  BY <1>1 DEF Opened
<1>3. ids \in Nat /\ OpenFound
  BY AllFound
<1>4. OpenFound'
  BY <1>1, <1>2, <1>3 DEF OpenFound
<1>5. PICK G : G = GoneIds'
  OBVIOUS
<1>6. {g.id : g \in gone \cup Deleted(e)} \subseteq G
  BY <1>1, <1>5 DEF GoneIds
<1>7. Kept(disk, e, G)
  BY <1>2, <1>6, DeletedKept
<1>8. Saved \subseteq Saved'
  BY <1>1, <1>5, <1>7, SavedKept
<1> QED
  BY <1>1, <1>2, <1>3, <1>4, <1>8

\* system_journal_open(), the system journal.
LEMMA OpenSystemKeeps ==
    ASSUME ServerInv, OpenSystem, scope' = scope
    PROVE  ServerInv'
<1>1. /\ UNCHANGED <<up, flush, seqnum, clock, msgs, acked, scope>>
      /\ todo # <<>> /\ up /\ Head(todo).do = "open_system" /\ todo' = Rest
  BY DEF OpenSystem, Doing
<1>2. ~First("create") /\ Head(todo).do \notin {"rotate", "vacuum", "rename", "create"}
  BY <1>1 DEF First
<1>3. DiskOK(disk, ids, {}) /\ ids \in Nat /\ OpenFound /\ OpenShape
  BY <1>2, AllFound
<1>4. CASE UNCHANGED <<disk, open, gone, ids>>
  <2>1. UNCHANGED quietVars
    BY <1>1, <1>4 DEF quietVars
  <2> QED
    BY <1>1, <1>2, <2>1, QuietPop
<1>5. CASE ids' = ids + 1 /\ gone' = gone \cup Deleted(disk') /\ ~IsOpen(System)
           /\ \/ disk' = OpenReliably(disk, System) /\ open' = [open EXCEPT !.system = TRUE]
              \/ disk' \in OpenFailures(disk, System) /\ open' = open
  <2>1. System \in Locs /\ clock \in Nat /\ seqnum' \in Nat
        /\ flush' \in Flushes
    BY <1>1 DEF Locs, ServerInv, BasicsOK, FlushOK
  <2>2. /\ Opened(disk, System, disk')
        /\ disk' = OpenReliably(disk, System) => Active(System) \in DOMAIN disk'
    BY <1>3, <1>5, <2>1, Opening
  <2>3. CASE disk' = OpenReliably(disk, System) /\ open' = [open EXCEPT !.system = TRUE]
    <3>1. OpenShape'
      BY <1>3, <2>3 DEF OpenShape
    <3>2. \A l \in Locs : IsOpen(l)' => (l # System /\ IsOpen(l)) \/ Active(l) \in DOMAIN disk'
      BY <1>3, <2>2, <2>3 DEF IsOpen, OpenShape
    <3> QED
      BY <1>1, <1>2, <1>5, <2>1, <2>2, <3>1, <3>2, OpenedStep, OrdinaryPop
  <2>4. CASE disk' \in OpenFailures(disk, System) /\ open' = open /\ ~IsOpen(System)
    <3>1. OpenShape'
      BY <1>3, <2>4 DEF OpenShape
    <3>2. \A l \in Locs : IsOpen(l)' => l # System /\ IsOpen(l)
      BY <2>4 DEF IsOpen
    <3> QED
      BY <1>1, <1>2, <1>5, <2>1, <2>2, <3>1, <3>2, OpenedStep, OrdinaryPop
  <2> QED
    BY <1>5, <2>3, <2>4
<1> QED
  BY <1>4, <1>5 DEF OpenSystem

\* system_journal_open(), the runtime journal.
LEMMA OpenRuntimeKeeps ==
    ASSUME ServerInv, OpenRuntime, scope' = scope
    PROVE  ServerInv'
<1>1. /\ UNCHANGED <<up, flush, seqnum, clock, msgs, acked, scope>>
      /\ todo # <<>> /\ up /\ Head(todo).do = "open_runtime"
      /\ gone' = gone \cup Deleted(disk')
  BY DEF OpenRuntime, Doing
<1>2. ~First("create") /\ Head(todo).do \notin {"rotate", "vacuum", "rename", "create"}
  BY <1>1 DEF First
<1>3. DiskOK(disk, ids, {}) /\ ids \in Nat /\ OpenFound /\ OpenShape
  BY <1>2, AllFound
<1>4. Runtime \in Locs /\ clock \in Nat /\ seqnum' \in Nat
      /\ flush' \in Flushes
  BY <1>1 DEF Locs, ServerInv, BasicsOK, FlushOK
<1>5. CASE disk' = OpenReliably(disk, Runtime) /\ open' = [open EXCEPT !.runtime = TRUE]
           /\ todo' = Rest /\ ids' = ids + 1
  <2>1. Opened(disk, Runtime, disk') /\ Active(Runtime) \in DOMAIN disk'
    BY <1>3, <1>4, <1>5, Opening
  <2>2. OpenShape'
    BY <1>3, <1>5 DEF OpenShape
  <2>3. \A l \in Locs : IsOpen(l)' => (l # Runtime /\ IsOpen(l)) \/ Active(l) \in DOMAIN disk'
    BY <1>3, <1>5, <2>1 DEF IsOpen, OpenShape
  <2> QED
    BY <1>1, <1>2, <1>4, <1>5, <2>1, <2>2, <2>3, OpenedStep, OrdinaryPop
<1>6. CASE disk' \in OpenFailures(disk, Runtime) /\ open' = open /\ todo' = <<Task("done")>>
           /\ ids' = ids + 1 /\ ~IsOpen(Runtime)
  <2>1. Opened(disk, Runtime, disk')
    BY <1>3, <1>4, <1>6, Opening
  <2>2. OpenShape'
    BY <1>3, <1>6 DEF OpenShape
  <2>3. \A l \in Locs : IsOpen(l)' => l # Runtime /\ IsOpen(l)
    BY <1>6 DEF IsOpen
  <2>4. DiskOK(disk', ids', {}) /\ ids' \in Nat /\ OpenFound' /\ Saved \subseteq Saved'
    BY <1>1, <1>2, <1>4, <1>6, <2>1, <2>3, OpenedStep
  <2>5. "done" \in Jobs \ {"create", "copy", "offline", "finish", "recopy", "rename"}
    BY DEF Jobs
  <2>6. Task("done") \in Plain
    BY <2>5, PlainTasks
  <2>7. PICK a : a = <<Task("done")>>
    OBVIOUS
  <2>8. a \in Seq(Plain)
    BY <2>6, <2>7
  <2>9. AckOK /\ BasicsOK
    BY DEF ServerInv
  <2>10. Len(msgs)' \in Nat
    BY <1>1, <2>9, MsgsCounted
  <2>11. todo' \in Seq(Tasks) /\ (\A i \in DOMAIN todo : Ordinary(todo[i]) /\ TaskOK(todo[i]))'
    BY <1>6, <2>7, <2>8, <2>10, PlainHandler
  <2>12. AckOK'
    BY <1>1, <2>4, <2>9, AcksKept
  <2>13. BasicsOK' /\ up' \in BOOLEAN /\ (up \/ todo = <<>>)'
    BY <1>1, <2>4, <2>9 DEF BasicsOK
  <2>14. /\ (open \in [runtime : BOOLEAN, system : BOOLEAN, users : Seq(Users)])'
         /\ (IsInjective(open.users) /\ Len(open.users) <= USER_JOURNALS_MAX)'
    BY <2>2 DEF OpenShape
  <2>15. (\A loc \in Locs : IsOpen(loc) => Active(loc) \in DOMAIN disk)'
    BY <2>4 DEF OpenFound
  <2> QED
    BY <1>4, <2>4, <2>11, <2>12, <2>13, <2>14, <2>15, OrdinaryStep
<1>7. CASE Active(Runtime) \in DOMAIN disk /\ todo' = Rest /\ ids' = ids
           /\ disk' = [disk EXCEPT ![Active(Runtime)] = Fsync(SetOnline(@))]
           /\ open' = [open EXCEPT !.runtime = TRUE]
  <2>1. PICK x : x = Active(Runtime)
    OBVIOUS
  <2>2. PICK g : g = Fsync(SetOnline(disk[x]))
    OBVIOUS
  <2>3. FileOK(x, g) /\ Keeps(disk[x], g)
    <3>1. FileOK(x, disk[x])
      BY <1>3, <1>7, <2>1 DEF DiskOK
    <3>2. PICK h : h = SetOnline(disk[x])
      OBVIOUS
    <3>3. FileOK(x, h) /\ Keeps(disk[x], h)
      BY <3>1, <3>2, SetOnlineKeeps
    <3>4. FileOK(x, g) /\ Keeps(h, g)
      BY <2>2, <3>2, <3>3, FsyncKeeps
    <3> QED
      BY <3>3, <3>4 DEF Keeps
  <2>4. PICK e : e = [disk EXCEPT ![x] = g]
    OBVIOUS
  <2>5. disk' = e /\ DOMAIN e = DOMAIN disk
    BY <1>7, <2>1, <2>2, <2>4
  <2>6. PICK n \in Nat : n = ids /\ n >= n
    BY <1>3
  <2>7. DiskOK(disk, n, {})
    BY <1>3, <2>6
  <2>8. DiskOK(e, n, {})
    BY <2>3, <2>4, <2>6, <2>7, Replaced
  <2>9. PICK G : G = GoneIds'
    OBVIOUS
  <2>10. FileIds(disk[x]) \subseteq FileIds(g)
    BY <2>3 DEF Keeps, FileIds
  <2>11. Kept(disk, e, G)
    BY <2>4, <2>10, KeptReplacing
  <2>12. Saved \subseteq Saved'
    BY <1>1, <2>5, <2>9, <2>11, SavedKept
  <2>13. DiskOK(disk', ids', {}) /\ ids' \in Nat
    BY <1>7, <2>5, <2>6, <2>8
  <2>14. OpenShape'
    BY <1>3, <1>7 DEF OpenShape
  <2>15. OpenFound'
    BY <1>3, <1>7, <2>5 DEF IsOpen, OpenShape, OpenFound
  <2> QED
    BY <1>1, <1>2, <1>4, <1>7, <2>12, <2>13, <2>14, <2>15, OrdinaryPop
<1>8. CASE todo' = Rest /\ UNCHANGED <<disk, open, ids>>
  <2>1. Kept(disk, disk', GoneIds')
    BY <1>8 DEF Kept
  <2>2. Saved \subseteq Saved'
    BY <1>1, <2>1, SavedKept
  <2>3. DiskOK(disk', ids', {}) /\ ids' \in Nat /\ OpenShape' /\ OpenFound'
    BY <1>3, <1>8 DEF OpenShape, OpenFound, IsOpen
  <2> QED
    BY <1>1, <1>2, <1>4, <1>8, <2>2, <2>3, OrdinaryPop
<1> QED
  BY <1>5, <1>6, <1>7, <1>8 DEF OpenRuntime

-----------------------------------------------------------------------------
(* write_to_journal()                                                      *)

Fit == {t \in Tasks : Ordinary(t) /\ TaskOK(t)}

\* Tasks that are fit to be pushed, whatever the step does to the files.
LEMMA FitPush ==
    ASSUME ServerInv, todo # <<>>,
           Head(todo).do \notin {"rotate", "vacuum", "rename", "create"},
           NEW a \in Seq(Fit'), todo' = a \o Rest, Saved \subseteq Saved',
           UNCHANGED <<up, clock, msgs, acked, scope>>, up,
           DiskOK(disk', ids', {}), OpenShape', OpenFound',
           flush' \in Flushes, seqnum' \in Nat, ids' \in Nat
    PROVE  ServerInv'
<1>1. a \in Seq(Tasks) /\ \A i \in DOMAIN a : a[i] \in Fit'
  BY DEF Fit
<1>2. \A i \in DOMAIN a : Ordinary(a[i]) /\ TaskOK(a[i])'
  BY <1>1 DEF Fit
<1> QED
  BY <1>1, <1>2, OrdinaryPush

\* The first user journal is closed to make room.
RoomDisk == IF Full THEN [disk EXCEPT ![Active(Head(open.users))] = SetOffline(@)] ELSE disk

RoomOpen == IF Full THEN [open EXCEPT !.users = Tail(@)] ELSE open

\* Then there is room for one more, and the file that was closed keeps its messages.
LEMMA MakeRoom ==
    ASSUME ServerInv, ~First("create"), NEW d, NEW o, d = RoomDisk, o = RoomOpen
    PROVE  /\ DiskOK(d, ids, {}) /\ DOMAIN d = DOMAIN disk
           /\ \A x \in DOMAIN disk : FileIds(d[x]) = FileIds(disk[x])
           /\ o \in [runtime : BOOLEAN, system : BOOLEAN, users : Seq(Users)]
           /\ o.runtime = open.runtime /\ o.system = open.system
           /\ IsInjective(o.users) /\ Len(o.users) < USER_JOURNALS_MAX
           /\ \A i \in DOMAIN o.users : \E j \in DOMAIN open.users : o.users[i] = open.users[j]
<1>1. DiskOK(disk, ids, {}) /\ ids \in Nat /\ OpenShape
  BY AllFound
<1>2. PICK u : u = open.users
  OBVIOUS
<1>3. /\ open \in [runtime : BOOLEAN, system : BOOLEAN, users : Seq(Users)]
      /\ u \in Seq(Users) /\ IsInjective(u) /\ Len(u) <= USER_JOURNALS_MAX /\ Len(u) \in Nat
      /\ USER_JOURNALS_MAX \in Nat /\ USER_JOURNALS_MAX > 0
  BY <1>1, <1>2, JournaldAssumption DEF OpenShape
<1>4. CASE Full
  <2>1. Len(u) >= USER_JOURNALS_MAX /\ u # <<>>
    BY <1>2, <1>3, <1>4 DEF Full
  <2>2. PICK x : x = Active(Head(u))
    OBVIOUS
  <2>3. PICK g : g = SetOffline(disk[x])
    OBVIOUS
  <2>4. x \in DOMAIN disk => FileOK(x, g) /\ Keeps(disk[x], g)
    BY <1>1, <2>3, SetOfflineKeeps DEF DiskOK
  <2>5. d = [disk EXCEPT ![x] = g]
    BY <1>2, <1>4, <2>2, <2>3 DEF RoomDisk
  <2>6. PICK n \in Nat : n = ids /\ n >= n
    BY <1>1
  <2>7. DiskOK(disk, n, {})
    BY <1>1, <2>6
  <2>8. DiskOK(d, n, {})
    BY <2>4, <2>5, <2>6, <2>7, Replaced
  <2>9. DOMAIN d = DOMAIN disk /\ \A y \in DOMAIN disk : FileIds(d[y]) = FileIds(disk[y])
    BY <2>4, <2>5 DEF Keeps, FileIds
  <2>10. PICK v : v = Tail(u)
    OBVIOUS
  <2>11. o = [open EXCEPT !.users = v]
    BY <1>2, <1>4, <2>10 DEF RoomOpen
  <2>12. v \in Seq(Users) /\ Len(v) = Len(u) - 1 /\ \A i \in DOMAIN v : i + 1 \in DOMAIN u /\ v[i] = u[i + 1]
    BY <1>3, <2>1, <2>10
  <2>13. IsInjective(v)
    BY <1>3, <2>12 DEF IsInjective
  <2>14. /\ o \in [runtime : BOOLEAN, system : BOOLEAN, users : Seq(Users)]
         /\ o.runtime = open.runtime /\ o.system = open.system /\ o.users = v
    BY <1>3, <2>11, <2>12
  <2>15. Len(v) < USER_JOURNALS_MAX
    BY <1>3, <2>12
  <2> QED
    BY <1>2, <2>6, <2>8, <2>9, <2>12, <2>13, <2>14, <2>15
<1>5. CASE ~Full
  BY <1>1, <1>2, <1>3, <1>5 DEF Full, RoomDisk, RoomOpen
<1> QED
  BY <1>4, <1>5

\* What find_journal() leaves: the journal it returns is there, as is every
\* journal that is open, and no message is lost.
Found(r) ==
    /\ r.loc \in Locs \cup {""}
    /\ r.loc # "" => Active(r.loc) \in DOMAIN r.disk
    /\ r.disk # disk => DiskOK(r.disk, ids + 1, {})
    /\ \A x \in DOMAIN disk : x.kind = "active" =>
         \E y \in DOMAIN r.disk : y.loc = x.loc /\ FileIds(disk[x]) \subseteq FileIds(r.disk[y])

\* find_journal(), with every outcome.
LEMMA FindJournalKeeps ==
    ASSUME ServerInv, ~First("create"), NEW uid, NEW r \in FindJournal(uid), open' = r.open
    PROVE  Found(r) /\ OpenShape' /\ \A l \in Locs : IsOpen(l)' => Active(l) \in DOMAIN r.disk
<1>1. DiskOK(disk, ids, {}) /\ ids \in Nat /\ OpenShape /\ OpenFound
  BY AllFound
<1>2. clock \in Nat
  BY DEF ServerInv, BasicsOK
<1>3. Runtime \in Locs /\ System \in Locs /\ Users \subseteq Locs
  BY DEF Locs
<1>4. Runtime \notin Users /\ System \notin Users /\ Runtime # System
  BY JournaldAssumption DEF Runtime, System
<1>5. PICK fallback : fallback = IF IsOpen(System) THEN System ELSE ""
  OBVIOUS
<1>6. ASSUME r.disk = disk, r.open = open, (r.loc \in Locs /\ IsOpen(r.loc)) \/ r.loc = ""
      PROVE  Found(r) /\ OpenShape' /\ \A l \in Locs : IsOpen(l)' => Active(l) \in DOMAIN r.disk
  <2>1. open' = open
    BY <1>6
  <2>2. OpenShape' /\ \A l \in Locs : IsOpen(l)' => Active(l) \in DOMAIN r.disk
    BY <1>1, <1>6, <2>1 DEF OpenShape, OpenFound, IsOpen
  <2>3. r.loc # "" => Active(r.loc) \in DOMAIN r.disk
    BY <1>1, <1>6 DEF OpenFound
  <2> QED
    BY <1>1, <1>6, <2>2, <2>3 DEF Found
<1>7. CASE RuntimeOnly
  <2>1. r = [loc |-> Runtime, disk |-> disk, open |-> open, used |-> used]
    BY <1>7 DEF FindJournal
  <2> QED
    BY <1>3, <1>6, <1>7, <2>1 DEF RuntimeOnly
<1>8. CASE ~RuntimeOnly /\ uid \notin Users
  <2>1. r = [loc |-> fallback, disk |-> disk, open |-> open, used |-> used]
    BY <1>5, <1>8 DEF FindJournal
  <2> QED
    BY <1>3, <1>5, <1>6, <2>1
<1>9. CASE ~RuntimeOnly /\ uid \in Users /\ IsOpen(uid)
  <2>1. r = [loc |-> uid, disk |-> disk, open |-> open, used |-> used]
    BY <1>9 DEF FindJournal
  <2> QED
    BY <1>3, <1>6, <1>9, <2>1
<1>10. CASE ~RuntimeOnly /\ uid \in Users /\ ~IsOpen(uid)
  <2>1. PICK d : d = RoomDisk
    OBVIOUS
  <2>2. PICK o : o = RoomOpen
    OBVIOUS
  <2>3. /\ DiskOK(d, ids, {}) /\ DOMAIN d = DOMAIN disk
        /\ \A x \in DOMAIN disk : FileIds(d[x]) = FileIds(disk[x])
        /\ o \in [runtime : BOOLEAN, system : BOOLEAN, users : Seq(Users)]
        /\ o.runtime = open.runtime /\ o.system = open.system
        /\ IsInjective(o.users) /\ Len(o.users) < USER_JOURNALS_MAX
        /\ \A i \in DOMAIN o.users : \E j \in DOMAIN open.users : o.users[i] = open.users[j]
    BY <2>1, <2>2, MakeRoom
  <2>4. \/ /\ r = [loc |-> uid, disk |-> OpenReliably(d, uid),
                   open |-> [o EXCEPT !.users = Append(@, uid)], used |-> used]
        \/ \E e \in OpenFailures(d, uid) :
             r = [loc |-> fallback, disk |-> e, open |-> o, used |-> Failed]
    BY <1>5, <1>10, <2>1, <2>2 DEF FindJournal, RoomDisk, RoomOpen
  <2>5. uid \in Locs /\ uid # Runtime /\ uid # System
    BY <1>3, <1>4, <1>10
  <2>6. ASSUME NEW e, e = r.disk, e = OpenReliably(d, uid) \/ e \in OpenFailures(d, uid)
        PROVE  /\ DiskOK(e, ids + 1, {})
               /\ \A l \in Locs : l # uid /\ Active(l) \in DOMAIN disk => Active(l) \in DOMAIN e
               /\ \A x \in DOMAIN disk : x.kind = "active" =>
                    \E y \in DOMAIN e : y.loc = x.loc /\ FileIds(disk[x]) \subseteq FileIds(e[y])
               /\ e = OpenReliably(d, uid) => Active(uid) \in DOMAIN e
    <3>1. Opened(d, uid, e) /\ (e = OpenReliably(d, uid) => Active(uid) \in DOMAIN e)
      BY <1>1, <1>2, <2>3, <2>5, <2>6, Opening
    <3> QED
      BY <1>1, <2>3, <3>1 DEF Opened
  <2>7. CASE r = [loc |-> uid, disk |-> OpenReliably(d, uid),
                  open |-> [o EXCEPT !.users = Append(@, uid)], used |-> used]
    <3>1. PICK e : e = r.disk /\ e = OpenReliably(d, uid) /\ r.loc = uid
      BY <2>7
    <3>2. Found(r)
      BY <2>5, <2>6, <3>1 DEF Found
    <3>3. PICK u \in Seq(Users) : u = o.users
      BY <2>3
    <3>4. PICK v : v = Append(u, uid)
      OBVIOUS
    <3>5. PICK k \in Nat : k = Len(u) /\ DOMAIN u = 1..k
      BY <3>3
    <3>6. /\ v \in Seq(Users) /\ Len(v) = k + 1 /\ DOMAIN v = 1..(k + 1)
          /\ v[k + 1] = uid /\ \A i \in 1..k : v[i] = u[i]
      BY <1>10, <3>3, <3>4, <3>5
    <3>7. /\ open' \in [runtime : BOOLEAN, system : BOOLEAN, users : Seq(Users)]
          /\ open'.runtime = open.runtime /\ open'.system = open.system /\ open'.users = v
      <4>1. open' = [o EXCEPT !.users = v]
        BY <2>7, <3>3, <3>4
      <4> QED
        BY <2>3, <3>6, <4>1
    <3>8. \A i \in 1..k : u[i] # uid /\ \E j \in DOMAIN open.users : u[i] = open.users[j]
      BY <1>10, <2>3, <3>3, <3>5 DEF IsOpen
    <3>9. IsInjective(v)
      <4>1. \A i, j \in 1..k : u[i] = u[j] => i = j
        BY <2>3, <3>3, <3>5 DEF IsInjective
      <4>2. \A i, j \in 1..(k + 1) : v[i] = v[j] => i = j
        BY <3>6, <3>8, <4>1
      <4> QED
        BY <3>6, <4>2 DEF IsInjective
    <3>10. Len(v) <= USER_JOURNALS_MAX
      BY <2>3, <3>3, <3>5, <3>6, JournaldAssumption
    <3>11. OpenShape'
      BY <3>7, <3>9, <3>10 DEF OpenShape
    <3>12. ASSUME NEW l \in Locs, IsOpen(l)' PROVE Active(l) \in DOMAIN r.disk
      <4>1. \/ l = Runtime /\ open.runtime
            \/ l = System /\ open.system
            \/ \E i \in DOMAIN v : v[i] = l
        BY <3>7, <3>12 DEF IsOpen
      <4>2. l = uid \/ IsOpen(l)
        BY <3>6, <3>8, <4>1 DEF IsOpen
      <4>3. l # uid /\ IsOpen(l) => Active(l) \in DOMAIN e
        BY <1>1, <2>6, <3>1 DEF OpenFound
      <4>4. Active(uid) \in DOMAIN e
        BY <2>6, <3>1
      <4> QED
        BY <3>1, <4>2, <4>3, <4>4
    <3> QED
      BY <3>2, <3>11, <3>12
  <2>8. ASSUME NEW e \in OpenFailures(d, uid),
               r = [loc |-> fallback, disk |-> e, open |-> o, used |-> Failed]
        PROVE  Found(r) /\ OpenShape' /\ \A l \in Locs : IsOpen(l)' => Active(l) \in DOMAIN r.disk
    <3>1. e = r.disk /\ r.loc = fallback /\ open' = o
      BY <2>8
    <3>2. \A l \in Locs : IsOpen(l) /\ l # uid => Active(l) \in DOMAIN e
      BY <1>1, <2>6, <2>8, <3>1 DEF OpenFound
    <3>3. Found(r)
      <4>1. r.loc \in Locs \cup {""} /\ (r.loc # "" => Active(r.loc) \in DOMAIN e)
        BY <1>3, <1>5, <2>5, <3>1, <3>2
      <4> QED
        BY <2>6, <2>8, <3>1, <4>1 DEF Found
    <3>4. OpenShape'
      <4>1. Len(o.users) <= USER_JOURNALS_MAX
        BY <2>3, JournaldAssumption
      <4> QED
        BY <2>3, <3>1, <4>1 DEF OpenShape
    <3>5. ASSUME NEW l \in Locs, IsOpen(l)' PROVE Active(l) \in DOMAIN r.disk
      <4>1. IsOpen(l)
        BY <2>3, <3>1, <3>5 DEF IsOpen
      <4> QED
        BY <1>10, <3>1, <3>2, <4>1
    <3> QED
      BY <3>3, <3>4, <3>5
  <2> QED
    BY <2>4, <2>7, <2>8
<1> QED
  BY <1>7, <1>8, <1>9, <1>10

\* What find_journal() leaves, with one file replaced by what it has become.
LEMMA WriteFiles ==
    ASSUME ServerInv, ~First("create"), NEW uid, NEW r \in FindJournal(uid), Finding(r),
           gone' = gone \cup Deleted(r.disk), NEW x, NEW g, NEW n, n = ids',
           \/ disk' = r.disk
           \/ /\ x \in DOMAIN r.disk => /\ FileOK(x, g)
                                        /\ \/ Keeps(r.disk[x], g)
                                           \/ Continues(r.disk[x], g) /\ x.kind = "active"
              /\ disk' = [r.disk EXCEPT ![x] = g]
    PROVE  DiskOK(disk', n, {}) /\ n \in Nat /\ OpenShape' /\ OpenFound' /\ Saved \subseteq Saved'
<1>1. open' = r.open /\ ids' = IF r.disk = disk THEN ids ELSE ids + 1
  BY DEF Finding
<1>2. Found(r) /\ OpenShape' /\ \A l \in Locs : IsOpen(l)' => Active(l) \in DOMAIN r.disk
  BY <1>1, FindJournalKeeps
<1>3. ids \in Nat /\ DiskOK(disk, ids, {})
  BY AllFound
<1>4. PICK d : d = r.disk
  OBVIOUS
<1>5. PICK G : G = GoneIds'
  OBVIOUS
<1>6. n \in Nat /\ DiskOK(d, n, {})
  <2>1. CASE d = disk
    <3>1. n = ids
      BY <1>1, <1>4, <2>1
    <3> QED
      BY <1>3, <2>1, <3>1
  <2>2. CASE d # disk
    <3>1. DiskOK(d, ids + 1, {})
      BY <1>2, <1>4, <2>2 DEF Found
    <3>2. n = ids + 1
      BY <1>1, <1>4, <2>2
    <3> QED
      BY <1>3, <3>1, <3>2
  <2> QED
    BY <2>1, <2>2
<1>7. {h.id : h \in gone \cup Deleted(d)} \subseteq G
  BY <1>4, <1>5 DEF GoneIds
<1>8. Kept(disk, d, G)
  <2>1. \A y \in DOMAIN disk : y.kind = "active" =>
           \E z \in DOMAIN d : z.loc = y.loc /\ FileIds(disk[y]) \subseteq FileIds(d[z])
    BY <1>2, <1>4 DEF Found
  <2> QED
    BY <1>7, <2>1, DeletedKept
<1>9. ASSUME NEW e, disk' = e, DiskOK(e, n, {}), Kept(d, e, G), DOMAIN e = DOMAIN d
      PROVE  DiskOK(disk', n, {}) /\ OpenFound' /\ Saved \subseteq Saved'
  <2>1. Kept(disk, e, G)
    BY <1>8, <1>9, KeptAgain
  <2>2. Saved \subseteq Saved'
    BY <1>5, <1>9, <2>1, SavedKept
  <2>3. OpenFound'
    BY <1>2, <1>4, <1>9 DEF OpenFound
  <2> QED
    BY <1>9, <2>2, <2>3
<1>10. CASE disk' = r.disk
  <2>1. Kept(d, d, G)
    BY DEF Kept
  <2> QED
    BY <1>2, <1>4, <1>6, <1>9, <1>10, <2>1
<1>11. CASE /\ x \in DOMAIN r.disk => /\ FileOK(x, g)
                                      /\ \/ Keeps(r.disk[x], g)
                                         \/ Continues(r.disk[x], g) /\ x.kind = "active"
            /\ disk' = [r.disk EXCEPT ![x] = g]
  <2>1. PICK e : e = [d EXCEPT ![x] = g]
    OBVIOUS
  <2>2. x \in DOMAIN d => /\ FileOK(x, g)
                          /\ Keeps(d[x], g) \/ (Continues(d[x], g) /\ x.kind = "active")
    BY <1>4, <1>11
  <2>3. n >= n
    BY <1>6
  <2>4. DiskOK(e, n, {})
    BY <1>6, <2>1, <2>2, <2>3, Replaced
  <2>5. x \in DOMAIN d => FileIds(d[x]) \subseteq FileIds(g)
    BY <2>2 DEF Keeps, Continues, FileIds
  <2>6. Kept(d, e, G)
    BY <2>1, <2>5, KeptReplacing
  <2>7. DOMAIN e = DOMAIN d /\ disk' = e
    BY <1>4, <1>11, <2>1
  <2> QED
    BY <1>2, <1>6, <1>9, <2>4, <2>6, <2>7
<1> QED
  BY <1>10, <1>11

\* The tasks that a write pushes.
LEMMA WriteTasks ==
    ASSUME ServerInv, todo # <<>>, msgs' = msgs, NEW id, id = Head(todo).id
    PROVE  /\ \E a \in Seq(Fit') : Retry(id) = a \o Rest
           /\ \E a \in Seq(Fit') : Rest = a \o Rest
           /\ \A loc \in Locs : (id # 0 => id \in Saved') =>
                \E a \in Seq(Fit') : AfterAppend(id, loc) = a \o Rest
<1>1. id \in Nat /\ id <= Len(msgs) /\ Len(msgs) \in Nat
  BY HeadOK, MsgsCounted DEF Tasks, TaskOK, ServerInv
<1>2. ASSUME NEW t \in Tasks, Ordinary(t), t.id = 0 \/ (t.id = id /\ t.do # "return")
      PROVE  t \in Fit'
  <2>1. TaskOK(t)'
    BY <1>1, <1>2 DEF TaskOK, Ordinary
  <2> QED
    BY <1>2, <2>1 DEF Fit
<1>3. /\ "rotate" \in Jobs /\ "vacuum" \in Jobs /\ "retry" \in Jobs /\ "sync" \in Jobs
      /\ "return" \in Jobs
  BY DEF Jobs
<1>4. PICK rotate, vacuum, sync1, retry :
         /\ rotate = Task("rotate") /\ vacuum = Task("vacuum") /\ sync1 = Task("sync")
         /\ retry = TaskFor("retry", id)
  OBVIOUS
<1>5. rotate \in Fit' /\ vacuum \in Fit' /\ sync1 \in Fit' /\ retry \in Fit'
  <2>1. /\ rotate \in Tasks /\ rotate.do = "rotate" /\ rotate.id = 0
        /\ vacuum \in Tasks /\ vacuum.do = "vacuum" /\ vacuum.id = 0
        /\ sync1 \in Tasks /\ sync1.do = "sync" /\ sync1.id = 0
    BY <1>3, <1>4, MadeTask
  <2>2. retry \in Tasks /\ retry.do = "retry" /\ retry.id = id
    BY <1>1, <1>3, <1>4, MadeTaskFor
  <2> QED
    BY <1>2, <2>1, <2>2 DEF Ordinary
<1>6. PICK F : F = Fit'
  OBVIOUS
<1>7. \E a \in Seq(F) : Retry(id) = a \o Rest
  <2>1. PICK b : b = <<rotate, vacuum>>
    OBVIOUS
  <2>2. PICK c : c = <<retry>>
    OBVIOUS
  <2>3. b \in Seq(F) /\ c \in Seq(F)
    BY <1>5, <1>6, <2>1, <2>2
  <2>4. b \o c \in Seq(F)
    BY <2>3
  <2>5. Retry(id) = (b \o c) \o Rest
    BY <1>4, <2>1, <2>2 DEF Retry, RotateAndVacuum
  <2> QED
    BY <2>4, <2>5
<1>8. \E a \in Seq(F) : Rest = a \o Rest
  <2>1. PICK a : a = <<>>
    OBVIOUS
  <2>2. Rest \in Seq(Tasks)
    BY DEF Rest, ServerInv, TodoOK
  <2>3. a \in Seq(F) /\ Rest = a \o Rest
    BY <2>1, <2>2
  <2> QED
    BY <2>3
<1>9. ASSUME NEW loc \in Locs, id # 0 => id \in Saved'
      PROVE  \E a \in Seq(F) : AfterAppend(id, loc) = a \o Rest
  <2>1. PICK t : t = [TaskFor("return", id) EXCEPT !.loc = loc]
    OBVIOUS
  <2>2. t \in Tasks /\ t.do = "return" /\ t.id = id
    BY <1>1, <1>3, <2>1 DEF TaskFor, Task, Tasks
  <2>3. TaskOK(t)' /\ Ordinary(t)
    BY <1>1, <1>9, <2>2 DEF TaskOK, Ordinary
  <2>4. t \in F
    BY <1>6, <2>2, <2>3 DEF Fit
  <2>5. PICK b : b = IF Priority(id) <= 2 THEN <<Task("sync")>> ELSE <<>>
    OBVIOUS
  <2>6. PICK c : c = <<t>>
    OBVIOUS
  <2>7. c \in Seq(F)
    BY <2>4, <2>6
  <2>8. <<sync1>> \in Seq(F)
    BY <1>5, <1>6
  <2>9. b \in Seq(F)
    BY <1>4, <2>5, <2>8
  <2>10. b \o c \in Seq(F)
    BY <2>7, <2>9
  <2>11. AfterAppend(id, loc) = (b \o c) \o Rest
    BY <2>1, <2>5, <2>6 DEF AfterAppend
  <2> QED
    BY <2>10, <2>11
<1> QED
  BY <1>6, <1>7, <1>8, <1>9

\* An attempt ends with the return, with a rotation, or is given up.
LEMMA WriteEnds ==
    ASSUME ServerInv, todo # <<>>, up, scope' = scope, Head(todo).do \in {"write", "retry"},
           NEW id, id = Head(todo).id, NEW r, Finding(r),
           DiskOK(disk', ids', {}), ids' \in Nat, OpenShape', OpenFound', Saved \subseteq Saved',
           seqnum' \in Nat,
           \/ todo' = Rest \/ todo' = Retry(id)
           \/ \E loc \in Locs : todo' = AfterAppend(id, loc) /\ id \in Saved'
    PROVE  ServerInv'
<1>1. UNCHANGED <<up, flush, clock, msgs, acked, scope>>
  BY DEF Finding
<1>2. Head(todo).do \notin {"rotate", "vacuum", "rename", "create"}
  OBVIOUS
<1>3. /\ \E a \in Seq(Fit') : Retry(id) = a \o Rest
      /\ \E a \in Seq(Fit') : Rest = a \o Rest
      /\ \A loc \in Locs : (id # 0 => id \in Saved') =>
           \E a \in Seq(Fit') : AfterAppend(id, loc) = a \o Rest
  BY <1>1, WriteTasks
<1>4. PICK a \in Seq(Fit') : todo' = a \o Rest
  BY <1>3
<1>5. flush' \in Flushes
  BY <1>1 DEF ServerInv, FlushOK
<1> QED
  BY <1>1, <1>2, <1>4, <1>5, FitPush

\* journal_file_entry_seqnum() goes on from the server's number and the file's.
LEMMA EntrySeqnumAbove ==
    ASSUME NEW f, f.tail \in Nat, seqnum \in Nat
    PROVE  EntrySeqnum(f) \in Nat /\ EntrySeqnum(f) > f.tail
<1>1. PICK t \in Nat : t = f.tail
  OBVIOUS
<1>2. CASE seqnum > t
  <2>1. EntrySeqnum(f) = seqnum + 1
    BY <1>1, <1>2 DEF EntrySeqnum
  <2> QED
    BY <1>1, <1>2, <2>1
<1>3. CASE ~(seqnum > t)
  <2>1. EntrySeqnum(f) = t + 1
    BY <1>1, <1>3 DEF EntrySeqnum
  <2> QED
    BY <1>1, <2>1
<1> QED
  BY <1>2, <1>3

\* An attempt to append the message, however it ends.
LEMMA AttemptKeeps ==
    ASSUME ServerInv, todo # <<>>, up, scope' = scope, Head(todo).do \in {"write", "retry"},
           NEW id, id = Head(todo).id, NEW uid, NEW r \in FindJournal(uid), Finding(r),
           gone' = gone \cup Deleted(r.disk), r.loc # "",
           NEW again, again = Rest \/ again = Retry(id),
           Attempt(r, id, AfterAppend(id, r.loc), again)
    PROVE  ServerInv'
<1>1. ~First("create")
  BY DEF First
<1>2. PICK x : x = Active(r.loc)
  OBVIOUS
<1>3. PICK f : f = r.disk[x]
  OBVIOUS
<1>4. PICK seq : seq = EntrySeqnum(f)
  OBVIOUS
<1>5. PICK g : g = Appended(f, id, clock, seq)
  OBVIOUS
<1>6. open' = r.open
  BY DEF Finding
<1>7. Found(r)
  BY <1>1, <1>6, FindJournalKeeps
<1>8. r.loc \in Locs /\ x \in DOMAIN r.disk /\ x.kind = "active"
  BY <1>2, <1>7, NamesOK DEF Found
<1>9. DiskOK(disk, ids, {}) /\ seqnum \in Nat /\ clock \in Nat
  BY <1>1, AllFound DEF ServerInv, BasicsOK
<1>10. FileOK(x, f) /\ f.tail \in Nat
  <2>1. FileOK(x, f)
    BY <1>3, <1>7, <1>8, <1>9 DEF Found, DiskOK
  <2> QED
    BY <2>1, Numbers
<1>11. seq \in Nat /\ seq > f.tail
  BY <1>4, <1>9, <1>10, EntrySeqnumAbove
<1>12. id \in Nat
  BY HeadOK DEF Tasks
<1>13. FileOK(x, g) /\ Continues(f, g) /\ id \in FileIds(g)
  BY <1>5, <1>8, <1>9, <1>10, <1>11, <1>12, AppendedContinues
<1>14. PICK h : h = SetOnline(f)
  OBVIOUS
<1>15. FileOK(x, h) /\ Keeps(f, h)
  BY <1>10, <1>14, SetOnlineKeeps
<1>16. PICK n : n = ids'
  OBVIOUS
<1>17. CASE /\ disk' = [r.disk EXCEPT ![x] = g] /\ seqnum' = seq
            /\ todo' = AfterAppend(id, r.loc) \/ todo' = Rest \/ todo' = Retry(id)
  <2>1. DiskOK(disk', n, {}) /\ n \in Nat /\ OpenShape' /\ OpenFound' /\ Saved \subseteq Saved'
    BY <1>1, <1>3, <1>8, <1>13, <1>16, <1>17, WriteFiles
  <2>2. id \in Saved'
    <3>1. PICK e : e = disk'
      OBVIOUS
    <3>2. x \in DOMAIN e /\ id \in FileIds(e[x])
      BY <1>8, <1>13, <1>17, <3>1
    <3>3. id \in Ids(e, DOMAIN e)
      BY <3>2, IdsOf
    <3> QED
      BY <3>1, <3>3 DEF Saved
  <2> QED
    BY <1>8, <1>11, <1>16, <1>17, <2>1, <2>2, WriteEnds
<1>18. CASE /\ disk' = [r.disk EXCEPT ![x] = h] /\ seqnum' = seqnum
            /\ todo' = Rest \/ todo' = Retry(id)
  <2>1. DiskOK(disk', n, {}) /\ n \in Nat /\ OpenShape' /\ OpenFound' /\ Saved \subseteq Saved'
    BY <1>1, <1>3, <1>8, <1>15, <1>16, <1>18, WriteFiles
  <2> QED
    BY <1>9, <1>16, <1>18, <2>1, WriteEnds
<1>19. CASE /\ disk' = r.disk /\ seqnum' = seqnum
            /\ todo' = Rest \/ todo' = Retry(id)
  <2>1. DiskOK(disk', n, {}) /\ n \in Nat /\ OpenShape' /\ OpenFound' /\ Saved \subseteq Saved'
    BY <1>1, <1>16, <1>19, WriteFiles
  <2> QED
    BY <1>9, <1>16, <1>19, <2>1, WriteEnds
<1>20. CASE f.tables
  <2>1. \/ /\ disk' = [r.disk EXCEPT ![x] = g] /\ seqnum' = seq
           /\ todo' = AfterAppend(id, r.loc)
        \/ \E visible, retry \in BOOLEAN :
             /\ disk' = [r.disk EXCEPT ![x] = IF visible THEN g ELSE h]
             /\ seqnum' = IF visible THEN seq ELSE seqnum
             /\ todo' = IF retry THEN again ELSE Rest
    BY <1>2, <1>3, <1>4, <1>5, <1>14, <1>20 DEF Attempt
  <2> QED
    BY <1>17, <1>18, <2>1
<1>21. CASE ~f.tables
  <2>1. disk' = r.disk /\ seqnum' = seqnum /\ todo' = again
    BY <1>2, <1>3, <1>21 DEF Attempt
  <2> QED
    BY <1>19, <2>1
<1> QED
  BY <1>20, <1>21

\* write_to_journal(), both its attempts.
LEMMA WriteKeeps ==
    ASSUME ServerInv, Write \/ WriteAgain, scope' = scope
    PROVE  ServerInv'
<1>1. todo # <<>> /\ up /\ Head(todo).do \in {"write", "retry"} /\ ~First("create")
  BY DEF Write, WriteAgain, Doing, First
<1>2. PICK id : id = Head(todo).id
  OBVIOUS
<1>3. PICK uid : uid = Uid(id)
  OBVIOUS
<1>4. PICK r \in FindJournal(uid) :
         /\ Finding(r)
         /\ gone' = gone \cup Deleted(r.disk)
         /\ \/ /\ disk' = r.disk /\ UNCHANGED seqnum
               /\ todo' = Rest \/ todo' = Retry(id)
            \/ /\ r.loc # ""
               /\ \E again \in {Rest, Retry(id)} : Attempt(r, id, AfterAppend(id, r.loc), again)
  BY <1>2, <1>3 DEF Write, WriteAgain
<1>5. CASE /\ disk' = r.disk /\ UNCHANGED seqnum
           /\ todo' = Rest \/ todo' = Retry(id)
  <2>1. PICK n : n = ids'
    OBVIOUS
  <2>2. DiskOK(disk', n, {}) /\ n \in Nat /\ OpenShape' /\ OpenFound' /\ Saved \subseteq Saved'
    BY <1>1, <1>4, <1>5, <2>1, WriteFiles
  <2>3. seqnum \in Nat
    BY DEF ServerInv, BasicsOK
  <2> QED
    BY <1>1, <1>2, <1>4, <1>5, <2>1, <2>2, <2>3, WriteEnds
<1>6. CASE /\ r.loc # ""
           /\ \E again \in {Rest, Retry(id)} : Attempt(r, id, AfterAppend(id, r.loc), again)
  <2>1. PICK again \in {Rest, Retry(id)} : Attempt(r, id, AfterAppend(id, r.loc), again)
    BY <1>6
  <2> QED
    BY <1>1, <1>2, <1>4, <1>6, <2>1, AttemptKeeps
<1> QED
  BY <1>4, <1>5, <1>6

-----------------------------------------------------------------------------
(* server_flush_to_var()                                                   *)

\* A flush that goes on to copy or to finish.
LEMMA FlushStep ==
    ASSUME ServerInv, todo # <<>>, up,
           Head(todo).do \notin {"rotate", "vacuum", "rename", "create"},
           NEW t \in Tasks, t.do \in {"copy", "finish"}, t.id = 0, todo' = <<t>> \o Rest,
           UNCHANGED <<up, open, seqnum, clock, ids, msgs, acked, gone, scope>>,
           DiskOK(disk', ids', {}), OpenFound', OpenShape', Saved \subseteq Saved',
           flush' \in Flushes,
           t.do = "copy" => open.system,
           t.do = "finish" => flush'.err \/ flush'.left = {},
           flush'.err \/ RuntimeIds(disk') \subseteq Accounted(flush')
                                                      \cup VarIds(disk') \cup GoneIds
    PROVE  ServerInv'
<1>1. TodoOK /\ AckOK /\ BasicsOK /\ Len(msgs) \in Nat
  BY MsgsCounted DEF ServerInv
<1>2. TaskOK(t)'
  BY <1>1 DEF TaskOK
<1>3. /\ todo' # <<>> /\ Head(todo)' = t
      /\ \A i \in DOMAIN todo' : i # 1 => Ordinary(todo'[i])
      /\ FirstOK' => TodoOK'
  BY <1>2, OneTask
<1>4. FirstOK' /\ Pending' = {}
  BY <1>3 DEF FirstOK, First, Pending
<1>5. TodoOK'
  BY <1>3, <1>4
<1>6. AckOK' /\ BasicsOK'
  BY <1>1, AcksKept DEF BasicsOK
<1>7. OpenOK'
  BY DEF OpenOK, OpenShape, OpenFound
<1>8. \A i \in DOMAIN todo' : todo'[i].do # "recopy"
  <2> SUFFICES ASSUME NEW i \in DOMAIN todo' PROVE todo'[i].do # "recopy"
    OBVIOUS
  <2>1. CASE i = 1
    <3>1. PICK q : q = todo'
      OBVIOUS
    <3>2. q \in Seq(Tasks) /\ Head(q) = t /\ q # <<>>
      BY <1>3, <1>5, <3>1 DEF TodoOK
    <3>3. q[1] = t
      BY <3>2
    <3> QED
      BY <2>1, <3>1, <3>3
  <2>2. CASE i # 1
    BY <1>3, <2>2 DEF Ordinary
  <2> QED
    BY <2>1, <2>2
<1>9. FlushOK'
  <2>1. GoneIds' = GoneIds
    BY DEF GoneIds
  <2> QED
    BY <1>8, <2>1 DEF FlushOK, RuntimeIds, VarIds
<1> QED
  BY <1>4, <1>5, <1>6, <1>7, <1>9 DEF ServerInv

\* The entries that sd_journal_next() is going to yield are all of them.
LEMMA RuntimeEntriesAll ==
    ASSUME ServerInv, ~First("create")
    PROVE  /\ RuntimeEntries \subseteq Left
           /\ RuntimeIds(disk) \subseteq {e.id : e \in RuntimeEntries}
<1>1. DiskOK(disk, ids, {})
  BY AllFound
<1>2. ASSUME NEW x \in DOMAIN disk, NEW i \in DOMAIN disk[x].entries, NEW f, f = disk[x]
      PROVE  f.entries[i] \in Entry /\ f.seqid \in Nat
  <2>1. f \in File
    BY <1>1, <1>2 DEF DiskOK, FileOK
  <2>2. PICK s \in Seq(Entry) : s = f.entries /\ f.seqid \in Nat
    BY <2>1 DEF File
  <2> QED
    BY <1>2, <2>2
<1> DEFINE E(x, i) == [id |-> disk[x].entries[i].id, at |-> disk[x].entries[i].at,
                       seqid |-> disk[x].seqid, seq |-> disk[x].entries[i].seq]
<1>3. \A e : e \in RuntimeEntries <=>
         \E x \in DOMAIN disk : ~InVar(x) /\ \E i \in DOMAIN disk[x].entries : e = E(x, i)
  BY DEF RuntimeEntries
<1>4. RuntimeEntries \subseteq Left
  <2> SUFFICES ASSUME NEW e \in RuntimeEntries PROVE e \in Left
    OBVIOUS
  <2>1. PICK x \in DOMAIN disk : \E i \in DOMAIN disk[x].entries : e = E(x, i)
    BY <1>3
  <2>2. PICK i \in DOMAIN disk[x].entries : e = E(x, i)
    BY <2>1
  <2>3. disk[x].entries[i] \in Entry /\ disk[x].seqid \in Nat
    BY <1>2
  <2> QED
    BY <2>2, <2>3 DEF Left, Entry
<1>5. ASSUME NEW m \in RuntimeIds(disk) PROVE \E e \in RuntimeEntries : m = e.id
  <2>1. PICK x \in {y \in DOMAIN disk : ~InVar(y)} : m \in FileIds(disk[x])
    BY <1>5, IdsOf DEF RuntimeIds
  <2>2. PICK i \in DOMAIN disk[x].entries : m = disk[x].entries[i].id
    BY <2>1 DEF FileIds
  <2>3. E(x, i) \in RuntimeEntries
    BY <1>3, <2>1, <2>2
  <2>4. E(x, i).id = m
    BY <2>2
  <2> QED
    BY <2>3, <2>4
<1> QED
  BY <1>4, <1>5

\* The two journals that no user has.
LEMMA SystemOpen ==
    ASSUME OpenShape
    PROVE  (IsOpen(System) <=> open.system) /\ (IsOpen(Runtime) <=> open.runtime)
<1>1. System \notin Users /\ Runtime \notin Users /\ System # Runtime
  BY JournaldAssumption DEF System, Runtime
<1>2. \A i \in DOMAIN open.users : open.users[i] \in Users
  BY DEF OpenShape
<1> QED
  BY <1>1, <1>2 DEF IsOpen

\* What a flush passes over is a part of what is left to copy.
LEMMA PassedOverLeft ==
    ASSUME NEW L, NEW missed \in PassedOver(L)
    PROVE  missed \subseteq L
BY DEF PassedOver

\* v is the flush w after the entries missed were passed over.
PassesOver(w, v, missed) ==
    v = [w EXCEPT !.left = @ \ missed, !.unread = @ \cup {e.id : e \in missed}]

\* What it passes over stays accounted for.
LEMMA StillAccounted ==
    ASSUME NEW w \in Flushes, NEW v, NEW missed \in SUBSET w.left, PassesOver(w, v, missed)
    PROVE  /\ v \in Flushes /\ v.err = w.err /\ v.left = w.left \ missed
           /\ Accounted(w) \subseteq Accounted(v)
<1>1. /\ w.left \subseteq Left /\ w.err \in BOOLEAN /\ w.unread \subseteq Nat
      /\ DOMAIN w = {"left", "err", "unread"}
  BY DEF Flushes
<1>2. PICK m : m = {e.id : e \in missed}
  OBVIOUS
<1>3. m \subseteq Nat
  BY <1>1, <1>2 DEF Left
<1>4. v.left = w.left \ missed /\ v.unread = w.unread \cup m /\ v.err = w.err
  BY <1>1, <1>2 DEF Flushes, PassesOver
<1>5. v \in Flushes
  BY <1>1, <1>2, <1>3 DEF Flushes, PassesOver
<1>6. Accounted(w) \subseteq Accounted(v)
  BY <1>2, <1>4 DEF Accounted
<1> QED
  BY <1>4, <1>5, <1>6

\* The flush begins with all entries of the runtime journals left to copy, but
\* for those of files that it cannot open.
LEMMA BeginFlushKeeps ==
    ASSUME ServerInv, BeginFlush, scope' = scope
    PROVE  ServerInv'
<1>1. /\ UNCHANGED <<disk, up, open, seqnum, clock, ids, msgs, acked, gone, scope>>
      /\ todo # <<>> /\ up /\ Head(todo).do = "begin"
  BY DEF BeginFlush, Doing
<1>2. ~First("create") /\ Head(todo).do \notin {"rotate", "vacuum", "rename", "create"}
  BY <1>1 DEF First
<1>3. CASE todo' = Rest /\ flush' = flush
  <2>1. UNCHANGED quietVars
    BY <1>1, <1>3 DEF quietVars
  <2> QED
    BY <1>1, <1>2, <1>3, <2>1, QuietPop
<1>4. ASSUME NEW missed \in PassedOver(RuntimeEntries), IsOpen(System),
             flush' = [left |-> RuntimeEntries \ missed, err |-> FALSE,
                       unread |-> {e.id : e \in missed}],
             todo' = <<Task("copy")>> \o Rest
      PROVE  ServerInv'
  <2>1. PICK t : t = Task("copy")
    OBVIOUS
  <2>2. "copy" \in Jobs
    BY DEF Jobs
  <2>3. t \in Tasks /\ t.do = "copy" /\ t.id = 0
    BY <2>1, <2>2, MadeTask
  <2>4. todo' = <<t>> \o Rest
    BY <1>4, <2>1
  <2>5. DiskOK(disk, ids, {}) /\ OpenFound /\ OpenShape
    BY <1>2, AllFound
  <2>6. DiskOK(disk', ids', {}) /\ OpenFound' /\ OpenShape' /\ open.system
    BY <1>1, <1>4, <2>5, SystemOpen DEF OpenFound, OpenShape, IsOpen
  <2>7. Saved \subseteq Saved'
    BY <1>1, DiskStays
  <2>8. /\ RuntimeEntries \subseteq Left
        /\ RuntimeIds(disk) \subseteq {e.id : e \in RuntimeEntries}
    BY <1>2, RuntimeEntriesAll
  <2>9. flush' \in Flushes /\ {e.id : e \in RuntimeEntries} \subseteq Accounted(flush')
    <3>1. missed \subseteq RuntimeEntries
      BY <1>4, PassedOverLeft
    <3>2. PICK m : m = {e.id : e \in missed}
      OBVIOUS
    <3>3. m \subseteq Nat
      BY <2>8, <3>1, <3>2 DEF Left
    <3>4. flush' = [left |-> RuntimeEntries \ missed, err |-> FALSE, unread |-> m]
      BY <1>4, <3>2
    <3>5. flush'.left = RuntimeEntries \ missed /\ flush'.unread = m
      BY <3>4
    <3>6. flush' \in Flushes
      BY <2>8, <3>3, <3>4 DEF Flushes
    <3> QED
      BY <3>1, <3>2, <3>5, <3>6 DEF Accounted
  <2>10. RuntimeIds(disk') \subseteq Accounted(flush') \cup VarIds(disk') \cup GoneIds
    <3>1. disk' = disk
      BY <1>1
    <3> QED
      BY <2>8, <2>9, <3>1
  <2> QED
    BY <1>1, <1>2, <2>3, <2>4, <2>6, <2>7, <2>9, <2>10, FlushStep
<1> QED
  BY <1>3, <1>4 DEF BeginFlush

\* There is a next entry as long as one is left: the least number of the oldest
\* source.
LEMMA NextLeftListed ==
    ASSUME flush.left \subseteq Left, flush.left # {}
    PROVE  NextLeft \in flush.left
<1>1. PICK L : L = flush.left
  OBVIOUS
<1>2. \A e \in L : e.seqid \in Nat /\ e.seq \in Nat
  BY <1>1 DEF Left
<1>3. PICK T : T = {e.seqid : e \in L}
  OBVIOUS
<1>4. T \subseteq Nat /\ T # {}
  BY <1>1, <1>2, <1>3
<1>5. PICK s \in T : \A y \in T : s <= y
  BY <1>4, LeastElement
<1>6. PICK U : U = {e.seq : e \in {x \in L : x.seqid = s}}
  OBVIOUS
<1>7. U \subseteq Nat /\ U # {}
  BY <1>2, <1>3, <1>5, <1>6
<1>8. PICK q \in U : \A y \in U : q <= y
  BY <1>7, LeastElement
<1>9. PICK e \in L : e.seqid = s /\ e.seq = q
  BY <1>6, <1>8
<1>10. ASSUME NEW x \in L PROVE e.seqid < x.seqid \/ (e.seqid = x.seqid /\ e.seq <= x.seq)
  <2>1. x.seqid \in T /\ s <= x.seqid /\ x.seqid \in Nat /\ s \in Nat
    BY <1>2, <1>3, <1>4, <1>5
  <2>2. CASE x.seqid = s
    <3>1. x.seq \in U
      BY <1>6, <2>2
    <3> QED
      BY <1>8, <1>9, <2>2, <3>1
  <2>3. CASE x.seqid # s
    <3>1. s < x.seqid
      BY <2>1, <2>3
    <3> QED
      BY <1>9, <3>1
  <2> QED
    BY <2>2, <2>3
<1> QED
  BY <1>1, <1>9, <1>10 DEF NextLeft

\* A file of the system journal takes another entry, or none: the runtime journal
\* is untouched.
LEMMA CopyFiles ==
    ASSUME ServerInv, ~First("create"), NEW x, x = Active(System), NEW g,
           x \in DOMAIN disk, FileOK(x, g), Keeps(disk[x], g) \/ Continues(disk[x], g),
           disk' = [disk EXCEPT ![x] = g], UNCHANGED <<open, ids, gone>>
    PROVE  /\ DiskOK(disk', ids', {}) /\ OpenFound' /\ OpenShape' /\ Saved \subseteq Saved'
           /\ Kept(disk, disk', GoneIds') /\ NoneNew(disk, disk')
           /\ VarIds(disk) \cup FileIds(g) \subseteq VarIds(disk')
           /\ RuntimeIds(disk') \subseteq RuntimeIds(disk)
<1>1. x.kind = "active" /\ x.loc = System /\ System # Runtime
  BY NamesOK DEF Locs, System, Runtime
<1>2. /\ DiskOK(disk', ids', {}) /\ Kept(disk, disk', GoneIds') /\ Saved \subseteq Saved'
      /\ OpenFound' /\ OpenShape' /\ DOMAIN disk' = DOMAIN disk
      /\ \A y \in DOMAIN disk : disk'[y] = IF y = x THEN g ELSE disk[y]
  BY <1>1, ReplaceStep
<1>3. PICK e : e = disk'
  OBVIOUS
<1>4. DOMAIN e = DOMAIN disk /\ \A y \in DOMAIN disk : e[y] = IF y = x THEN g ELSE disk[y]
  BY <1>2, <1>3
<1>5. NoneNew(disk, e)
  BY <1>1, <1>4 DEF NoneNew
<1>6. RuntimeIds(e) \subseteq RuntimeIds(disk)
  BY <1>5, NoneNewIds
<1>7. \A y \in DOMAIN disk : FileIds(disk[y]) \subseteq FileIds(e[y])
  BY <1>4 DEF Keeps, Continues, FileIds
<1>8. ASSUME NEW m \in VarIds(disk) PROVE m \in VarIds(e)
  <2>1. PICK y \in {z \in DOMAIN disk : InVar(z)} : m \in FileIds(disk[y])
    BY <1>8, IdsOf DEF VarIds
  <2>2. y \in {z \in DOMAIN e : InVar(z)} /\ m \in FileIds(e[y])
    BY <1>4, <1>7, <2>1
  <2> QED
    BY <2>2, IdsOf DEF VarIds
<1>9. ASSUME NEW m \in FileIds(g) PROVE m \in VarIds(e)
  <2>1. x \in {z \in DOMAIN e : InVar(z)} /\ m \in FileIds(e[x])
    BY <1>1, <1>4, <1>9 DEF InVar
  <2> QED
    BY <2>1, IdsOf DEF VarIds
<1> QED
  BY <1>2, <1>3, <1>5, <1>6, <1>8, <1>9

\* Two tasks and one are three.
LEMMA ThreeListed ==
    ASSUME NEW T, NEW r \in T, NEW v \in T, NEW c \in T, NEW a, a = <<r, v>> \o <<c>>
    PROVE  a \in Seq(T) /\ DOMAIN a = 1..3 /\ a[1] = r /\ a[2] = v /\ a[3] = c /\ a # <<>>
<1>1. PICK b : b = <<r, v>>
  OBVIOUS
<1>2. PICK d : d = <<c>>
  OBVIOUS
<1>3. b \in Seq(T) /\ Len(b) = 2 /\ b[1] = r /\ b[2] = v
  BY <1>1
<1>4. d \in Seq(T) /\ Len(d) = 1 /\ d[1] = c
  BY <1>2
<1>5. a = b \o d
  BY <1>1, <1>2
<1>6. a \in Seq(T)
  BY <1>3, <1>4, <1>5
<1>7. Len(a) = 3
  BY <1>3, <1>4, <1>5
<1>8. DOMAIN a = 1..3
  BY <1>6, <1>7
<1>9. a[1] = r
  BY <1>3, <1>4, <1>5, <1>8
<1>10. a[2] = v
  BY <1>3, <1>4, <1>5, <1>8
<1>11. a[3] = c
  BY <1>3, <1>4, <1>5, <1>8
<1>12. a # <<>>
  BY <1>6, <1>7
<1> QED
  BY <1>6, <1>8, <1>9, <1>10, <1>11, <1>12

\* The second attempt follows a rotation: the entry stays the next one.
LEMMA CopyAgain ==
    ASSUME ServerInv, todo # <<>>, up, Head(todo).do \in {"copy", "recopy"},
           flush.left # {},
           UNCHANGED <<up, open, flush, seqnum, clock, ids, msgs, acked, gone, scope>>,
           todo' = RotateAndVacuum \o <<Task("recopy")>> \o Rest,
           DiskOK(disk', ids', {}), OpenFound', OpenShape', Saved \subseteq Saved',
           Kept(disk, disk', GoneIds'), NoneNew(disk, disk')
    PROVE  ServerInv'
<1>1. TodoOK /\ AckOK /\ BasicsOK /\ FlushOK /\ Len(msgs) \in Nat
  BY MsgsCounted DEF ServerInv
<1>2. \A j \in DOMAIN todo : j # 1 => Ordinary(todo[j])
  BY <1>1, RestOrdinary
<1>3. PICK r, v, c : r = Task("rotate") /\ v = Task("vacuum") /\ c = Task("recopy")
  OBVIOUS
<1>4. "rotate" \in Jobs /\ "vacuum" \in Jobs /\ "recopy" \in Jobs
  BY DEF Jobs
<1>5. /\ r \in Tasks /\ r.do = "rotate" /\ r.id = 0 /\ v \in Tasks /\ v.do = "vacuum" /\ v.id = 0
      /\ c \in Tasks /\ c.do = "recopy" /\ c.id = 0
  BY <1>3, <1>4, MadeTask
<1>6. PICK a : a = <<r, v>> \o <<c>>
  OBVIOUS
<1>7. a \in Seq(Tasks) /\ DOMAIN a = 1..3 /\ a[1] = r /\ a[2] = v /\ a[3] = c /\ a # <<>>
  BY <1>5, <1>6, ThreeListed
<1>8. todo' = a \o Rest
  BY <1>3, <1>6 DEF RotateAndVacuum
<1>9. InOrder(a)
  <2>1. MayPrecede(r, v) /\ MayPrecede(r, c) /\ MayPrecede(v, c)
    BY <1>5 DEF MayPrecede
  <2>2. \A i, j \in 1..3 : i < j => (i = 1 /\ j = 2) \/ (i = 1 /\ j = 3) \/ (i = 2 /\ j = 3)
    OBVIOUS
  <2> QED
    BY <1>7, <2>1, <2>2 DEF InOrder
<1>10. \A i \in DOMAIN a : TaskOK(a[i])'
  <2>1. TaskOK(r)' /\ TaskOK(v)' /\ TaskOK(c)'
    BY <1>1, <1>5 DEF TaskOK
  <2> QED
    BY <1>7, <2>1
<1>11. \A i \in DOMAIN a, j \in DOMAIN todo : j # 1 => MayPrecede(a[i], todo[j])
  BY <1>2 DEF Ordinary, MayPrecede
<1>12. \A j \in DOMAIN todo : j # 1 /\ todo[j].do \in {"rename", "create"} =>
             \A l \in Locs : l = todo[j].loc /\ IsOpen(l) => IsOpen(l)'
  BY <1>2 DEF Ordinary
<1>13. /\ FirstOK' => TodoOK'
       /\ \A i \in DOMAIN todo' : \/ i \in DOMAIN a /\ todo'[i] = a[i]
                                  \/ \E j \in DOMAIN todo : j # 1 /\ todo'[i] = todo[j]
       /\ todo' # <<>> /\ Head(todo)' = a[1]
  <2>1. up' /\ msgs' = msgs
    OBVIOUS
  <2> QED
    BY <1>7, <1>8, <1>9, <1>10, <1>11, <1>12, <2>1, PushTodo
<1>14. FirstOK' /\ Pending' = {}
  BY <1>5, <1>7, <1>13 DEF FirstOK, First, Pending
<1>15. TodoOK'
  BY <1>13, <1>14
<1>16. AckOK' /\ BasicsOK'
  BY <1>1, AcksKept DEF BasicsOK
<1>17. OpenOK'
  BY DEF OpenOK, OpenShape, OpenFound
<1>18. FlushOK'
  <2>1. PICK e : e = disk'
    OBVIOUS
  <2>2. PICK G : G = GoneIds'
    OBVIOUS
  <2>3. VarIds(disk) \subseteq VarIds(e) \cup G /\ RuntimeIds(e) \subseteq RuntimeIds(disk)
    BY <2>1, <2>2, KeptIds, NoneNewIds
  <2>4. VarIds(disk)' = VarIds(e) /\ RuntimeIds(disk)' = RuntimeIds(e)
    BY <2>1 DEF VarIds, RuntimeIds
  <2>5. G = GoneIds
    BY <2>2 DEF GoneIds
  <2>6. Flushing
    <3>1. 1 \in DOMAIN todo /\ Head(todo) = todo[1]
      BY HeadOK
    <3> QED
      BY <3>1 DEF Flushing
  <2>7. ~flush.err =>
          RuntimeIds(disk) \subseteq Accounted(flush) \cup VarIds(disk) \cup GoneIds
    BY <1>1, <2>6 DEF FlushOK
  <2>8. (~flush.err =>
          RuntimeIds(disk) \subseteq Accounted(flush) \cup VarIds(disk) \cup GoneIds)'
    BY <2>2, <2>3, <2>4, <2>5, <2>7
  <2>9. flush' \in Flushes /\ flush'.left # {}
    BY <1>1 DEF FlushOK
  <2> QED
    BY <2>8, <2>9 DEF FlushOK
<1> QED
  BY <1>14, <1>15, <1>16, <1>17, <1>18 DEF ServerInv

\* journal_file_copy_entry(), whether it succeeds or not.
LEMMA CopyKeeps ==
    ASSUME ServerInv, todo # <<>>, up, Head(todo).do \in {"copy", "recopy"}, IsOpen(System),
           UNCHANGED <<up, open, seqnum, clock, ids, msgs, acked, gone, scope>>,
           flush.left # {}, NEW again \in BOOLEAN, Copy(again)
    PROVE  ServerInv'
<1>1. ~First("create") /\ Head(todo).do \notin {"rotate", "vacuum", "rename", "create"}
  BY DEF First
<1>2. DiskOK(disk, ids, {}) /\ OpenFound /\ OpenShape
  BY <1>1, AllFound
<1>3. PICK x : x = Active(System)
  OBVIOUS
<1>4. x \in DOMAIN disk /\ x.kind = "active" /\ open.system
  BY <1>2, <1>3, SystemOpen, NamesOK DEF OpenFound, Locs
<1>5. PICK f : f = disk[x]
  OBVIOUS
<1>6. FileOK(x, f) /\ f.tail \in Nat
  BY <1>2, <1>4, <1>5, Numbers DEF DiskOK
<1>7. flush \in Flushes
  BY DEF ServerInv, FlushOK
<1>8. PICK e : e = NextLeft
  OBVIOUS
<1>9. e \in flush.left /\ e \in Left
  BY <1>7, <1>8, NextLeftListed DEF Flushes
<1>10. e.id \in Nat /\ e.at \in Nat
  BY <1>9 DEF Left
<1>11. PICK g : g = Appended(f, e.id, e.at, f.tail + 1)
  OBVIOUS
<1>12. FileOK(x, g) /\ Continues(f, g) /\ e.id \in FileIds(g)
  <2>1. PICK seq \in Nat : seq = f.tail + 1 /\ seq > f.tail
    BY <1>6
  <2>2. g = Appended(f, e.id, e.at, seq)
    BY <1>11, <2>1
  <2> QED
    BY <1>4, <1>6, <1>10, <2>1, <2>2, AppendedContinues
<1>13. PICK h : h = SetOnline(f)
  OBVIOUS
<1>14. FileOK(x, h) /\ Keeps(f, h)
  BY <1>6, <1>13, SetOnlineKeeps
<1>15. PICK rest : rest = flush.left \ {e}
  OBVIOUS
<1>16. PICK finish, copy : finish = Task("finish") /\ copy = Task("copy")
  OBVIOUS
<1>17. finish \in Tasks /\ finish.do = "finish" /\ finish.id = 0
       /\ copy \in Tasks /\ copy.do = "copy" /\ copy.id = 0
  <2>1. "finish" \in Jobs /\ "copy" \in Jobs
    BY DEF Jobs
  <2> QED
    BY <1>16, <2>1, MadeTask
<1>18. ASSUME \/ disk' = disk
              \/ disk' = [disk EXCEPT ![x] = g]
              \/ disk' = [disk EXCEPT ![x] = h]
       PROVE  /\ DiskOK(disk', ids', {}) /\ OpenFound' /\ OpenShape' /\ Saved \subseteq Saved'
              /\ Kept(disk, disk', GoneIds') /\ NoneNew(disk, disk')
  <2>1. CASE disk' = disk
    <3>1. DiskOK(disk', ids', {}) /\ OpenFound' /\ OpenShape'
      BY <1>2, <2>1 DEF OpenFound, OpenShape, IsOpen
    <3> QED
      BY <2>1, <3>1, DiskStays
  <2>2. CASE disk' = [disk EXCEPT ![x] = g]
    BY <1>1, <1>3, <1>4, <1>5, <1>12, <2>2, CopyFiles
  <2>3. CASE disk' = [disk EXCEPT ![x] = h]
    BY <1>1, <1>3, <1>4, <1>5, <1>14, <2>3, CopyFiles
  <2> QED
    BY <1>18, <2>1, <2>2, <2>3
<1>19. CASE /\ disk' = [disk EXCEPT ![x] = g] /\ flush' = [flush EXCEPT !.left = rest]
            /\ todo' = <<copy>> \o Rest
  <2>1. flush' \in Flushes /\ flush'.left = rest /\ flush'.err = flush.err
    BY <1>7, <1>15, <1>19 DEF Flushes
  <2>2. /\ VarIds(disk) \cup FileIds(g) \subseteq VarIds(disk')
        /\ RuntimeIds(disk') \subseteq RuntimeIds(disk)
    BY <1>1, <1>3, <1>4, <1>5, <1>12, <1>19, CopyFiles
  <2>3. flush.err \/ RuntimeIds(disk) \subseteq Accounted(flush) \cup VarIds(disk) \cup GoneIds
    <3>1. 1 \in DOMAIN todo /\ Head(todo) = todo[1]
      BY HeadOK
    <3>2. Flushing
      BY <3>1 DEF Flushing
    <3> QED
      BY <3>2 DEF ServerInv, FlushOK
  <2>4. Accounted(flush) \subseteq Accounted(flush') \cup {e.id}
    <3>1. flush'.left = rest /\ flush'.unread = flush.unread
      BY <1>7, <1>19 DEF Flushes
    <3> QED
      BY <1>15, <3>1 DEF Accounted
  <2>5. flush'.err \/ RuntimeIds(disk') \subseteq Accounted(flush')
                                                   \cup VarIds(disk') \cup GoneIds
    BY <1>12, <2>1, <2>2, <2>3, <2>4
  <2> QED
    BY <1>1, <1>4, <1>17, <1>18, <1>19, <2>1, <2>5, FlushStep
<1>20. CASE /\ \/ disk' = disk
               \/ disk' = [disk EXCEPT ![x] = g]
               \/ disk' = [disk EXCEPT ![x] = h]
            /\ todo' = <<finish>> \o Rest
            /\ flush' = [[flush EXCEPT !.left = rest] EXCEPT !.err = TRUE]
  <2>1. flush' \in Flushes /\ flush'.err
    BY <1>7, <1>15, <1>20 DEF Flushes
  <2> QED
    BY <1>1, <1>17, <1>18, <1>20, <2>1, FlushStep
<1>21. CASE /\ \/ disk' = disk
               \/ disk' = [disk EXCEPT ![x] = g]
               \/ disk' = [disk EXCEPT ![x] = h]
            /\ todo' = RotateAndVacuum \o <<Task("recopy")>> \o Rest
            /\ flush' = flush
  BY <1>18, <1>21, CopyAgain
<1>22. \/ /\ disk' = [disk EXCEPT ![x] = g] /\ flush' = [flush EXCEPT !.left = rest]
          /\ todo' = <<copy>> \o Rest
       \/ /\ \/ disk' = disk
             \/ disk' = [disk EXCEPT ![x] = g]
             \/ disk' = [disk EXCEPT ![x] = h]
          /\ \/ /\ todo' = <<finish>> \o Rest
                /\ flush' = [[flush EXCEPT !.left = rest] EXCEPT !.err = TRUE]
             \/ /\ todo' = RotateAndVacuum \o <<Task("recopy")>> \o Rest
                /\ flush' = flush
  BY <1>3, <1>5, <1>8, <1>11, <1>13, <1>15, <1>16 DEF Copy
<1> QED
  BY <1>19, <1>20, <1>21, <1>22

\* The loop of server_flush_to_var().
LEMMA CopyEntryKeeps ==
    ASSUME ServerInv, CopyEntry, scope' = scope
    PROVE  ServerInv'
<1>1. /\ UNCHANGED <<up, open, seqnum, clock, ids, msgs, acked, gone, scope>>
      /\ todo # <<>> /\ up /\ Head(todo).do \in {"copy", "recopy"}
  BY DEF CopyEntry, Doing
<1>2. ~First("create") /\ Head(todo).do \notin {"rotate", "vacuum", "rename", "create"}
  BY <1>1 DEF First
<1>3. DiskOK(disk, ids, {}) /\ OpenFound /\ OpenShape
  BY <1>2, AllFound
<1>4. 1 \in DOMAIN todo /\ Head(todo) = todo[1]
  BY <1>1, HeadOK
<1>5. flush \in Flushes
  BY DEF ServerInv, FlushOK
<1>6. flush.err \/ RuntimeIds(disk) \subseteq Accounted(flush) \cup VarIds(disk) \cup GoneIds
  <2>1. Flushing
    BY <1>1, <1>4 DEF Flushing
  <2> QED
    BY <2>1 DEF ServerInv, FlushOK
<1>7. ASSUME disk' = disk, todo' = <<Task("finish")>> \o Rest,
             \/ flush' = flush /\ flush.left = {}
             \/ flush' = [flush EXCEPT !.err = TRUE]
      PROVE  ServerInv'
  <2>1. PICK t : t = Task("finish")
    OBVIOUS
  <2>2. "finish" \in Jobs
    BY DEF Jobs
  <2>3. t \in Tasks /\ t.do = "finish" /\ t.id = 0
    BY <2>1, <2>2, MadeTask
  <2>4. todo' = <<t>> \o Rest
    BY <1>7, <2>1
  <2>5. DiskOK(disk', ids', {}) /\ OpenFound' /\ OpenShape'
    BY <1>1, <1>3, <1>7 DEF OpenFound, OpenShape, IsOpen
  <2>6. Saved \subseteq Saved'
    BY <1>1, <1>7, DiskStays
  <2>7. /\ flush' \in Flushes
        /\ flush'.err \/ (flush'.left = {} /\ flush' = flush)
    BY <1>5, <1>7 DEF Flushes
  <2>8. flush'.err \/ RuntimeIds(disk') \subseteq Accounted(flush')
                                                   \cup VarIds(disk') \cup GoneIds
    BY <1>6, <1>7, <2>7
  <2> QED
    BY <1>1, <1>2, <2>3, <2>4, <2>5, <2>6, <2>7, <2>8, FlushStep
<1>8. CASE /\ Doing("copy") /\ flush.left = {} /\ disk' = disk /\ flush' = flush
           /\ todo' = <<Task("finish")>> \o Rest
  BY <1>7, <1>8
<1>9. CASE Doing("copy") /\ flush.left # {} /\ Copy(TRUE)
  <2>2. First("copy")
    BY <1>9 DEF Doing, First
  <2>3. open.system
    BY <2>2 DEF ServerInv, TodoOK, FirstOK
  <2>4. IsOpen(System)
    BY <1>3, <2>3, SystemOpen
  <2> QED
    BY <1>1, <1>9, <2>4, CopyKeeps
<1>12. CASE /\ Doing("copy") /\ disk' = disk /\ todo' = <<Task("copy")>> \o Rest
            /\ \E missed \in PassedOver(flush.left) :
                 flush' = [flush EXCEPT !.left = @ \ missed,
                                        !.unread = @ \cup {e.id : e \in missed}]
  <2>1. PICK missed \in PassedOver(flush.left) :
          flush' = [flush EXCEPT !.left = @ \ missed,
                                 !.unread = @ \cup {e.id : e \in missed}]
    BY <1>12
  <2>2. PICK w, v : w = flush /\ v = flush'
    OBVIOUS
  <2>3. w \in Flushes /\ missed \in SUBSET w.left /\ PassesOver(w, v, missed)
    BY <1>5, <2>1, <2>2, PassedOverLeft DEF PassesOver
  <2>4. v \in Flushes /\ v.err = w.err /\ Accounted(w) \subseteq Accounted(v)
    BY <2>3, StillAccounted
  <2>5. DiskOK(disk', ids', {}) /\ OpenFound' /\ OpenShape' /\ open.system
    <3>1. First("copy")
      BY <1>12 DEF Doing, First
    <3> QED
      BY <1>1, <1>3, <1>12, <3>1 DEF OpenFound, OpenShape, IsOpen, ServerInv, TodoOK, FirstOK
  <2>6. Saved \subseteq Saved'
    BY <1>1, <1>12, DiskStays
  <2>7. flush'.err \/ RuntimeIds(disk') \subseteq Accounted(flush') \cup VarIds(disk') \cup GoneIds
    BY <1>6, <1>12, <2>2, <2>4
  <2>8. PICK t : t = Task("copy")
    OBVIOUS
  <2>9. t \in Tasks /\ t.do = "copy" /\ t.id = 0 /\ todo' = <<t>> \o Rest
    <3>1. "copy" \in Jobs
      BY DEF Jobs
    <3> QED
      BY <1>12, <2>8, <3>1, MadeTask
  <2> QED
    BY <1>1, <1>2, <2>2, <2>4, <2>5, <2>6, <2>7, <2>9, FlushStep
<1>10. CASE Doing("recopy") /\ IsOpen(System)
  <2>1. Copy(FALSE)
    BY <1>10 DEF CopyEntry, Doing
  <2>2. flush.left # {}
    BY <1>4, <1>10 DEF ServerInv, FlushOK, Doing
  <2> QED
    BY <1>1, <1>10, <2>1, <2>2, CopyKeeps
<1>11. CASE Doing("recopy") /\ ~IsOpen(System)
  BY <1>7, <1>11 DEF CopyEntry, Doing
<1> QED
  BY <1>8, <1>9, <1>10, <1>11, <1>12 DEF CopyEntry

\* The runtime journal is removed when all of it is in /var, or gone.
LEMMA FinishFlushKeeps ==
    ASSUME ServerInv, FinishFlush, scope' = scope
    PROVE  ServerInv'
<1>1. /\ UNCHANGED <<up, seqnum, clock, ids, msgs, acked, scope>>
      /\ todo # <<>> /\ up /\ Head(todo).do = "finish" /\ IsOpen(Runtime)
      /\ open' = Shut(Runtime) /\ todo' = <<Driver>> \o Rest /\ flush' = NoFlush
      /\ gone \subseteq gone'
  BY DEF FinishFlush, Doing
<1>2. ~First("create") /\ Head(todo).do \notin {"rotate", "vacuum", "rename", "create"}
  BY <1>1 DEF First
<1>3. DiskOK(disk, ids, {}) /\ ids \in Nat /\ OpenFound /\ OpenShape /\ Len(msgs) \in Nat
  BY <1>2, AllFound
<1>4. Runtime \in Locs
  BY DEF Locs
<1>5. OpenShape' /\ \A l \in Locs : IsOpen(l)' <=> IsOpen(l) /\ l # Runtime
  BY <1>1, <1>3, <1>4, ShutOpen
<1>6. PICK n \in Nat : n = ids /\ n >= n
  BY <1>3
<1>7. DiskOK(disk, n, {})
  BY <1>3, <1>6
<1>8. ASSUME DiskOK(disk', n, {}), Saved \subseteq Saved',
             \A l \in Locs : l # Runtime /\ Active(l) \in DOMAIN disk => Active(l) \in DOMAIN disk'
      PROVE  ServerInv'
  <2>1. OpenFound'
    BY <1>3, <1>5, <1>8 DEF OpenFound
  <2>2. "write" \in Jobs \ {"create", "copy", "offline", "finish", "recopy", "rename"}
    BY DEF Jobs
  <2>3. Driver \in Plain
    BY <2>2, PlainTasks DEF Driver
  <2>4. Driver \in Fit'
    <3>1. Ordinary(Driver) /\ TaskOK(Driver)' /\ Driver \in Tasks
      BY <1>1, <1>3, <2>3, PlainOK DEF Plain
    <3> QED
      BY <3>1 DEF Fit
  <2>5. PICK a : a = <<Driver>>
    OBVIOUS
  <2>6. PICK F : F = Fit'
    OBVIOUS
  <2>7. a \in Seq(F)
    BY <2>4, <2>5, <2>6
  <2>8. flush' \in Flushes /\ seqnum' \in Nat
    BY <1>1 DEF NoFlush, ServerInv, BasicsOK, Flushes
  <2>9. DiskOK(disk', ids', {}) /\ ids' \in Nat
    BY <1>1, <1>6, <1>8
  <2> QED
    BY <1>1, <1>2, <1>5, <1>8, <2>1, <2>5, <2>6, <2>7, <2>8, <2>9, FitPush
<1>9. CASE flush.err
  <2>1. PICK x : x = Active(Runtime)
    OBVIOUS
  <2>2. PICK g : g = SetOffline(disk[x])
    OBVIOUS
  <2>3. x \in DOMAIN disk => FileOK(x, g) /\ Keeps(disk[x], g)
    BY <1>3, <2>2, SetOfflineKeeps DEF DiskOK
  <2>4. PICK e : e = [disk EXCEPT ![x] = g]
    OBVIOUS
  <2>5. disk' = e /\ DOMAIN e = DOMAIN disk
    BY <1>9, <2>1, <2>2, <2>4 DEF FinishFlush
  <2>6. DiskOK(e, n, {})
    BY <1>6, <1>7, <2>3, <2>4, Replaced
  <2>7. x \in DOMAIN disk => FileIds(disk[x]) \subseteq FileIds(g)
    BY <2>3 DEF Keeps, FileIds
  <2>8. PICK G : G = GoneIds'
    OBVIOUS
  <2>9. Kept(disk, e, G)
    BY <2>4, <2>7, KeptReplacing
  <2>10. Saved \subseteq Saved'
    BY <1>1, <2>5, <2>8, <2>9, SavedKept
  <2> QED
    BY <1>8, <2>5, <2>6, <2>10
<1>10. CASE ~flush.err
  <2>1. PICK names : names = {x \in DOMAIN disk : ~InVar(x)}
    OBVIOUS
  <2>2. PICK e : e = Without(disk, names)
    OBVIOUS
  <2>3. disk' = e
    BY <1>10, <2>1, <2>2 DEF FinishFlush
  <2>4. DOMAIN e = DOMAIN disk \ names /\ \A x \in DOMAIN e : e[x] = disk[x]
    BY <2>2 DEF Without
  <2>5. DiskOK(e, n, {})
    <3>1. \A x \in DOMAIN disk : Grows(x, {}) => Grows(x, {})
      OBVIOUS
    <3>2. DiskOK(Without(disk, names), n, {})
      BY <1>6, <1>7, <3>1, Removing
    <3> QED
      BY <2>2, <3>2
  <2>6. RuntimeIds(disk) \subseteq flush.unread \cup VarIds(disk) \cup GoneIds
    <3>1. 1 \in DOMAIN todo /\ Head(todo) = todo[1]
      BY <1>1, HeadOK
    <3>2. Flushing /\ First("finish")
      BY <1>1, <3>1 DEF Flushing, First
    <3>3. flush.left = {}
      BY <1>10, <3>2 DEF ServerInv, TodoOK, FirstOK
    <3>4. RuntimeIds(disk) \subseteq Accounted(flush) \cup VarIds(disk) \cup GoneIds
      BY <1>10, <3>2 DEF ServerInv, FlushOK
    <3>5. Accounted(flush) = flush.unread
      BY <3>3 DEF Accounted
    <3> QED
      BY <3>4, <3>5
  <2>7. VarIds(disk) \subseteq Ids(e, DOMAIN e)
    <3> SUFFICES ASSUME NEW m \in VarIds(disk) PROVE m \in Ids(e, DOMAIN e)
      OBVIOUS
    <3>1. PICK y \in {z \in DOMAIN disk : InVar(z)} : m \in FileIds(disk[y])
      BY IdsOf DEF VarIds
    <3>2. y \in DOMAIN e /\ m \in FileIds(e[y])
      BY <2>1, <2>4, <3>1
    <3> QED
      BY <3>2, IdsOf
  <2>8. ASSUME NEW m \in Ids(disk, DOMAIN disk) PROVE m \in RuntimeIds(disk) \cup VarIds(disk)
    <3>1. PICK y \in DOMAIN disk : m \in FileIds(disk[y])
      BY <2>8, IdsOf
    <3>2. CASE InVar(y)
      BY <3>1, <3>2, IdsOf DEF VarIds
    <3>3. CASE ~InVar(y)
      BY <3>1, <3>3, IdsOf DEF RuntimeIds
    <3> QED
      BY <3>2, <3>3
  <2>9. Saved \subseteq Saved'
    <3>1. PICK I : I = Ids(e, DOMAIN e)
      OBVIOUS
    <3>2. gone' = gone \cup [id : flush.unread \ I, why : {"unread"}]
      BY <1>10, <2>3, <3>1 DEF FinishFlush, Ids
    <3>3. GoneIds \cup (flush.unread \ I) \subseteq GoneIds'
      <4>1. GoneIds \subseteq GoneIds'
        BY <3>2 DEF GoneIds
      <4>2. ASSUME NEW m \in flush.unread \ I PROVE m \in GoneIds'
        <5>1. [id |-> m, why |-> "unread"] \in gone'
          BY <3>2, <4>2
        <5>2. [id |-> m, why |-> "unread"].id = m
          OBVIOUS
        <5> QED
          BY <5>1, <5>2 DEF GoneIds
      <4> QED
        BY <4>1, <4>2
    <3>4. PICK G : G = GoneIds'
      OBVIOUS
    <3>5. Saved' = I \cup G
      BY <2>3, <3>1, <3>4 DEF Saved, Ids
    <3> QED
      BY <2>6, <2>7, <2>8, <3>1, <3>3, <3>4, <3>5 DEF Saved
  <2>10. \A l \in Locs : l # Runtime /\ Active(l) \in DOMAIN disk => Active(l) \in DOMAIN e
    <3>1. \A l \in Locs : Active(l).loc = l
      BY NamesOK
    <3> QED
      BY <2>1, <2>4, <3>1 DEF InVar
  <2> QED
    BY <1>8, <2>3, <2>5, <2>9, <2>10
<1> QED
  BY <1>9, <1>10

-----------------------------------------------------------------------------
(* The invariant, and what follows from it                                 *)

\* In the beginning there are no files.
LEMMA InitOK == ASSUME ServerInit PROVE ServerInv
<1>1. PICK d : d = <<>>
  OBVIOUS
<1>2. disk = d /\ DOMAIN d = {}
  BY <1>1 DEF ServerInit
<1>3. todo = <<>> /\ todo \in Seq(Tasks) /\ DOMAIN todo = {}
  BY DEF ServerInit
<1>4. ~First("create") /\ ~First("offline") /\ ~First("copy") /\ ~First("finish")
  BY <1>3 DEF First
<1>5. DiskOK(disk, ids, Pending)
  BY <1>2 DEF DiskOK, Chained
<1>6. OpenOK
  <2>1. PICK u : u = open.users
    OBVIOUS
  <2>2. u = <<>> /\ u \in Seq(Users) /\ Len(u) = 0 /\ DOMAIN u = {} /\ USER_JOURNALS_MAX \in Nat
        /\ open.runtime = FALSE /\ open.system = FALSE
    BY <2>1, JournaldAssumption DEF ServerInit, NoJournals
  <2>3. open \in [runtime : BOOLEAN, system : BOOLEAN, users : Seq(Users)]
    BY <2>1, <2>2 DEF ServerInit, NoJournals
  <2>4. IsInjective(u) /\ Len(u) <= USER_JOURNALS_MAX
    BY <2>2 DEF IsInjective
  <2>5. \A loc \in Locs : ~IsOpen(loc)
    BY <2>1, <2>2 DEF IsOpen
  <2> QED
    BY <2>1, <2>3, <2>4, <2>5 DEF OpenOK
<1>7. TodoOK
  BY <1>3, <1>4 DEF TodoOK, InOrder, FirstOK
<1>8. FlushOK
  <2>1. flush \in Flushes /\ ~Flushing
    BY <1>3 DEF ServerInit, NoFlush, Flushing, Flushes
  <2> QED
    BY <1>3, <2>1 DEF FlushOK
<1>9. AckOK
  BY DEF ServerInit, AckOK
<1>10. BasicsOK
  <2>1. msgs \in Seq([uid : Users \cup {"root"}, pri : Nat])
    BY DEF ServerInit
  <2> QED
    BY <2>1 DEF ServerInit, BasicsOK
<1> QED
  BY <1>5, <1>6, <1>7, <1>8, <1>9, <1>10 DEF ServerInv

\* Nothing happens.
LEMMA StutterKeeps ==
    ASSUME ServerInv, UNCHANGED serverVars
    PROVE  ServerInv'
<1>1. UNCHANGED <<disk, up, open, todo, flush, seqnum, clock, ids, msgs, acked, gone, scope>>
  BY DEF serverVars
<1>2. /\ Pending' = Pending /\ (OpenOK <=> OpenOK') /\ (TodoOK <=> TodoOK')
      /\ (FlushOK <=> FlushOK') /\ (AckOK <=> AckOK') /\ (BasicsOK <=> BasicsOK')
  <2>1. (AckOK <=> AckOK') /\ (BasicsOK <=> BasicsOK') /\ Pending' = Pending
    BY <1>1 DEF AckOK, BasicsOK, Saved, GoneIds, Pending, First
  <2>2. OpenOK <=> OpenOK'
    BY <1>1 DEF OpenOK, IsOpen, First
  <2>3. TodoOK <=> TodoOK'
    BY <1>1 DEF TodoOK, TaskOK, FirstOK, First, IsOpen, Saved, GoneIds
  <2>4. FlushOK <=> FlushOK'
    BY <1>1 DEF FlushOK, Flushing, GoneIds
  <2> QED
    BY <2>1, <2>2, <2>3, <2>4
<1> QED
  BY <1>1, <1>2 DEF ServerInv

\* Every step keeps the invariant.
LEMMA NextKeeps ==
    ASSUME ServerInv, ServerNext
    PROVE  ServerInv'
<1>1. scope' = scope
  BY DEF ServerNext
<1>2. CASE Write \/ WriteAgain
  BY <1>1, <1>2, WriteKeeps
<1>3. CASE WriteReturns
  BY <1>1, <1>3, ReturnKeeps
<1>4. CASE Rotate
  BY <1>1, <1>4, RotateKeeps
<1>5. CASE RotateRename
  BY <1>1, <1>5, RotateRenameKeeps
<1>6. CASE RotateCreate
  BY <1>1, <1>6, RotateCreateKeeps
<1>7. CASE Vacuum
  BY <1>1, <1>7, VacuumKeeps
<1>8. CASE Sync
  BY <1>1, <1>8, SyncKeeps
<1>9. CASE SyncFile
  BY <1>1, <1>9, SyncFileKeeps
<1>10. CASE Synced
  BY <1>1, <1>10, SyncedKeeps
<1>11. CASE Turn
  BY <1>1, <1>11, TurnKeeps
<1>12. CASE Loop
  BY <1>1, <1>12, LoopKeeps
<1>13. CASE OpenSystem
  BY <1>1, <1>13, OpenSystemKeeps
<1>14. CASE OpenRuntime
  BY <1>1, <1>14, OpenRuntimeKeeps
<1>15. CASE Space
  BY <1>1, <1>15, SpaceKeeps
<1>16. CASE Flush
  BY <1>1, <1>16, FlushKeeps
<1>17. CASE BeginFlush
  BY <1>1, <1>17, BeginFlushKeeps
<1>18. CASE CopyEntry
  BY <1>1, <1>18, CopyEntryKeeps
<1>19. CASE FinishFlush
  BY <1>1, <1>19, FinishFlushKeeps
<1>20. CASE FlushFaults \/ Kill
  BY <1>1, <1>20, KillKeeps
<1>21. CASE Done
  BY <1>1, <1>21, DoneKeeps
<1>22. CASE Start
  BY <1>1, <1>22, StartKeeps
<1>23. CASE \E uid \in scope.users \cup {"root"} : Receive(uid, scope.level)
  BY <1>1, <1>23, ReceiveKeeps
<1>24. CASE SIGUSR1 \/ SIGUSR2 \/ SIGTERM
  BY <1>1, <1>24, SignalsKeep
<1>25. CASE PowerLoss
  BY <1>1, <1>25, PowerLossKeeps
<1>26. CASE Tick
  BY <1>1, <1>26, TickKeeps
<1> QED
  BY <1>2, <1>3, <1>4, <1>5, <1>6, <1>7, <1>8, <1>9, <1>10, <1>11, <1>12, <1>13, <1>14,
     <1>15, <1>16, <1>17, <1>18, <1>19, <1>20, <1>21, <1>22, <1>23, <1>24, <1>25, <1>26
  DEF ServerNext, ServerStep

\* The inductive invariant of the server: the files, the open journals, the tasks
\* that wait and the flush at work fit together between any two steps of any
\* handler, through kills and losses of power.
THEOREM ServerInvariant == ServerSpec => []ServerInv
<1>1. ServerInit => ServerInv
  BY InitOK
<1>2. ServerInv /\ [ServerNext]_serverVars => ServerInv'
  BY NextKeeps, StutterKeeps
<1> QED
  BY <1>1, <1>2, PTL DEF ServerSpec

\* Every journal that is open has its file, unless it is being rotated, and the
\* user journals stay within USER_JOURNALS_MAX, as find_journal() makes room.
THEOREM ServerTypes == ServerSpec => []ServerTypeOK
<1>1. ServerInv => ServerTypeOK
  <2> SUFFICES ASSUME ServerInv PROVE ServerTypeOK
    OBVIOUS
  <2>1. ASSUME NEW x \in DOMAIN disk
        PROVE  /\ x.loc \in Locs /\ x.kind \in {"active", "archived", "corrupted"}
               /\ disk[x].state \in disk[x].ondisk
               /\ disk[x].synced \in 0..Len(disk[x].entries)
    <3>1. x \in FileNames /\ FileOK(x, disk[x])
      BY DEF ServerInv, DiskOK
    <3>2. PICK f : f = disk[x]
      OBVIOUS
    <3>3. f \in File /\ f.state \in f.ondisk /\ f.synced <= Len(f.entries)
      BY <3>1, <3>2 DEF FileOK
    <3>4. f.synced \in 0..Len(f.entries)
      BY <3>3 DEF File
    <3> QED
      BY <3>1, <3>2, <3>3, <3>4 DEF FileNames
  <2>2. \A loc \in Locs : IsOpen(loc) =>
         \/ Active(loc) \in DOMAIN disk
         \/ todo # <<>> /\ Head(todo).do = "create" /\ Head(todo).loc = loc
    BY DEF ServerInv, OpenOK, First
  <2>3. /\ \A i, j \in DOMAIN open.users : open.users[i] = open.users[j] => i = j
        /\ Len(open.users) <= USER_JOURNALS_MAX
    BY DEF ServerInv, OpenOK, IsInjective
  <2>4. {a.id : a \in acked} \subseteq DOMAIN msgs
    BY MsgsCounted DEF ServerInv, AckOK
  <2> QED
    BY <2>1, <2>2, <2>3, <2>4 DEF ServerTypeOK
<1> QED
  BY <1>1, ServerInvariant, PTL

\* A file that is found marked offline after a loss of power has all its entries:
\* journal_file_set_offline() syncs them before the mark, and
\* journal_file_set_online() takes it away before the next one.
THEOREM OfflineFilesIntact == ServerSpec => []OfflineIntact
<1>1. ServerInv => OfflineIntact
  BY DEF ServerInv, DiskOK, FileOK, OfflineIntact
<1> QED
  BY <1>1, ServerInvariant, PTL

\* The numbers of all entries that share a seqnum_id are ordered, in a file and
\* between files, whatever rotations, flushes, failures and restarts there were.
THEOREM SeqnumsAlwaysIncrease == ServerSpec => []SeqnumsIncrease
<1>1. ServerInv => SeqnumsIncrease
  <2> SUFFICES ASSUME ServerInv, NEW x \in DOMAIN disk, NEW y \in DOMAIN disk,
                      disk[x].seqid = disk[y].seqid
               PROVE  LET seq(z, i) == disk[z].entries[i].seq IN
                      /\ x = y => \A i, j \in Entries(x) : i < j => seq(x, i) < seq(x, j)
                      /\ x # y =>
                           \/ \A i \in Entries(x), j \in Entries(y) : seq(x, i) < seq(y, j)
                           \/ \A i \in Entries(x), j \in Entries(y) : seq(y, j) < seq(x, i)
    BY DEF SeqnumsIncrease
  <2>1. DiskOK(disk, ids, Pending)
    BY DEF ServerInv
  <2>2. \A i, j \in Entries(x) : i < j => disk[x].entries[i].seq < disk[x].entries[j].seq
    BY <2>1 DEF DiskOK, FileOK, Entries
  <2>3. x # y => Below(Seqs(disk[x]), Seqs(disk[y])) \/ Below(Seqs(disk[y]), Seqs(disk[x]))
    BY <2>1 DEF DiskOK, Chained
  <2>4. /\ \A i \in Entries(x) : disk[x].entries[i].seq \in Seqs(disk[x])
        /\ \A j \in Entries(y) : disk[y].entries[j].seq \in Seqs(disk[y])
    BY DEF Entries, Seqs
  <2> QED
    BY <2>2, <2>3, <2>4 DEF Below
<1> QED
  BY <1>1, ServerInvariant, PTL

\* A message that write_to_journal() has stored is found in some file as long as
\* no loss of power cuts it off, its file is neither deleted by the vacuuming nor
\* replaced by a rename, and server_flush_to_var() could read it: a flush removes
\* the runtime journal only when all messages of it are in /var, except those of
\* files that sd-journal passed over because it could not open or read them.
THEOREM NothingIsLost == ServerSpec => []NothingLost
<1>1. ServerInv => NothingLost
  BY DEF ServerInv, AckOK, Saved, GoneIds, NothingLost
<1> QED
  BY <1>1, ServerInvariant, PTL

-----------------------------------------------------------------------------
(* Severe messages: the invariant                                          *)

\* The messages of a file that are on disk for certain.
SafeIds(f) == {f.entries[i].id : i \in 1..f.synced}

OnDisk(d, m) == \E x \in DOMAIN d : InVar(x) /\ m \in SafeIds(d[x])

Mark(m) == [id |-> m, why |-> "deleted"]

Durable(m) == OnDisk(disk, m) \/ Mark(m) \in gone

Syncing == {"sync", "set_offline", "offline", "fsync", "synced"}

\* The return of a write that has to be on disk before.
Severe(t) == t.do = "return" /\ t.loc # Runtime /\ t.id # 0 /\ Priority(t.id) <= 2

Holds(loc, m) == Active(loc) \in DOMAIN disk /\ m \in FileIds(disk[Active(loc)])

\* A write returns after its sync at once; until then its message is on disk, or the
\* file that has it is open and still to be synced.
ReturnOK(j) ==
    /\ \A i \in DOMAIN todo : i < j => todo[i].do \in Syncing
    /\ Severe(todo[j]) =>
         \/ Durable(todo[j].id)
         \/ /\ Holds(todo[j].loc, todo[j].id)
            /\ \/ First("sync") /\ sync.seqnum < seqnum /\ IsOpen(todo[j].loc)
               \/ \E i \in DOMAIN todo : /\ i < j /\ todo[i].do = "set_offline"
                                         /\ todo[i].loc = todo[j].loc

ReturnsOK == \A j \in DOMAIN todo : todo[j].do = "return" => ReturnOK(j)

SyncedOK == sync.seqnum \in Nat /\ sync.seqnum <= seqnum

SyncInv == ServerInv /\ SyncedOK /\ ReturnsOK /\ CritDurable

-----------------------------------------------------------------------------
(* What the operations on a file leave on disk                             *)

\* Entries on disk are entries, and all of them if the file is synced.
LEMMA SafeOf ==
    ASSUME NEW x, NEW f, FileOK(x, f)
    PROVE  /\ SafeIds(f) \subseteq FileIds(f) /\ f.synced \in Nat /\ f.synced <= Len(f.entries)
           /\ f.synced = Len(f.entries) => SafeIds(f) = FileIds(f)
<1>1. PICK s \in Seq(Entry) : s = f.entries
  BY DEF FileOK, File
<1>2. PICK n \in Nat : n = Len(s) /\ DOMAIN s = 1..n
  BY <1>1
<1>3. PICK k \in Nat : k = f.synced /\ k <= n
  BY <1>1, <1>2 DEF FileOK, File
<1>4. FileIds(f) = {s[i].id : i \in 1..n} /\ SafeIds(f) = {s[i].id : i \in 1..k}
  BY <1>1, <1>2, <1>3 DEF FileIds, SafeIds
<1>5. \A i \in 1..k : i \in 1..n
  BY <1>3
<1>6. SafeIds(f) \subseteq FileIds(f)
  BY <1>4, <1>5
<1> QED
  BY <1>1, <1>2, <1>3, <1>4, <1>6

\* A file that keeps its first entries and has as many on disk is as safe.
LEMMA AsSafe ==
    ASSUME NEW f, NEW g, NEW k \in Nat, k = f.synced, NEW n \in Nat, n = g.synced, k <= n,
           \A i \in 1..k : g.entries[i] = f.entries[i]
    PROVE  SafeIds(f) \subseteq SafeIds(g)
<1>1. \A i \in 1..k : i \in 1..n
  OBVIOUS
<1>2. SafeIds(f) = {f.entries[i].id : i \in 1..k} /\ SafeIds(g) = {g.entries[i].id : i \in 1..n}
  BY DEF SafeIds
<1> QED
  BY <1>1, <1>2

\* After fsync() every message of the file is on disk.
LEMMA FsyncSafe ==
    ASSUME NEW x, NEW f, FileOK(x, f), NEW g, g = Fsync(f)
    PROVE  SafeIds(f) \subseteq SafeIds(g) /\ SafeIds(g) = FileIds(f) /\ FileOK(x, g)
<1>1. FileOK(x, g) /\ Keeps(f, g) /\ g.synced = Len(g.entries)
  BY FsyncKeeps
<1>2. SafeIds(g) = FileIds(g)
  BY <1>1, SafeOf
<1>3. FileIds(g) = FileIds(f)
  BY <1>1 DEF Keeps, FileIds
<1> QED
  BY <1>1, <1>2, <1>3, SafeOf

\* A new state changes nothing.
LEMMA SetStateSafe ==
    ASSUME NEW f, f \in File, NEW st, NEW g, g = SetState(f, st)
    PROVE  SafeIds(g) = SafeIds(f)
<1>1. g.entries = f.entries /\ g.synced = f.synced
  BY DEF SetState, File
<1> QED
  BY <1>1 DEF SafeIds

\* journal_file_set_online()
LEMMA SetOnlineSafe ==
    ASSUME NEW x, NEW f, FileOK(x, f), NEW g, g = SetOnline(f)
    PROVE  SafeIds(f) \subseteq SafeIds(g) /\ FileOK(x, g) /\ Keeps(f, g)
<1>1. FileOK(x, g) /\ Keeps(f, g)
  BY SetOnlineKeeps
<1>2. CASE f.state = "offline"
  <2>1. f \in File /\ Len(f.entries) \in Nat
    BY DEF FileOK, File
  <2>2. PICK h : h = SetState(f, "online")
    OBVIOUS
  <2>3. h.entries = f.entries /\ h \in File
    BY <2>1, <2>2 DEF SetState, File, States
  <2>4. g = Fsync(h)
    BY <1>2, <2>2 DEF SetOnline
  <2>5. g.synced = Len(g.entries)
    BY <2>3, <2>4 DEF Fsync, File
  <2>6. SafeIds(g) = FileIds(g) /\ FileIds(g) = FileIds(f)
    BY <1>1, <2>5, SafeOf DEF Keeps, FileIds
  <2> QED
    BY <1>1, <2>6, SafeOf
<1>3. CASE f.state # "offline"
  BY <1>1, <1>3 DEF SetOnline
<1> QED
  BY <1>2, <1>3

\* journal_file_set_offline()
LEMMA SetOfflineSafe ==
    ASSUME NEW x, NEW f, FileOK(x, f), NEW g, g = SetOffline(f)
    PROVE  SafeIds(f) \subseteq SafeIds(g) /\ FileOK(x, g)
<1>1. FileOK(x, g) /\ Keeps(f, g)
  BY SetOfflineKeeps
<1>2. CASE f.state = "online"
  <2>1. PICK h : h = SetState(Fsync(f), "offline")
    OBVIOUS
  <2>2. g = Fsync(h)
    BY <1>2, <2>1 DEF SetOffline
  <2>3. g.synced = Len(g.entries)
    <3>1. PICK k : k = Fsync(f)
      OBVIOUS
    <3>2. k \in File /\ h = SetState(k, "offline")
      BY <2>1, <3>1, FsyncKeeps DEF FileOK
    <3>3. h \in File
      BY <3>2 DEF SetState, File, States
    <3> QED
      BY <2>2, <3>3 DEF Fsync, File
  <2>4. SafeIds(g) = FileIds(g) /\ FileIds(g) = FileIds(f)
    BY <1>1, <2>3, SafeOf DEF Keeps, FileIds
  <2> QED
    BY <1>1, <2>4, SafeOf
<1>3. CASE f.state # "online"
  BY <1>1, <1>3 DEF SetOffline
<1> QED
  BY <1>2, <1>3

\* One more entry leaves those on disk alone.
LEMMA AppendedSafe ==
    ASSUME NEW x, NEW f, FileOK(x, f), NEW id \in Nat, NEW at \in Nat, NEW seq \in Nat,
           NEW g, g = Appended(f, id, at, seq)
    PROVE  SafeIds(f) \subseteq SafeIds(g)
<1>1. PICK h : h = SetOnline(f)
  OBVIOUS
<1>2. SafeIds(f) \subseteq SafeIds(h) /\ FileOK(x, h)
  BY <1>1, SetOnlineSafe
<1>3. PICK s \in Seq(Entry) : s = h.entries
  BY <1>2 DEF FileOK, File
<1>4. PICK e : e = [id |-> id, at |-> at, seq |-> seq]
  OBVIOUS
<1>5. PICK k \in Nat : k = h.synced /\ k <= Len(s)
  BY <1>2, <1>3, SafeOf
<1>6. g.entries = Append(s, e) /\ g.synced = k
  BY <1>1, <1>2, <1>3, <1>4, <1>5 DEF Appended, FileOK, File
<1>7. \A i \in 1..k : g.entries[i] = h.entries[i]
  BY <1>3, <1>5, <1>6
<1>8. k <= k
  OBVIOUS
<1>9. SafeIds(h) \subseteq SafeIds(g)
  BY <1>5, <1>6, <1>7, <1>8, AsSafe
<1> QED
  BY <1>2, <1>9

\* What is on disk survives a loss of power.
LEMMA CutSafe ==
    ASSUME NEW x, NEW f, FileOK(x, f), NEW st, NEW n \in Nat, f.synced <= n, n <= Len(f.entries),
           NEW g, g = Cut(f, n, st)
    PROVE  SafeIds(f) \subseteq SafeIds(g)
<1>1. PICK s \in Seq(Entry) : s = f.entries
  BY DEF FileOK, File
<1>2. PICK k \in Nat : k = f.synced /\ k <= n
  BY SafeOf
<1>3. g.entries = SubSeq(s, 1, n) /\ g.synced = n
  BY <1>1 DEF Cut, FileOK, File
<1>4. n <= Len(s)
  BY <1>1
<1>5. \A i \in 1..n : SubSeq(s, 1, n)[i] = s[i]
  BY <1>1, <1>4
<1>6. \A i \in 1..k : g.entries[i] = f.entries[i]
  BY <1>1, <1>2, <1>3, <1>5
<1> QED
  BY <1>2, <1>3, <1>6, AsSafe

-----------------------------------------------------------------------------
(* What a change of the directory leaves on disk                           *)

\* What the journals in use have on disk is on disk in e, too.
Shelters(d, e) ==
    \A x \in DOMAIN d : x.kind = "active" /\ InVar(x) =>
        \E y \in DOMAIN e : InVar(y) /\ SafeIds(d[x]) \subseteq SafeIds(e[y])

\* A file is replaced by one that is as safe.
LEMMA ReplacedSafe ==
    ASSUME NEW d, NEW x, NEW g, x \in DOMAIN d => SafeIds(d[x]) \subseteq SafeIds(g),
           NEW e, e = [d EXCEPT ![x] = g]
    PROVE  (\A m : OnDisk(d, m) => OnDisk(e, m)) /\ Shelters(d, e)
<1>1. DOMAIN e = DOMAIN d /\ \A y \in DOMAIN d : e[y] = IF y = x THEN g ELSE d[y]
  OBVIOUS
<1>2. \A y \in DOMAIN d : SafeIds(d[y]) \subseteq SafeIds(e[y])
  BY <1>1
<1> QED
  BY <1>1, <1>2 DEF OnDisk, Shelters

\* The messages of the files that were not in use are on disk as before, or
\* their file is gone.
LEMMA ShelteredSafe ==
    ASSUME \A x \in DOMAIN disk : FileOK(x, disk[x]), NEW e, Shelters(disk, e), NEW G,
           gone \cup Deleted(e) \subseteq G, NEW m, OnDisk(disk, m)
    PROVE  OnDisk(e, m) \/ Mark(m) \in G
<1>1. PICK x \in DOMAIN disk : InVar(x) /\ m \in SafeIds(disk[x])
  BY DEF OnDisk
<1>2. CASE x.kind = "active"
  <2>1. PICK y \in DOMAIN e : InVar(y) /\ SafeIds(disk[x]) \subseteq SafeIds(e[y])
    BY <1>1, <1>2 DEF Shelters
  <2> QED
    BY <1>1, <2>1 DEF OnDisk
<1>3. CASE x.kind # "active" /\ x \in DOMAIN e /\ e[x] = disk[x]
  BY <1>1, <1>3 DEF OnDisk
<1>4. CASE x.kind # "active" /\ (x \notin DOMAIN e \/ e[x] # disk[x])
  <2> DEFINE S == {z \in DOMAIN disk : z.kind # "active" /\ (z \notin DOMAIN e \/ e[z] # disk[z])}
  <2>1. x \in S
    BY <1>4
  <2>2. m \in FileIds(disk[x])
    BY <1>1, SafeOf
  <2>3. m \in Ids(disk, S)
    BY <2>1, <2>2, IdsOf
  <2>4. Mark(m) \in Deleted(e)
    BY <2>3 DEF Deleted, Mark
  <2> QED
    BY <2>4
<1> QED
  BY <1>2, <1>3, <1>4

\* A renamed journal is as safe as before.
LEMMA RenamedSafe ==
    ASSUME NEW d, NEW x, NEW to, to.loc = x.loc, to.kind # "active", x.kind = "active",
           NEW e, e = Renamed(d, x, to)
    PROVE  Shelters(d, e) /\ x \notin DOMAIN e
<1>1. to # x
  OBVIOUS
<1>2. /\ DOMAIN e = (DOMAIN d \ {x}) \cup {to} /\ e[to] = d[x]
      /\ \A y \in DOMAIN e : y # to => e[y] = d[y]
  BY DEF Renamed, With, Without
<1>3. ASSUME NEW y \in DOMAIN d, y.kind = "active", InVar(y)
      PROVE  \E z \in DOMAIN e : InVar(z) /\ SafeIds(d[y]) \subseteq SafeIds(e[z])
  <2>1. CASE y = x
    <3>1. to \in DOMAIN e /\ InVar(to) /\ e[to] = d[y]
      BY <1>2, <1>3, <2>1 DEF InVar
    <3> QED
      BY <3>1
  <2>2. CASE y # x
    <3>1. y # to
      BY <1>3
    <3>2. y \in DOMAIN e /\ e[y] = d[y]
      BY <1>2, <2>2, <3>1
    <3> QED
      BY <1>3, <3>2
  <2> QED
    BY <2>1, <2>2
<1> QED
  BY <1>1, <1>2, <1>3 DEF Shelters

\* A file put aside is as safe as before.
LEMMA PutAsideSafe ==
    ASSUME NEW d, NEW loc \in Locs, clock \in Nat
    PROVE  /\ Shelters(d, PutAside(d, loc))
           /\ Active(loc) \in DOMAIN PutAside(d, loc) => PutAside(d, loc) = d
<1>1. CASE Refused(d, loc)
  <2>1. PICK x : x = Active(loc)
    OBVIOUS
  <2>2. PICK to : to = Name(loc, "corrupted", clock)
    OBVIOUS
  <2>3. to.loc = x.loc /\ to.kind # "active" /\ x.kind = "active"
    BY <2>1, <2>2 DEF Active, Name
  <2>4. PICK e : e = PutAside(d, loc)
    OBVIOUS
  <2>5. e = Renamed(d, x, to)
    BY <1>1, <2>1, <2>2, <2>4 DEF PutAside
  <2>6. Shelters(d, e) /\ x \notin DOMAIN e
    BY <2>3, <2>5, RenamedSafe
  <2> QED
    BY <2>1, <2>4, <2>6
<1>2. CASE ~Refused(d, loc)
  <2>1. PutAside(d, loc) = d
    BY <1>2 DEF PutAside
  <2> QED
    BY <2>1 DEF Shelters
<1> QED
  BY <1>1, <1>2

\* journal_file_open_reliably(), with every outcome.
LEMMA OpeningSafe ==
    ASSUME NEW d, NEW loc \in Locs, \A x \in DOMAIN d : FileOK(x, d[x]), clock \in Nat,
           NEW e, e = OpenReliably(d, loc) \/ e \in OpenFailures(d, loc)
    PROVE  Shelters(d, e)
<1>1. PICK x : x = Active(loc)
  OBVIOUS
<1>2. PICK a : a = PutAside(d, loc)
  OBVIOUS
<1>3. Shelters(d, a) /\ (x \in DOMAIN a => a = d)
  BY <1>1, <1>2, PutAsideSafe
<1>4. ASSUME NEW g, x \in DOMAIN a => SafeIds(a[x]) \subseteq SafeIds(g), e = With(a, x, g)
      PROVE  Shelters(d, e)
  <2>1. \A y \in DOMAIN a : y \in DOMAIN e /\ SafeIds(a[y]) \subseteq SafeIds(e[y])
    <3>1. DOMAIN e = DOMAIN a \cup {x} /\ \A y \in DOMAIN e : e[y] = IF y = x THEN g ELSE a[y]
      BY <1>4 DEF With
    <3> QED
      BY <1>4, <3>1
  <2> QED
    BY <1>3, <2>1 DEF Shelters
<1>5. PICK f : f = Fsync(SetOnline(a[x]))
  OBVIOUS
<1>6. ASSUME x \in DOMAIN a PROVE SafeIds(a[x]) \subseteq SafeIds(f)
  <2>1. FileOK(x, a[x])
    BY <1>3, <1>6
  <2>2. PICK g : g = SetOnline(a[x])
    OBVIOUS
  <2>3. SafeIds(a[x]) \subseteq SafeIds(g) /\ FileOK(x, g)
    BY <2>1, <2>2, SetOnlineSafe
  <2>4. SafeIds(g) \subseteq SafeIds(f)
    BY <1>5, <2>2, <2>3, FsyncSafe
  <2> QED
    BY <2>3, <2>4
<1>7. \/ e = d
      \/ e = a
      \/ x \in DOMAIN a /\ e = With(a, x, f)
      \/ x \notin DOMAIN a /\ \E g : e = With(a, x, g)
  BY <1>1, <1>2, <1>5 DEF OpenReliably, OpenFailures
<1>8. Shelters(d, d)
  BY DEF Shelters
<1> QED
  BY <1>3, <1>4, <1>6, <1>7, <1>8

\* The user journal that find_journal() closes is synced.
LEMMA RoomSafe ==
    ASSUME \A x \in DOMAIN disk : FileOK(x, disk[x]), NEW d, d = RoomDisk
    PROVE  /\ DOMAIN d = DOMAIN disk
           /\ \A x \in DOMAIN d : FileOK(x, d[x]) /\ SafeIds(disk[x]) \subseteq SafeIds(d[x])
<1>1. CASE Full
  <2>1. PICK x : x = Active(Head(open.users))
    OBVIOUS
  <2>2. PICK g : g = SetOffline(disk[x])
    OBVIOUS
  <2>3. d = [disk EXCEPT ![x] = g]
    BY <1>1, <2>1, <2>2 DEF RoomDisk
  <2>4. x \in DOMAIN disk => FileOK(x, g) /\ SafeIds(disk[x]) \subseteq SafeIds(g)
    BY <2>2, SetOfflineSafe
  <2>5. DOMAIN d = DOMAIN disk /\ \A y \in DOMAIN disk : d[y] = IF y = x THEN g ELSE disk[y]
    BY <2>3
  <2> QED
    BY <2>4, <2>5
<1>2. CASE ~Full
  BY <1>2 DEF RoomDisk
<1> QED
  BY <1>1, <1>2

\* find_journal(): what was on disk is, and the journal it returns is open.
LEMMA FindJournalSafe ==
    ASSUME ServerInv, ~First("create"), NEW uid, NEW r \in FindJournal(uid), open' = r.open
    PROVE  Shelters(disk, r.disk) /\ (r.loc # "" /\ r.loc # Runtime => IsOpen(r.loc)')
<1>1. DiskOK(disk, ids, {}) /\ OpenShape /\ clock \in Nat
  BY AllFound DEF ServerInv, BasicsOK
<1>2. \A x \in DOMAIN disk : FileOK(x, disk[x])
  BY <1>1 DEF DiskOK
<1>3. Shelters(disk, disk)
  BY DEF Shelters
<1>4. PICK fallback : fallback = IF IsOpen(System) THEN System ELSE ""
  OBVIOUS
<1>5. System \notin Users /\ System # Runtime
  BY JournaldAssumption DEF Runtime, System
<1>6. IsOpen(System) => open.system
  BY <1>1, <1>5 DEF IsOpen, OpenShape
<1>7. CASE RuntimeOnly
  <2>1. r = [loc |-> Runtime, disk |-> disk, open |-> open, used |-> used]
    BY <1>7 DEF FindJournal
  <2> QED
    BY <1>3, <2>1
<1>8. CASE ~RuntimeOnly /\ uid \notin Users
  <2>1. r = [loc |-> fallback, disk |-> disk, open |-> open, used |-> used]
    BY <1>4, <1>8 DEF FindJournal
  <2>2. r.disk = disk /\ r.loc = fallback /\ open' = open
    BY <2>1
  <2>3. fallback # "" => fallback = System /\ open.system
    BY <1>4, <1>6
  <2>4. r.loc # "" => IsOpen(r.loc)'
    BY <2>2, <2>3 DEF IsOpen
  <2> QED
    BY <1>3, <2>2, <2>4
<1>9. CASE ~RuntimeOnly /\ uid \in Users /\ IsOpen(uid)
  <2>1. r = [loc |-> uid, disk |-> disk, open |-> open, used |-> used]
    BY <1>9 DEF FindJournal
  <2>2. r.disk = disk /\ r.loc = uid /\ open' = open
    BY <2>1
  <2>3. IsOpen(r.loc)'
    BY <1>9, <2>2 DEF IsOpen
  <2> QED
    BY <1>3, <2>2, <2>3
<1>10. CASE ~RuntimeOnly /\ uid \in Users /\ ~IsOpen(uid)
  <2>1. PICK d : d = RoomDisk
    OBVIOUS
  <2>2. PICK o : o = RoomOpen
    OBVIOUS
  <2>3. /\ o \in [runtime : BOOLEAN, system : BOOLEAN, users : Seq(Users)]
        /\ o.system = open.system
    BY <2>1, <2>2, MakeRoom
  <2>4. /\ DOMAIN d = DOMAIN disk
        /\ \A x \in DOMAIN d : FileOK(x, d[x]) /\ SafeIds(disk[x]) \subseteq SafeIds(d[x])
    BY <1>2, <2>1, RoomSafe
  <2>5. \/ /\ r = [loc |-> uid, disk |-> OpenReliably(d, uid),
                   open |-> [o EXCEPT !.users = Append(@, uid)], used |-> used]
        \/ \E e \in OpenFailures(d, uid) :
             r = [loc |-> fallback, disk |-> e, open |-> o, used |-> Failed]
    BY <1>4, <1>10, <2>1, <2>2 DEF FindJournal, RoomDisk, RoomOpen
  <2>6. PICK e : e = r.disk
    OBVIOUS
  <2>7. e = OpenReliably(d, uid) \/ e \in OpenFailures(d, uid)
    BY <2>5, <2>6
  <2>8. uid \in Locs
    BY <1>10 DEF Locs
  <2>9. Shelters(d, e)
    BY <1>1, <2>4, <2>7, <2>8, OpeningSafe
  <2>10. Shelters(disk, e)
    BY <2>4, <2>9 DEF Shelters
  <2>11. CASE r = [loc |-> uid, disk |-> OpenReliably(d, uid),
                   open |-> [o EXCEPT !.users = Append(@, uid)], used |-> used]
    <3>1. PICK u \in Seq(Users) : u = o.users
      BY <2>3
    <3>2. PICK v : v = Append(u, uid)
      OBVIOUS
    <3>3. open' = [o EXCEPT !.users = v] /\ r.loc = uid
      BY <2>11, <3>1, <3>2
    <3>4. open'.users = v
      BY <2>3, <3>3
    <3>5. Len(v) \in DOMAIN v /\ v[Len(v)] = uid
      BY <1>10, <3>1, <3>2
    <3>6. IsOpen(r.loc)'
      BY <3>3, <3>4, <3>5 DEF IsOpen
    <3> QED
      BY <2>6, <2>10, <3>6
  <2>12. CASE \E h \in OpenFailures(d, uid) :
                r = [loc |-> fallback, disk |-> h, open |-> o, used |-> Failed]
    <3>1. r.loc = fallback /\ open' = o
      BY <2>12
    <3>2. fallback # "" => fallback = System /\ open.system
      BY <1>4, <1>6
    <3>3. r.loc # "" => IsOpen(r.loc)'
      BY <2>3, <3>1, <3>2 DEF IsOpen
    <3> QED
      BY <2>6, <2>10, <3>3
  <2> QED
    BY <2>5, <2>11, <2>12
<1> QED
  BY <1>7, <1>8, <1>9, <1>10

-----------------------------------------------------------------------------
(* Steps after which no write is about to return                           *)

NoReturn == {t \in Tasks : t.do # "return"}

\* What the properties say, in terms of the invariant.
LEMMA SevereAcks ==
    /\ CritDurable <=> \A a \in acked : a.loc # Runtime /\ Priority(a.id) <= 2 => Durable(a.id)
    /\ CritDurable' <=>
         \A a \in acked' : a.loc # Runtime /\ Priority(a.id)' <= 2 => Durable(a.id)'
BY DEF CritDurable, Durable, OnDisk, SafeIds, Mark

\* What is durable stays durable.
Preserves == \A m : Durable(m) => Durable(m)'

\* If the disk keeps what it has, or the history says that it is deleted.
LEMMA KeptDurable ==
    ASSUME gone \subseteq gone', NEW e, disk' = e,
           \A m : OnDisk(disk, m) => OnDisk(e, m) \/ Mark(m) \in gone'
    PROVE  Preserves
BY DEF Preserves, Durable, OnDisk

\* Messages of acknowledged writes stay on disk.
LEMMA AcksDurable ==
    ASSUME SyncInv, Preserves, acked' = acked, msgs' = msgs
    PROVE  CritDurable'
<1>1. \A m : Priority(m)' = Priority(m)
  BY DEF Priority
<1> QED
  BY <1>1, SevereAcks DEF SyncInv, Preserves

\* The first task is none of a sync: no return is waiting behind it.
LEMMA ReturnsPushed ==
    ASSUME SyncInv, todo # <<>>, Head(todo).do \notin Syncing, NEW a \in Seq(Tasks),
           todo' = a \o Rest, NEW k \in DOMAIN todo', todo'[k].do = "return"
    PROVE  k \in DOMAIN a /\ todo'[k] = a[k]
<1>1. PICK n : n = Len(a)
  OBVIOUS
<1>2. PICK q : q = todo'
  OBVIOUS
<1>3. todo \in Seq(Tasks) /\ q = a \o Tail(todo)
  BY <1>2 DEF SyncInv, ServerInv, TodoOK, Rest
<1>4. \/ k \in DOMAIN a /\ q[k] = a[k]
      \/ k - n + 1 \in DOMAIN todo /\ k - n + 1 # 1 /\ q[k] = todo[k - n + 1]
  BY <1>1, <1>2, <1>3, Pushed
<1>5. ASSUME NEW j \in DOMAIN todo, j # 1, todo[j].do = "return" PROVE FALSE
  <2>1. 1 \in DOMAIN todo /\ 1 < j /\ todo[1] = Head(todo)
    BY <1>3, <1>5
  <2>2. ReturnOK(j)
    BY <1>5 DEF SyncInv, ReturnsOK
  <2> QED
    BY <2>1, <2>2 DEF ReturnOK
<1> QED
  BY <1>2, <1>4, <1>5

\* A step of a task that is none of a sync.
LEMMA OtherStep ==
    ASSUME SyncInv, ServerInv', todo # <<>>, Head(todo).do \notin Syncing,
           NEW a \in Seq(NoReturn), todo' = a \o Rest, Preserves,
           UNCHANGED <<acked, msgs>>, SyncedOK'
    PROVE  SyncInv'
<1>1. a \in Seq(Tasks) /\ \A i \in DOMAIN a : a[i].do # "return"
  BY DEF NoReturn
<1>2. \A k \in DOMAIN todo' : todo'[k].do # "return"
  BY <1>1, ReturnsPushed
<1>3. ReturnsOK'
  BY <1>2 DEF ReturnsOK
<1> QED
  BY <1>3, AcksDurable DEF SyncInv

\* The same if nothing follows in its place.
LEMMA OtherPop ==
    ASSUME SyncInv, ServerInv', todo # <<>>, Head(todo).do \notin Syncing, todo' = Rest,
           Preserves, UNCHANGED <<acked, msgs>>, SyncedOK'
    PROVE  SyncInv'
<1>1. PICK a : a = <<>>
  OBVIOUS
<1>2. Rest \in Seq(Tasks)
  BY DEF SyncInv, ServerInv, TodoOK, Rest
<1>3. a \in Seq(NoReturn) /\ todo' = a \o Rest
  BY <1>1, <1>2
<1> QED
  BY <1>3, OtherStep

\* A step that leaves the daemon with other tasks, or none.
LEMMA FreshStep ==
    ASSUME SyncInv, ServerInv', todo' \in Seq(NoReturn), Preserves,
           UNCHANGED <<acked, msgs>>, SyncedOK'
    PROVE  SyncInv'
<1>1. \A k \in DOMAIN todo' : todo'[k].do # "return"
  BY DEF NoReturn
<1>2. ReturnsOK'
  BY <1>1 DEF ReturnsOK
<1> QED
  BY <1>2, AcksDurable DEF SyncInv

\* The numbers and the disk are as they were.
LEMMA StillSafe ==
    /\ SyncInv /\ UNCHANGED <<sync, seqnum>> => SyncedOK'
    /\ UNCHANGED <<disk, gone>> => Preserves
BY DEF SyncInv, SyncedOK, Preserves, Durable

\* Tasks other than the return of a write.
LEMMA NoReturnTasks ==
    ASSUME NEW do \in Jobs \ {"return"}, NEW loc \in Locs \cup {""}, NEW id \in Nat
    PROVE  Task(do) \in NoReturn /\ TaskOn(do, loc) \in NoReturn /\ TaskFor(do, id) \in NoReturn
<1>1. /\ Task(do) \in Tasks /\ Task(do).do = do
      /\ TaskOn(do, loc) \in Tasks /\ TaskOn(do, loc).do = do
      /\ TaskFor(do, id) \in Tasks /\ TaskFor(do, id).do = do
  BY DEF Task, TaskOn, TaskFor, Tasks
<1> QED
  BY <1>1 DEF NoReturn

\* One of them for each journal.
LEMMA OnEachNoReturn ==
    ASSUME NEW do \in Jobs \ {"return"}, NEW locs \in Seq(Locs)
    PROVE  OnEach(do, locs) \in Seq(NoReturn)
<1>1. PICK n \in Nat : n = Len(locs) /\ DOMAIN locs = 1..n
  OBVIOUS
<1>2. \A i \in 1..n : locs[i] \in Locs
  BY <1>1
<1>3. \A i \in 1..n : TaskOn(do, locs[i]) \in NoReturn
  BY <1>2, NoReturnTasks DEF Jobs
<1>4. OnEach(do, locs) \in [1..n -> NoReturn]
  BY <1>1, <1>3 DEF OnEach
<1> QED
  BY <1>1, <1>4

\* The jobs that are put in front of others.
LEMMA NoReturnJobs ==
    \A do \in Jobs \ {"return"} : Task(do) \in NoReturn
<1>1. "" \in Locs \cup {""} /\ 0 \in Nat
  OBVIOUS
<1> QED
  BY <1>1, NoReturnTasks

\* So is a message of the daemon itself.
LEMMA DriverNoReturn == Driver \in NoReturn
<1>1. "write" \in Jobs \ {"return"} /\ 0 \in Nat /\ "" \in Locs \cup {""}
  BY DEF Jobs
<1> QED
  BY <1>1, NoReturnTasks DEF Driver

\* server_rotate() lists the journals.
LEMMA RotateDurable ==
    ASSUME SyncInv, ServerInv', Rotate
    PROVE  SyncInv'
<1>1. UNCHANGED <<disk, gone, sync, seqnum, acked, msgs>> /\ todo # <<>>
      /\ Head(todo).do = "rotate"
  BY DEF Rotate, Doing
<1>2. PICK o : o = OpenJournals
  OBVIOUS
<1>3. o \in Seq(Locs)
  BY <1>2, VarJournalsListed DEF SyncInv, ServerInv
<1>4. PICK a : a = OnEach("rename", o)
  OBVIOUS
<1>5. "rename" \in Jobs \ {"return"}
  BY DEF Jobs
<1>6. a \in Seq(NoReturn)
  BY <1>3, <1>4, <1>5, OnEachNoReturn
<1>7. todo' = a \o Rest
  BY <1>2, <1>4 DEF Rotate
<1>8. Head(todo).do \notin Syncing
  BY <1>1 DEF Syncing
<1> QED
  BY <1>1, <1>6, <1>7, <1>8, StillSafe, OtherStep

\* The main loop turns.
LEMMA TurnDurable ==
    ASSUME SyncInv, ServerInv', Turn
    PROVE  SyncInv'
<1>1. UNCHANGED <<disk, gone, sync, seqnum, acked, msgs>> /\ todo # <<>>
      /\ Head(todo).do = "turn"
  BY DEF Turn, Doing
<1>2. "sync" \in Jobs \ {"return"} /\ "loop" \in Jobs \ {"return"}
  BY DEF Jobs
<1>3. Task("sync") \in NoReturn /\ Task("loop") \in NoReturn
  BY <1>2, NoReturnJobs
<1>4. PICK a : a = (IF sync.time + SyncInterval > loop THEN <<Task("sync")>> ELSE <<>>)
                     \o <<Task("loop")>>
  OBVIOUS
<1>5. a \in Seq(NoReturn)
  BY <1>3, <1>4
<1>6. todo' = a \o Rest
  BY <1>4 DEF Turn
<1>7. Head(todo).do \notin Syncing
  BY <1>1 DEF Syncing
<1> QED
  BY <1>1, <1>5, <1>6, <1>7, StillSafe, OtherStep

\* The main loop notes the time.
LEMMA LoopDurable ==
    ASSUME SyncInv, ServerInv', Loop
    PROVE  SyncInv'
<1>1. UNCHANGED <<disk, gone, sync, seqnum, acked, msgs>> /\ todo # <<>>
      /\ Head(todo).do = "loop" /\ todo' = Rest
  BY DEF Loop, Doing
<1>2. Head(todo).do \notin Syncing
  BY <1>1 DEF Syncing
<1> QED
  BY <1>1, <1>2, StillSafe, OtherPop

\* available_space() reports.
LEMMA SpaceDurable ==
    ASSUME SyncInv, ServerInv', Space
    PROVE  SyncInv'
<1>1. UNCHANGED <<disk, gone, sync, seqnum, acked, msgs>> /\ todo # <<>>
      /\ Head(todo).do = "space" /\ (todo' = Rest \/ todo' = <<Driver>> \o Rest)
  BY DEF Space, Doing
<1>2. Head(todo).do \notin Syncing
  BY <1>1 DEF Syncing
<1>3. <<Driver>> \in Seq(NoReturn)
  BY DriverNoReturn
<1>4. CASE todo' = Rest
  BY <1>1, <1>2, <1>4, StillSafe, OtherPop
<1>5. CASE todo' = <<Driver>> \o Rest
  BY <1>1, <1>2, <1>3, <1>5, StillSafe, OtherStep
<1> QED
  BY <1>1, <1>4, <1>5

\* server_flush_to_var() begins,
LEMMA FlushDurable ==
    ASSUME SyncInv, ServerInv', Flush
    PROVE  SyncInv'
<1>1. UNCHANGED <<disk, gone, sync, seqnum, acked, msgs>> /\ todo # <<>>
      /\ Head(todo).do = "flush"
  BY DEF Flush, Doing
<1>2. Head(todo).do \notin Syncing
  BY <1>1 DEF Syncing
<1>3. /\ "open_system" \in Jobs \ {"return"} /\ "open_runtime" \in Jobs \ {"return"}
      /\ "space" \in Jobs \ {"return"} /\ "begin" \in Jobs \ {"return"}
  BY DEF Jobs
<1>4. /\ Task("open_system") \in NoReturn /\ Task("open_runtime") \in NoReturn
      /\ Task("space") \in NoReturn /\ Task("begin") \in NoReturn
  BY <1>3, NoReturnJobs
<1>5. PICK a : a = IF IsOpen(Runtime)
                   THEN <<Task("open_system"), Task("open_runtime"), Task("space"),
                          Task("begin")>>
                   ELSE <<>>
  OBVIOUS
<1>6. a \in Seq(NoReturn)
  BY <1>4, <1>5
<1>7. todo' = a \o Rest
  BY <1>5 DEF Flush
<1> QED
  BY <1>1, <1>2, <1>6, <1>7, StillSafe, OtherStep

\* and lists the entries to copy.
LEMMA BeginFlushDurable ==
    ASSUME SyncInv, ServerInv', BeginFlush
    PROVE  SyncInv'
<1>1. UNCHANGED <<disk, gone, sync, seqnum, acked, msgs>> /\ todo # <<>>
      /\ Head(todo).do = "begin" /\ (todo' = Rest \/ todo' = <<Task("copy")>> \o Rest)
  BY DEF BeginFlush, Doing
<1>2. Head(todo).do \notin Syncing
  BY <1>1 DEF Syncing
<1>3. "copy" \in Jobs \ {"return"}
  BY DEF Jobs
<1>4. <<Task("copy")>> \in Seq(NoReturn)
  BY <1>3, NoReturnJobs
<1>5. CASE todo' = Rest
  BY <1>1, <1>2, <1>5, StillSafe, OtherPop
<1>6. CASE todo' = <<Task("copy")>> \o Rest
  BY <1>1, <1>2, <1>4, <1>6, StillSafe, OtherStep
<1> QED
  BY <1>1, <1>5, <1>6

\* main() begins.
LEMMA StartDurable ==
    ASSUME SyncInv, ServerInv', Start
    PROVE  SyncInv'
<1>1. UNCHANGED <<disk, gone, sync, seqnum, acked, msgs>>
      /\ todo' = <<Task("open_system"), Task("open_runtime"), Task("space"),
                   Task("vacuum"), Task("flush"), Driver, Task("loop")>>
  BY DEF Start
<1>2. /\ "open_system" \in Jobs \ {"return"} /\ "open_runtime" \in Jobs \ {"return"}
      /\ "space" \in Jobs \ {"return"} /\ "vacuum" \in Jobs \ {"return"}
      /\ "flush" \in Jobs \ {"return"} /\ "loop" \in Jobs \ {"return"}
  BY DEF Jobs
<1>3. /\ Task("open_system") \in NoReturn /\ Task("open_runtime") \in NoReturn
      /\ Task("space") \in NoReturn /\ Task("vacuum") \in NoReturn
      /\ Task("flush") \in NoReturn /\ Task("loop") \in NoReturn
  BY <1>2, NoReturnJobs
<1>4. todo' \in Seq(NoReturn)
  BY <1>1, <1>3, DriverNoReturn
<1> QED
  BY <1>1, <1>4, StillSafe, FreshStep

\* A signal is dispatched.
LEMMA SignalsDurable ==
    ASSUME SyncInv, ServerInv', SIGUSR1 \/ SIGUSR2 \/ SIGTERM
    PROVE  SyncInv'
<1>1. UNCHANGED <<disk, gone, sync, seqnum, acked, msgs>>
      /\ \/ todo' = <<Task("flush"), Task("sync"), Task("turn")>>
         \/ todo' = <<Task("rotate"), Task("vacuum")>> \o <<Task("turn")>>
         \/ todo' = <<Task("turn"), Task("turn"), Driver, Task("done")>>
  BY DEF SIGUSR1, SIGUSR2, SIGTERM, Signal, RotateAndVacuum
<1>2. /\ "flush" \in Jobs \ {"return"} /\ "sync" \in Jobs \ {"return"}
      /\ "turn" \in Jobs \ {"return"} /\ "vacuum" \in Jobs \ {"return"}
      /\ "rotate" \in Jobs \ {"return"} /\ "done" \in Jobs \ {"return"}
  BY DEF Jobs
<1>3. /\ Task("flush") \in NoReturn /\ Task("sync") \in NoReturn
      /\ Task("turn") \in NoReturn /\ Task("vacuum") \in NoReturn
      /\ Task("rotate") \in NoReturn /\ Task("done") \in NoReturn
  BY <1>2, NoReturnJobs
<1>4. /\ <<Task("flush"), Task("sync"), Task("turn")>> \in Seq(NoReturn)
      /\ <<Task("turn"), Task("turn"), Driver, Task("done")>> \in Seq(NoReturn)
  BY <1>3, DriverNoReturn
<1>5. <<Task("rotate"), Task("vacuum")>> \o <<Task("turn")>> \in Seq(NoReturn)
  <2>1. <<Task("rotate"), Task("vacuum")>> \in Seq(NoReturn) /\ <<Task("turn")>> \in Seq(NoReturn)
    BY <1>3
  <2> QED
    BY <2>1
<1>6. todo' \in Seq(NoReturn)
  BY <1>1, <1>4, <1>5
<1> QED
  BY <1>1, <1>6, StillSafe, FreshStep

\* A message is received: those before it keep their numbers.
LEMMA ReceiveDurable ==
    ASSUME SyncInv, ServerInv', NEW uid, NEW pri, Receive(uid, pri)
    PROVE  SyncInv'
<1>1. UNCHANGED <<disk, gone, sync, seqnum, acked>>
      /\ msgs' = Append(msgs, [uid |-> uid, pri |-> pri])
  BY DEF Receive
<1>2. PICK n \in Nat : n = Len(msgs)
  BY MsgsCounted DEF SyncInv, ServerInv
<1>3. msgs \in Seq([uid : Users \cup {"root"}, pri : Nat])
  BY DEF SyncInv, ServerInv, BasicsOK
<1>4. \A i \in 1..n : msgs'[i] = msgs[i]
  BY <1>1, <1>2, <1>3
<1>5. \A a \in acked : a.id \in 1..n
  BY <1>2 DEF SyncInv, ServerInv, AckOK
<1>6. \A a \in acked : Priority(a.id)' = Priority(a.id)
  BY <1>4, <1>5 DEF Priority
<1>7. CritDurable'
  BY <1>1, <1>6, SevereAcks DEF SyncInv, Durable
<1>8. PICK t : t = TaskFor("write", n + 1)
  OBVIOUS
<1>9. PICK v : v = Task("turn")
  OBVIOUS
<1>10. PICK w : w = Driver
  OBVIOUS
<1>11. t \in NoReturn /\ v \in NoReturn /\ w \in NoReturn
  <2>1. n + 1 \in Nat /\ "" \in Locs \cup {""}
    BY <1>2
  <2>2. "write" \in Jobs \ {"return"} /\ "turn" \in Jobs \ {"return"}
    BY DEF Jobs
  <2> QED
    BY <1>8, <1>9, <1>10, <2>1, <2>2, NoReturnTasks, DriverNoReturn
<1>12. PICK p \in {<<>>, <<w>>} : todo' = p \o <<t, v>>
  BY <1>2, <1>8, <1>9, <1>10 DEF Receive
<1>13. p \in Seq(NoReturn) /\ <<t, v>> \in Seq(NoReturn)
  <2>1. <<t, v>> \in Seq(NoReturn)
    BY <1>11
  <2>2. <<>> \in Seq(NoReturn) /\ <<w>> \in Seq(NoReturn)
    BY <1>11
  <2> QED
    BY <1>12, <2>1, <2>2
<1>14. todo' \in Seq(NoReturn)
  BY <1>12, <1>13
<1>15. \A k \in DOMAIN todo' : todo'[k].do # "return"
  BY <1>14 DEF NoReturn
<1>16. ReturnsOK'
  BY <1>15 DEF ReturnsOK
<1> QED
  BY <1>1, <1>7, <1>16, StillSafe DEF SyncInv

\* Time passes, or nothing at all happens.
LEMMA IdleDurable ==
    ASSUME SyncInv, ServerInv', UNCHANGED <<disk, gone, sync, seqnum, acked, msgs, todo, open>>
    PROVE  SyncInv'
<1>1. SyncedOK' /\ CritDurable'
  BY StillSafe, AcksDurable
<1>2. \A m : (Durable(m)' <=> Durable(m)) /\ Priority(m)' = Priority(m)
  BY DEF Durable, Priority
<1>3. \A l, m : (Holds(l, m)' <=> Holds(l, m)) /\ (IsOpen(l)' <=> IsOpen(l))
  BY DEF Holds, IsOpen
<1>4. \A t : Severe(t)' <=> Severe(t)
  BY <1>2 DEF Severe
<1>5. First("sync")' <=> First("sync")
  BY DEF First
<1>6. ASSUME NEW j \in DOMAIN todo, ReturnOK(j) PROVE ReturnOK(j)'
  BY <1>2, <1>3, <1>4, <1>5, <1>6 DEF ReturnOK
<1>7. ReturnsOK'
  BY <1>6 DEF ReturnsOK, SyncInv
<1> QED
  BY <1>1, <1>7 DEF SyncInv

-----------------------------------------------------------------------------
(* The daemon ends                                                         *)

\* Nothing is left to do.
LEMMA EndedDurable ==
    ASSUME SyncInv, ServerInv', Ended, Preserves
    PROVE  SyncInv'
<1>1. todo' = <<>> /\ seqnum' = 0 /\ sync'.seqnum = 0 /\ UNCHANGED <<acked, msgs>>
  BY DEF Ended
<1>2. todo' \in Seq(NoReturn) /\ SyncedOK'
  BY <1>1 DEF SyncedOK
<1> QED
  BY <1>1, <1>2, FreshStep

\* Killed, or by a failed assertion.
LEMMA KillDurable ==
    ASSUME SyncInv, ServerInv', FlushFaults \/ Kill
    PROVE  SyncInv'
<1>1. Ended /\ UNCHANGED <<disk, gone>>
  BY DEF FlushFaults, Kill
<1> QED
  BY <1>1, StillSafe, EndedDurable

\* server_done() closes the journals.
LEMMA DoneDurable ==
    ASSUME SyncInv, ServerInv', Done
    PROVE  SyncInv'
<1>1. PICK e : e = disk'
  OBVIOUS
<1>2. /\ e = [x \in DOMAIN disk |-> IF x.kind = "active" /\ IsOpen(x.loc) THEN SetOffline(disk[x])
                                                                       ELSE disk[x]]
      /\ Ended /\ gone' = gone
  BY <1>1 DEF Done
<1>3. DiskOK(disk, ids, {})
  BY NothingPending DEF SyncInv
<1>4. \A x \in DOMAIN disk : FileOK(x, disk[x])
  BY <1>3 DEF DiskOK
<1>5. DOMAIN e = DOMAIN disk
  BY <1>2
<1>6. ASSUME NEW x \in DOMAIN disk PROVE SafeIds(disk[x]) \subseteq SafeIds(e[x])
  <2>1. PICK f : f = disk[x]
    OBVIOUS
  <2>2. PICK g : g = SetOffline(f)
    OBVIOUS
  <2>3. SafeIds(f) \subseteq SafeIds(g)
    BY <1>4, <2>1, <2>2, SetOfflineSafe
  <2>4. e[x] = g \/ e[x] = f
    BY <1>2, <2>1, <2>2
  <2> QED
    BY <2>1, <2>3, <2>4
<1>7. \A m : OnDisk(disk, m) => OnDisk(e, m)
  BY <1>5, <1>6 DEF OnDisk
<1>8. Preserves
  BY <1>1, <1>2, <1>7, KeptDurable
<1> QED
  BY <1>2, <1>8, EndedDurable

\* A loss of power leaves what was synced.
LEMMA PowerLossDurable ==
    ASSUME SyncInv, ServerInv', PowerLoss
    PROVE  SyncInv'
<1> DEFINE var == {x \in DOMAIN disk : InVar(x)}
<1>2. PICK e : e = disk'
  OBVIOUS
<1>3. PICK cut \in SUBSET var, state \in [var -> {"online", "offline", "archived"}] :
         /\ \A x \in var : state[x] \in disk[x].ondisk
         /\ e = [x \in var |->
              LET n == IF x \in cut THEN disk[x].synced ELSE Len(disk[x].entries)
              IN  [disk[x] EXCEPT !.entries = SubSeq(@, 1, n), !.synced = n,
                                  !.state = state[x], !.ondisk = {state[x]}]]
  BY <1>2 DEF PowerLoss
<1>4. \A x \in DOMAIN disk : InVar(x) => x \in var
  OBVIOUS
<1> HIDE DEF var
<1>5. gone \subseteq gone' /\ Ended
  BY DEF PowerLoss
<1>6. DiskOK(disk, ids, {})
  BY NothingPending DEF SyncInv
<1>7. \A x \in DOMAIN disk : FileOK(x, disk[x])
  BY <1>6 DEF DiskOK
<1>8. DOMAIN e = var
  BY <1>3
<1>9. ASSUME NEW x \in var, x \in DOMAIN disk PROVE SafeIds(disk[x]) \subseteq SafeIds(e[x])
  <2>1. PICK f : f = disk[x]
    OBVIOUS
  <2>2. PICK n : n = IF x \in cut THEN f.synced ELSE Len(f.entries)
    OBVIOUS
  <2>3. PICK st : st = state[x]
    OBVIOUS
  <2>4. PICK g : g = e[x]
    OBVIOUS
  <2>5. g = Cut(f, n, st)
    BY <1>3, <1>9, <2>1, <2>2, <2>3, <2>4 DEF Cut
  <2>6. FileOK(x, f)
    BY <1>7, <1>9, <2>1
  <2>7. f.synced \in Nat /\ Len(f.entries) \in Nat /\ f.synced <= Len(f.entries)
    BY <2>6 DEF FileOK, File
  <2>8. n \in Nat /\ f.synced <= n /\ n <= Len(f.entries)
    BY <2>2, <2>7
  <2>9. SafeIds(f) \subseteq SafeIds(g)
    BY <2>5, <2>6, <2>8, CutSafe
  <2> QED
    BY <2>1, <2>4, <2>9
<1>10. \A m : OnDisk(disk, m) => OnDisk(e, m)
  BY <1>4, <1>8, <1>9 DEF OnDisk
<1>11. Preserves
  BY <1>2, <1>5, <1>10, KeptDurable
<1> QED
  BY <1>5, <1>11, EndedDurable

-----------------------------------------------------------------------------
(* Files are renamed, opened, filled and deleted                           *)

\* The files are in order.
LEMMA FilesOK ==
    ASSUME SyncInv
    PROVE  \A x \in DOMAIN disk : FileOK(x, disk[x])
BY DEF SyncInv, ServerInv, DiskOK

\* The history has what a change of the disk deletes.
LEMMA ShelteredKept ==
    ASSUME SyncInv, NEW e, disk' = e, Shelters(disk, e), gone' = gone \cup Deleted(e)
    PROVE  Preserves
<1>1. PICK G : G = gone'
  OBVIOUS
<1>2. gone \cup Deleted(e) \subseteq G
  BY <1>1
<1>3. \A m : OnDisk(disk, m) => OnDisk(e, m) \/ Mark(m) \in G
  BY <1>2, FilesOK, ShelteredSafe
<1> QED
  BY <1>1, <1>3, KeptDurable

\* server_vacuum() deletes files that are not in use.
LEMMA VacuumDurable ==
    ASSUME SyncInv, ServerInv', Vacuum
    PROVE  SyncInv'
<1>1. /\ UNCHANGED <<sync, seqnum, acked, msgs>> /\ todo # <<>>
      /\ Head(todo).do = "vacuum" /\ todo' = Rest
  BY DEF Vacuum, Doing
<1>2. PICK e : e = disk'
  OBVIOUS
<1>3. PICK names \in SUBSET DOMAIN disk : /\ \A x \in names : x.kind = "corrupted"
                                          /\ e = Without(disk, names)
                                          /\ gone' = gone \cup Deleted(e)
  BY <1>2 DEF Vacuum
<1>4. \A x \in DOMAIN disk : x \notin names => x \in DOMAIN e /\ e[x] = disk[x]
  BY <1>3 DEF Without
<1>5. Shelters(disk, e)
  BY <1>3, <1>4 DEF Shelters
<1>6. Preserves
  BY <1>2, <1>3, <1>5, ShelteredKept
<1>7. Head(todo).do \notin Syncing
  BY <1>1 DEF Syncing
<1> QED
  BY <1>1, <1>6, <1>7, StillSafe, OtherPop

\* A rotation renames a journal.
LEMMA RenameDurable ==
    ASSUME SyncInv, ServerInv', RotateRename
    PROVE  SyncInv'
<1>1. /\ UNCHANGED <<sync, seqnum, acked, msgs>> /\ todo # <<>>
      /\ Head(todo).do = "rename"
  BY DEF RotateRename, Doing
<1>2. Head(todo).do \notin Syncing
  BY <1>1 DEF Syncing
<1>3. PICK loc : loc = Head(todo).loc
  OBVIOUS
<1>4. PICK at : at = disk[Active(loc)].head
  OBVIOUS
<1>5. PICK x : x = Active(loc)
  OBVIOUS
<1>6. PICK to : to = Name(loc, "archived", at)
  OBVIOUS
<1>7. PICK e : e = Renamed(disk, x, to)
  OBVIOUS
<1>8. CASE /\ disk' = e /\ gone' = gone \cup Deleted(e)
           /\ todo' = <<[TaskOn("create", loc) EXCEPT !.at = at]>> \o Rest
  <2>1. to.loc = x.loc /\ to.kind # "active" /\ x.kind = "active"
    BY <1>5, <1>6 DEF Active, Name
  <2>2. Shelters(disk, e)
    BY <1>7, <2>1, RenamedSafe
  <2>3. Preserves
    BY <1>8, <2>2, ShelteredKept
  <2>4. PICK t : t = [TaskOn("create", loc) EXCEPT !.at = at]
    OBVIOUS
  <2>5. todo' = <<t>> \o Rest /\ t.do = "create"
    BY <1>8, <2>4 DEF TaskOn, Task
  <2>6. t \in Tasks
    <3>1. PICK q : q = todo'
      OBVIOUS
    <3>2. q \in Seq(Tasks)
      BY <3>1 DEF ServerInv, TodoOK
    <3>3. PICK s : s = Rest
      OBVIOUS
    <3>4. s \in Seq(Tasks)
      BY <1>1, <3>3 DEF SyncInv, ServerInv, TodoOK, Rest
    <3>5. q = <<t>> \o s
      BY <2>5, <3>1, <3>3
    <3>6. 1 \in DOMAIN q /\ q[1] = t
      BY <3>4, <3>5
    <3> QED
      BY <3>2, <3>6
  <2>7. <<t>> \in Seq(NoReturn)
    BY <2>5, <2>6 DEF NoReturn
  <2> QED
    BY <1>1, <1>2, <2>3, <2>5, <2>7, StillSafe, OtherStep
<1>9. CASE todo' = Rest /\ UNCHANGED <<disk, gone>>
  BY <1>1, <1>2, <1>9, StillSafe, OtherPop
<1> QED
  BY <1>3, <1>4, <1>5, <1>6, <1>7, <1>8, <1>9 DEF RotateRename

\* A new file takes the place of the renamed one, which has what it had on disk.
LEMMA CreateDurable ==
    ASSUME SyncInv, ServerInv', RotateCreate
    PROVE  SyncInv'
<1>1. /\ UNCHANGED <<sync, seqnum, acked, msgs, gone>> /\ todo # <<>>
      /\ Head(todo).do = "create" /\ todo' = Rest
  BY DEF RotateCreate, Doing
<1>2. Head(todo).do \notin Syncing
  BY <1>1 DEF Syncing
<1>3. PICK loc : loc = Head(todo).loc
  OBVIOUS
<1>4. PICK x : x = Active(loc)
  OBVIOUS
<1>5. PICK old : old = Name(loc, "archived", Head(todo).at)
  OBVIOUS
<1>6. x \notin DOMAIN disk
  BY <1>1, <1>3, <1>4 DEF SyncInv, ServerInv, TodoOK, FirstOK, First
<1>7. PICK g : g = SetOffline(SetState(disk[old], "archived"))
  OBVIOUS
<1>8. PICK d : d = [disk EXCEPT ![old] = g]
  OBVIOUS
<1>9. ASSUME old \in DOMAIN disk PROVE SafeIds(disk[old]) \subseteq SafeIds(g)
  <2>1. PICK f : f = disk[old]
    OBVIOUS
  <2>2. PICK h : h = SetState(f, "archived")
    OBVIOUS
  <2>3. f \in File
    BY <1>9, <2>1, FilesOK DEF FileOK
  <2>4. h.state = "archived"
    BY <2>2, <2>3 DEF SetState, File
  <2>5. g = SetOffline(h)
    BY <1>7, <2>1, <2>2
  <2>6. g = h
    BY <2>4, <2>5 DEF SetOffline
  <2> QED
    BY <2>1, <2>2, <2>3, <2>6, SetStateSafe
<1>10. \A m : OnDisk(disk, m) => OnDisk(d, m)
  BY <1>8, <1>9, ReplacedSafe
<1>11. PICK e : e = disk'
  OBVIOUS
<1>12. e = d \/ \E f : e = With(d, x, f)
  BY <1>3, <1>4, <1>5, <1>7, <1>8, <1>11 DEF RotateCreate
<1>13. \A y \in DOMAIN d : y \in DOMAIN e /\ e[y] = d[y]
  <2>1. CASE e = d
    BY <2>1
  <2>2. CASE \E f : e = With(d, x, f)
    <3>1. PICK f : e = With(d, x, f)
      BY <2>2
    <3>2. x \notin DOMAIN d
      BY <1>6, <1>8
    <3> QED
      BY <3>1, <3>2 DEF With
  <2> QED
    BY <1>12, <2>1, <2>2
<1>14. \A m : OnDisk(disk, m) => OnDisk(e, m)
  BY <1>10, <1>13 DEF OnDisk
<1>15. Preserves
  BY <1>1, <1>11, <1>14, KeptDurable
<1> QED
  BY <1>1, <1>2, <1>15, StillSafe, OtherPop

\* system_journal_open() for the system journal,
LEMMA OpenSystemDurable ==
    ASSUME SyncInv, ServerInv', OpenSystem
    PROVE  SyncInv'
<1>1. /\ UNCHANGED <<sync, seqnum, acked, msgs>> /\ todo # <<>>
      /\ Head(todo).do = "open_system" /\ todo' = Rest
  BY DEF OpenSystem, Doing
<1>2. Head(todo).do \notin Syncing
  BY <1>1 DEF Syncing
<1>3. PICK e : e = disk'
  OBVIOUS
<1>4. \/ UNCHANGED <<disk, gone>>
      \/ /\ e = OpenReliably(disk, System) \/ e \in OpenFailures(disk, System)
         /\ gone' = gone \cup Deleted(e)
  BY <1>3 DEF OpenSystem
<1>5. CASE UNCHANGED <<disk, gone>>
  BY <1>1, <1>2, <1>5, StillSafe, OtherPop
<1>6. CASE /\ e = OpenReliably(disk, System) \/ e \in OpenFailures(disk, System)
           /\ gone' = gone \cup Deleted(e)
  <2>1. System \in Locs /\ clock \in Nat
    BY DEF Locs, SyncInv, ServerInv, BasicsOK
  <2>2. Shelters(disk, e)
    BY <1>6, <2>1, FilesOK, OpeningSafe
  <2>3. Preserves
    BY <1>3, <1>6, <2>2, ShelteredKept
  <2> QED
    BY <1>1, <1>2, <2>3, StillSafe, OtherPop
<1> QED
  BY <1>4, <1>5, <1>6

\* and for the runtime journal.
LEMMA OpenRuntimeDurable ==
    ASSUME SyncInv, ServerInv', OpenRuntime
    PROVE  SyncInv'
<1>1. /\ UNCHANGED <<sync, seqnum, acked, msgs>> /\ todo # <<>>
      /\ Head(todo).do = "open_runtime" /\ (todo' = Rest \/ todo' = <<Task("done")>>)
  BY DEF OpenRuntime, Doing
<1>2. Head(todo).do \notin Syncing
  BY <1>1 DEF Syncing
<1>3. PICK e : e = disk'
  OBVIOUS
<1>4. PICK x : x = Active(Runtime)
  OBVIOUS
<1>5. gone' = gone \cup Deleted(e)
  BY <1>3 DEF OpenRuntime
<1>6. \/ e = disk
      \/ e = OpenReliably(disk, Runtime) \/ e \in OpenFailures(disk, Runtime)
      \/ \E g : e = [disk EXCEPT ![x] = g]
  BY <1>3, <1>4 DEF OpenRuntime
<1>7. Shelters(disk, e)
  <2>1. CASE e = disk
    BY <2>1 DEF Shelters
  <2>2. CASE e = OpenReliably(disk, Runtime) \/ e \in OpenFailures(disk, Runtime)
    <3>1. Runtime \in Locs /\ clock \in Nat
      BY DEF Locs, SyncInv, ServerInv, BasicsOK
    <3> QED
      BY <2>2, <3>1, FilesOK, OpeningSafe
  <2>3. CASE \E g : e = [disk EXCEPT ![x] = g]
    <3>1. DOMAIN e = DOMAIN disk /\ \A y \in DOMAIN disk : y # x => e[y] = disk[y]
      BY <2>3
    <3>2. ~InVar(x)
      BY <1>4 DEF InVar, Active, Name
    <3> QED
      BY <3>1, <3>2 DEF Shelters
  <2> QED
    BY <1>6, <2>1, <2>2, <2>3
<1>8. Preserves
  BY <1>3, <1>5, <1>7, ShelteredKept
<1>9. CASE todo' = Rest
  BY <1>1, <1>2, <1>8, <1>9, StillSafe, OtherPop
<1>10. CASE todo' = <<Task("done")>>
  <2>1. "done" \in Jobs \ {"return"}
    BY DEF Jobs
  <2>2. todo' \in Seq(NoReturn)
    BY <1>10, <2>1, NoReturnJobs
  <2> QED
    BY <1>1, <1>8, <2>2, StillSafe, FreshStep
<1> QED
  BY <1>1, <1>9, <1>10

\* An entry of the runtime journal is copied.
LEMMA CopyDurable ==
    ASSUME SyncInv, ServerInv', CopyEntry
    PROVE  SyncInv'
<1>1. /\ UNCHANGED <<sync, seqnum, acked, msgs, gone>> /\ todo # <<>>
      /\ Head(todo).do \in {"copy", "recopy"}
  BY DEF CopyEntry, Doing
<1>2. Head(todo).do \notin Syncing
  BY <1>1 DEF Syncing
<1>3. PICK x : x = Active(System)
  OBVIOUS
<1>4. PICK f : f = disk[x]
  OBVIOUS
<1>5. PICK e : e = NextLeft
  OBVIOUS
<1>6. PICK g : g = Appended(f, e.id, e.at, f.tail + 1)
  OBVIOUS
<1>7. PICK h : h = SetOnline(f)
  OBVIOUS
<1>8. \/ disk' = disk
      \/ flush.left # {} /\ (disk' = [disk EXCEPT ![x] = g] \/ disk' = [disk EXCEPT ![x] = h])
  <2>1. Head(todo).do = "recopy" => flush.left # {}
    <3>1. 1 \in DOMAIN todo /\ todo[1] = Head(todo)
      BY <1>1, HeadOK DEF SyncInv
    <3> QED
      BY <3>1 DEF SyncInv, ServerInv, FlushOK
  <2>2. CASE \E again \in BOOLEAN : Copy(again)
    <3>1. \/ disk' = disk
          \/ disk' = [disk EXCEPT ![x] = g] \/ disk' = [disk EXCEPT ![x] = h]
      BY <1>3, <1>4, <1>5, <1>6, <1>7, <2>2 DEF Copy
    <3>2. CASE Doing("recopy") \/ flush.left # {}
      BY <2>1, <3>1, <3>2 DEF Doing
    <3>3. CASE ~Doing("recopy") /\ flush.left = {}
      BY <3>3 DEF CopyEntry
    <3> QED
      BY <3>2, <3>3
  <2>3. CASE disk' = disk
    BY <2>3
  <2> QED
    BY <2>2, <2>3 DEF CopyEntry
<1>9. \A m : OnDisk(disk, m) => OnDisk(disk', m)
  <2>1. CASE disk' = disk
    BY <2>1
  <2>2. CASE flush.left # {} /\ (disk' = [disk EXCEPT ![x] = g] \/ disk' = [disk EXCEPT ![x] = h])
    <3>1. ASSUME x \in DOMAIN disk
          PROVE  SafeIds(disk[x]) \subseteq SafeIds(g) /\ SafeIds(disk[x]) \subseteq SafeIds(h)
      <4>1. FileOK(x, f)
        BY <1>4, <3>1, FilesOK
      <4>2. e \in Left
        BY <1>5, <2>2, NextLeftListed DEF SyncInv, ServerInv, FlushOK, Flushes
      <4>3. PICK seq \in Nat : seq = f.tail + 1
        BY <4>1 DEF FileOK, File
      <4>4. PICK id \in Nat : id = e.id
        BY <4>2 DEF Left
      <4>5. PICK at \in Nat : at = e.at
        BY <4>2 DEF Left
      <4>6. g = Appended(f, id, at, seq)
        BY <1>6, <4>3, <4>4, <4>5
      <4>7. SafeIds(f) \subseteq SafeIds(g)
        BY <4>1, <4>6, AppendedSafe
      <4>8. SafeIds(f) \subseteq SafeIds(h)
        BY <1>7, <4>1, SetOnlineSafe
      <4> QED
        BY <1>4, <4>7, <4>8
    <3>2. PICK k \in {g, h} : disk' = [disk EXCEPT ![x] = k]
      BY <2>2
    <3>3. x \in DOMAIN disk => SafeIds(disk[x]) \subseteq SafeIds(k)
      BY <3>1, <3>2
    <3>4. PICK d : d = disk'
      OBVIOUS
    <3>5. d = [disk EXCEPT ![x] = k]
      BY <3>2, <3>4
    <3>6. \A m : OnDisk(disk, m) => OnDisk(d, m)
      BY <3>3, <3>5, ReplacedSafe
    <3> QED
      BY <3>4, <3>6
  <2> QED
    BY <1>8, <2>1, <2>2
<1>10. Preserves
  BY <1>1, <1>9, KeptDurable
<1>11. \E a \in Seq(NoReturn) : todo' = a \o Rest
  <2>1. /\ "finish" \in Jobs \ {"return"} /\ "copy" \in Jobs \ {"return"}
        /\ "rotate" \in Jobs \ {"return"} /\ "vacuum" \in Jobs \ {"return"}
        /\ "recopy" \in Jobs \ {"return"}
    BY DEF Jobs
  <2>2. /\ Task("finish") \in NoReturn /\ Task("copy") \in NoReturn /\ Task("recopy") \in NoReturn
        /\ Task("rotate") \in NoReturn /\ Task("vacuum") \in NoReturn
    BY <2>1, NoReturnJobs
  <2>3. <<Task("finish")>> \in Seq(NoReturn) /\ <<Task("copy")>> \in Seq(NoReturn)
    BY <2>2
  <2>4. PICK s : s = Rest
    OBVIOUS
  <2>5. s \in Seq(Tasks)
    BY <1>1, <2>4 DEF SyncInv, ServerInv, TodoOK, Rest
  <2>6. PICK b : b = <<Task("rotate"), Task("vacuum")>>
    OBVIOUS
  <2>7. PICK c : c = <<Task("recopy")>>
    OBVIOUS
  <2>8. b \in Seq(NoReturn) /\ c \in Seq(NoReturn)
    BY <2>2, <2>6, <2>7
  <2>9. b \o c \in Seq(NoReturn)
    BY <2>8
  <2>10. \/ todo' = <<Task("finish")>> \o s
         \/ todo' = <<Task("copy")>> \o s
         \/ todo' = b \o c \o s
    BY <2>4, <2>6, <2>7 DEF CopyEntry, Copy, RotateAndVacuum
  <2> QED
    BY <2>3, <2>4, <2>9, <2>10
<1> QED
  BY <1>1, <1>2, <1>10, <1>11, StillSafe, OtherStep

\* The end of a flush is about the runtime journal.
LEMMA FinishDurable ==
    ASSUME SyncInv, ServerInv', FinishFlush
    PROVE  SyncInv'
<1>1. /\ UNCHANGED <<sync, seqnum, acked, msgs>> /\ todo # <<>> /\ gone \subseteq gone'
      /\ Head(todo).do = "finish" /\ todo' = <<Driver>> \o Rest
  BY DEF FinishFlush, Doing
<1>2. Head(todo).do \notin Syncing
  BY <1>1 DEF Syncing
<1>3. PICK x : x = Active(Runtime)
  OBVIOUS
<1>4. PICK e : e = disk'
  OBVIOUS
<1>5. \/ \E g : e = [disk EXCEPT ![x] = g]
      \/ e = Without(disk, {y \in DOMAIN disk : ~InVar(y)})
  BY <1>3, <1>4 DEF FinishFlush
<1>6. ~InVar(x)
  BY <1>3 DEF InVar, Active, Name
<1>7. \A y \in DOMAIN disk : InVar(y) => y \in DOMAIN e /\ e[y] = disk[y]
  <2>1. CASE \E g : e = [disk EXCEPT ![x] = g]
    BY <1>6, <2>1
  <2>2. CASE e = Without(disk, {y \in DOMAIN disk : ~InVar(y)})
    BY <2>2 DEF Without
  <2> QED
    BY <1>5, <2>1, <2>2
<1>8. \A m : OnDisk(disk, m) => OnDisk(e, m)
  BY <1>7 DEF OnDisk
<1>9. Preserves
  BY <1>1, <1>4, <1>8, KeptDurable
<1>10. <<Driver>> \in Seq(NoReturn)
  BY DriverNoReturn
<1> QED
  BY <1>1, <1>2, <1>9, <1>10, StillSafe, OtherStep

-----------------------------------------------------------------------------
(* A write and its sync                                                    *)

\* write_to_journal() returns.
LEMMA ReturnDurable ==
    ASSUME SyncInv, ServerInv', WriteReturns
    PROVE  SyncInv'
<1>1. /\ UNCHANGED <<disk, gone, sync, seqnum, msgs>> /\ todo # <<>>
      /\ Head(todo).do = "return" /\ todo' = Rest
      /\ acked' = acked \cup [id : {Head(todo).id} \ {0}, loc : {Head(todo).loc}]
  BY DEF WriteReturns, Doing
<1>2. Head(todo).do \notin Syncing
  BY <1>1 DEF Syncing
<1>3. PICK t : t = Head(todo)
  OBVIOUS
<1>4. 1 \in DOMAIN todo /\ todo[1] = t /\ DOMAIN todo \subseteq Nat \ {0}
  <2>1. todo \in Seq(Tasks)
    BY DEF SyncInv, ServerInv, TodoOK
  <2> QED
    BY <1>1, <1>3, <2>1
<1>5. ReturnOK(1)
  BY <1>1, <1>3, <1>4 DEF SyncInv, ReturnsOK
<1>6. Severe(t) => Durable(t.id)
  <2>1. ~First("sync")
    BY <1>1 DEF First
  <2>2. ~\E i \in DOMAIN todo : i < 1
    BY <1>4
  <2> QED
    BY <1>4, <1>5, <2>1, <2>2 DEF ReturnOK
<1>7. \A m : (Priority(m)' = Priority(m)) /\ (Durable(m)' <=> Durable(m))
  BY <1>1 DEF Priority, Durable
<1>8. ASSUME NEW a \in acked', a.loc # Runtime, Priority(a.id)' <= 2 PROVE Durable(a.id)'
  <2>1. CASE a \in acked
    BY <1>7, <1>8, <2>1, SevereAcks DEF SyncInv
  <2>2. CASE a \notin acked
    <3>1. a.id = t.id /\ a.id # 0 /\ a.loc = t.loc
      BY <1>1, <1>3, <1>8, <2>2
    <3>2. Severe(t)
      BY <1>1, <1>3, <1>7, <1>8, <3>1 DEF Severe
    <3> QED
      BY <1>6, <1>7, <3>1, <3>2
  <2> QED
    BY <2>1, <2>2
<1>9. CritDurable'
  BY <1>8, SevereAcks
<1>10. PICK a : a = <<>>
  OBVIOUS
<1>11. a \in Seq(Tasks) /\ DOMAIN a = {} /\ todo' = a \o Rest
  <2>1. Rest \in Seq(Tasks)
    BY <1>1 DEF SyncInv, ServerInv, TodoOK, Rest
  <2> QED
    BY <1>1, <1>10, <2>1
<1>12. \A k \in DOMAIN todo' : todo'[k].do # "return"
  BY <1>1, <1>2, <1>11, ReturnsPushed
<1>13. ReturnsOK'
  BY <1>12 DEF ReturnsOK
<1> QED
  BY <1>1, <1>9, <1>13, StillSafe DEF SyncInv

\* The number of a new entry is above those given before.
LEMMA EntrySeqnumNew ==
    ASSUME NEW f, f.tail \in Nat, seqnum \in Nat
    PROVE  EntrySeqnum(f) > seqnum
<1>1. PICK t \in Nat : t = f.tail
  OBVIOUS
<1>2. CASE seqnum > t
  <2>1. EntrySeqnum(f) = seqnum + 1
    BY <1>1, <1>2 DEF EntrySeqnum
  <2> QED
    BY <1>1, <1>2, <2>1
<1>3. CASE ~(seqnum > t)
  <2>1. EntrySeqnum(f) = t + 1
    BY <1>1, <1>3 DEF EntrySeqnum
  <2> QED
    BY <1>1, <1>3, <2>1
<1> QED
  BY <1>2, <1>3

\* Numbers that are above others are at least those.
LEMMA AtLeast == \A a, b \in Nat : (a > b => a >= b) /\ b >= b
OBVIOUS

\* What find_journal() and the append leave on disk.
LEMMA WrittenKept ==
    ASSUME SyncInv, NEW d, Shelters(disk, d), gone' = gone \cup Deleted(d), NEW x, NEW g,
           x \in DOMAIN d => SafeIds(d[x]) \subseteq SafeIds(g),
           disk' = d \/ disk' = [d EXCEPT ![x] = g]
    PROVE  Preserves
<1>1. PICK G : G = gone'
  OBVIOUS
<1>2. gone \cup Deleted(d) \subseteq G
  BY <1>1
<1>3. \A m : OnDisk(disk, m) => OnDisk(d, m) \/ Mark(m) \in G
  BY <1>2, FilesOK, ShelteredSafe
<1>4. PICK e : e = disk'
  OBVIOUS
<1>5. PICK c : c = [d EXCEPT ![x] = g]
  OBVIOUS
<1>6. \A m : OnDisk(d, m) => OnDisk(c, m)
  BY <1>5, ReplacedSafe
<1>7. e = d \/ e = c
  BY <1>4, <1>5
<1>8. \A m : OnDisk(disk, m) => OnDisk(e, m) \/ Mark(m) \in G
  BY <1>3, <1>6, <1>7
<1> QED
  BY <1>1, <1>4, <1>8, KeptDurable

\* A write that goes on with a rotation, or that is given up.
LEMMA WriteGoesOn ==
    ASSUME SyncInv, ServerInv', todo # <<>>, Head(todo).do \in {"write", "retry"},
           NEW id, id = Head(todo).id, todo' = Rest \/ todo' = Retry(id), Preserves,
           UNCHANGED <<acked, msgs, sync>>, seqnum' \in Nat, seqnum' >= seqnum
    PROVE  SyncInv'
<1>1. Head(todo).do \notin Syncing
  BY DEF Syncing
<1>2. SyncedOK'
  BY DEF SyncInv, SyncedOK, ServerInv, BasicsOK
<1>3. CASE todo' = Rest
  BY <1>1, <1>2, <1>3, OtherPop
<1>4. CASE todo' = Retry(id)
  <2>1. id \in Nat /\ "" \in Locs \cup {""}
    BY HeadOK DEF Tasks, SyncInv
  <2>2. /\ "rotate" \in Jobs \ {"return"} /\ "vacuum" \in Jobs \ {"return"}
        /\ "retry" \in Jobs \ {"return"}
    BY DEF Jobs
  <2>3. Task("rotate") \in NoReturn /\ Task("vacuum") \in NoReturn /\ TaskFor("retry", id) \in NoReturn
    BY <2>1, <2>2, NoReturnTasks
  <2>4. PICK b : b = <<Task("rotate"), Task("vacuum")>>
    OBVIOUS
  <2>5. PICK c : c = <<TaskFor("retry", id)>>
    OBVIOUS
  <2>6. b \in Seq(NoReturn) /\ c \in Seq(NoReturn)
    BY <2>3, <2>4, <2>5
  <2>7. b \o c \in Seq(NoReturn)
    BY <2>6
  <2>8. todo' = (b \o c) \o Rest
    BY <1>4, <2>4, <2>5 DEF Retry, RotateAndVacuum
  <2> QED
    BY <1>1, <1>2, <2>7, <2>8, OtherStep
<1> QED
  BY <1>3, <1>4

\* Tasks put in front of others.
LEMMA Fronted ==
    ASSUME NEW a \in Seq(Tasks), NEW w \in Seq(Tasks), NEW q, q = a \o w
    PROVE  /\ q \in Seq(Tasks) /\ DOMAIN q \subseteq Nat \ {0}
           /\ \A i \in DOMAIN a : i \in DOMAIN q /\ q[i] = a[i]
           /\ 1 \in DOMAIN a => q # <<>> /\ Head(q) = a[1]
<1>1. PICK m \in Nat : m = Len(a) /\ DOMAIN a = 1..m
  OBVIOUS
<1>2. PICK n \in Nat : n = Len(w)
  OBVIOUS
<1>3. q \in Seq(Tasks) /\ Len(q) = m + n /\ \A i \in 1..m : q[i] = a[i]
  BY <1>1, <1>2
<1>4. DOMAIN q = 1..(m + n)
  BY <1>3
<1>5. \A i \in 1..m : i \in DOMAIN q /\ q[i] = a[i]
  BY <1>1, <1>2, <1>3, <1>4
<1>6. DOMAIN q \subseteq Nat \ {0}
  BY <1>1, <1>2, <1>4
<1>7. 1 \in DOMAIN q => q # <<>> /\ Head(q) = q[1]
  BY <1>3
<1> QED
  BY <1>1, <1>3, <1>5, <1>6, <1>7

\* A write that has put its message in a file: a severe one is synced next.
LEMMA WriteStored ==
    ASSUME SyncInv, ServerInv', todo # <<>>, Head(todo).do \in {"write", "retry"},
           NEW id, id = Head(todo).id, NEW loc \in Locs, todo' = AfterAppend(id, loc), Preserves,
           UNCHANGED <<acked, msgs, sync>>, seqnum' \in Nat, seqnum' > seqnum,
           Holds(loc, id)', loc # Runtime => IsOpen(loc)'
    PROVE  SyncInv'
<1>1. Head(todo).do \notin Syncing
  BY DEF Syncing
<1>2. SyncedOK' /\ sync'.seqnum < seqnum'
  BY DEF SyncInv, SyncedOK, ServerInv, BasicsOK
<1>3. CritDurable'
  BY AcksDurable
<1>4. id \in Nat
  BY HeadOK DEF Tasks, SyncInv
<1>5. PICK t : t = [TaskFor("return", id) EXCEPT !.loc = loc]
  OBVIOUS
<1>6. PICK s : s = Task("sync")
  OBVIOUS
<1>7. t \in Tasks /\ t.do = "return" /\ t.id = id /\ t.loc = loc
  <2>1. "return" \in Jobs
    BY DEF Jobs
  <2> QED
    BY <1>4, <1>5, <2>1 DEF TaskFor, Task, Tasks
<1>8. s \in Tasks /\ s.do = "sync"
  <2>1. "sync" \in Jobs
    BY DEF Jobs
  <2> QED
    BY <1>6, <2>1, MadeTask
<1>9. \A m : Priority(m)' = Priority(m)
  BY DEF Priority
<1>10. PICK q : q = todo'
  OBVIOUS
<1>11. PICK w : w = Rest
  OBVIOUS
<1>12. w \in Seq(Tasks)
  BY <1>11 DEF SyncInv, ServerInv, TodoOK, Rest
<1>13. CASE Priority(id) <= 2
  <2>1. q = (<<s>> \o <<t>>) \o w
    BY <1>5, <1>6, <1>10, <1>11, <1>13 DEF AfterAppend
  <2>2. PICK b : b = <<s>>
    OBVIOUS
  <2>3. PICK a : a = b \o <<t>>
    OBVIOUS
  <2>4. a \in Seq(Tasks) /\ Len(a) = 2 /\ DOMAIN a = {1, 2} /\ a[1] = s /\ a[2] = t
    <3>1. b \in Seq(Tasks) /\ <<t>> \in Seq(Tasks) /\ Len(b) = 1 /\ Len(<<t>>) = 1
          /\ b[1] = s /\ <<t>>[1] = t
      BY <1>7, <1>8, <2>2
    <3>2. a \in Seq(Tasks) /\ Len(a) = 2 /\ a[1] = s /\ a[2] = t
      BY <2>3, <3>1
    <3>3. DOMAIN a = 1..2
      BY <3>2
    <3> QED
      BY <3>2, <3>3
  <2>5. q = a \o w
    BY <2>1, <2>2, <2>3
  <2>6. q # <<>> /\ Head(q) = s /\ q[1] = s /\ q[2] = t /\ 1 \in DOMAIN q /\ DOMAIN q \subseteq Nat \ {0}
    BY <1>12, <2>4, <2>5, Fronted
  <2>7. First("sync")'
    BY <1>8, <1>10, <2>6 DEF First
  <2>8. ASSUME NEW k \in DOMAIN q, q[k].do = "return" PROVE k = 2
    <3>1. todo' = a \o Rest /\ k \in DOMAIN todo' /\ todo'[k].do = "return"
      BY <1>10, <1>11, <2>5, <2>8
    <3>2. k \in DOMAIN a
      BY <1>1, <2>4, <3>1, ReturnsPushed
    <3> QED
      BY <1>8, <2>4, <2>6, <2>8, <3>2
  <2>9. ReturnOK(2)'
    <3>1. \A i \in DOMAIN q : i < 2 => q[i].do \in Syncing
      <4>1. \A i \in DOMAIN q : i < 2 => i = 1
        BY <2>6
      <4> QED
        BY <1>8, <2>6, <4>1 DEF Syncing
    <3>2. Severe(t)' => IsOpen(t.loc)' /\ Holds(t.loc, t.id)'
      BY <1>7 DEF Severe
    <3> QED
      BY <1>2, <1>10, <2>6, <2>7, <3>1, <3>2 DEF ReturnOK
  <2>10. ReturnsOK'
    BY <1>10, <2>8, <2>9 DEF ReturnsOK
  <2> QED
    BY <1>2, <1>3, <2>10 DEF SyncInv
<1>14. CASE ~(Priority(id) <= 2)
  <2>1. q = (<<>> \o <<t>>) \o w
    BY <1>5, <1>10, <1>11, <1>14 DEF AfterAppend
  <2>2. PICK a : a = <<t>>
    OBVIOUS
  <2>3. a \in Seq(Tasks) /\ Len(a) = 1 /\ DOMAIN a = {1} /\ a[1] = t
    BY <1>7, <2>2
  <2>4. q = a \o w
    BY <1>12, <2>1, <2>2
  <2>5. q \in Seq(Tasks) /\ q[1] = t /\ DOMAIN q \subseteq Nat \ {0}
    BY <1>12, <2>3, <2>4, Fronted
  <2>6. ASSUME NEW k \in DOMAIN q, q[k].do = "return" PROVE k = 1
    <3>1. todo' = a \o Rest /\ k \in DOMAIN todo' /\ todo'[k].do = "return"
      BY <1>10, <1>11, <2>4, <2>6
    <3>2. k \in DOMAIN a
      BY <1>1, <2>3, <3>1, ReturnsPushed
    <3> QED
      BY <2>3, <3>2
  <2>7. ReturnOK(1)'
    <3>1. \A i \in DOMAIN q : ~(i < 1)
      BY <2>5
    <3>2. ~Severe(t)'
      BY <1>7, <1>9, <1>14 DEF Severe
    <3> QED
      BY <1>10, <2>5, <3>1, <3>2 DEF ReturnOK
  <2>8. ReturnsOK'
    BY <1>10, <2>6, <2>7 DEF ReturnsOK
  <2> QED
    BY <1>2, <1>3, <2>8 DEF SyncInv
<1> QED
  BY <1>13, <1>14

\* An attempt to append the message.
LEMMA AttemptDurable ==
    ASSUME SyncInv, ServerInv', todo # <<>>, Head(todo).do \in {"write", "retry"},
           NEW id, id = Head(todo).id, NEW uid, NEW r \in FindJournal(uid), Finding(r),
           gone' = gone \cup Deleted(r.disk), r.loc # "",
           NEW again, again = Rest \/ again = Retry(id),
           Attempt(r, id, AfterAppend(id, r.loc), again)
    PROVE  SyncInv'
<1>1. ~First("create") /\ ServerInv
  BY DEF First, SyncInv
<1>2. PICK x : x = Active(r.loc)
  OBVIOUS
<1>3. PICK f : f = r.disk[x]
  OBVIOUS
<1>4. PICK seq : seq = EntrySeqnum(f)
  OBVIOUS
<1>5. PICK g : g = Appended(f, id, clock, seq)
  OBVIOUS
<1>6. open' = r.open /\ UNCHANGED <<acked, msgs, sync>>
  BY DEF Finding
<1>7. Found(r)
  BY <1>1, <1>6, FindJournalKeeps
<1>8. r.loc \in Locs /\ x \in DOMAIN r.disk /\ x.kind = "active"
  BY <1>2, <1>7, NamesOK DEF Found
<1>9. DiskOK(disk, ids, {}) /\ seqnum \in Nat /\ clock \in Nat
  BY <1>1, AllFound DEF ServerInv, BasicsOK
<1>10. FileOK(x, f) /\ f.tail \in Nat
  <2>1. FileOK(x, f)
    BY <1>3, <1>7, <1>8, <1>9 DEF Found, DiskOK
  <2> QED
    BY <2>1, Numbers
<1>11. seq \in Nat /\ seq > f.tail /\ seq > seqnum
  BY <1>4, <1>9, <1>10, EntrySeqnumAbove, EntrySeqnumNew
<1>12. id \in Nat
  BY <1>1, HeadOK DEF Tasks
<1>13. id \in FileIds(g)
  BY <1>5, <1>8, <1>9, <1>10, <1>11, <1>12, AppendedContinues
<1>14. PICK h : h = SetOnline(f)
  OBVIOUS
<1>15. SafeIds(f) \subseteq SafeIds(g)
  BY <1>5, <1>9, <1>10, <1>11, <1>12, AppendedSafe
<1>16. SafeIds(f) \subseteq SafeIds(h)
  BY <1>10, <1>14, SetOnlineSafe
<1>17. PICK d : d = r.disk
  OBVIOUS
<1>18. Shelters(disk, d) /\ (r.loc # Runtime => IsOpen(r.loc)')
  BY <1>1, <1>6, <1>17, FindJournalSafe
<1>19. SafeIds(d[x]) \subseteq SafeIds(g) /\ SafeIds(d[x]) \subseteq SafeIds(h)
  BY <1>3, <1>15, <1>16, <1>17
<1>20. gone' = gone \cup Deleted(d)
  BY <1>17
<1>21. /\ disk' = [d EXCEPT ![x] = g] => Preserves
       /\ disk' = [d EXCEPT ![x] = h] => Preserves
       /\ disk' = d => Preserves
  BY <1>18, <1>19, <1>20, WrittenKept
<1>22. seqnum >= seqnum /\ seq >= seqnum
  BY <1>9, <1>11, AtLeast
<1>23. CASE /\ disk' = [d EXCEPT ![x] = g] /\ seqnum' = seq
            /\ todo' = AfterAppend(id, r.loc)
  <2>1. PICK e : e = disk'
    OBVIOUS
  <2>2. x \in DOMAIN e /\ id \in FileIds(e[x])
    BY <1>8, <1>13, <1>17, <1>23, <2>1
  <2>3. Holds(r.loc, id)'
    BY <1>2, <2>1, <2>2 DEF Holds
  <2> QED
    BY <1>6, <1>8, <1>11, <1>18, <1>21, <1>23, <2>3, WriteStored
<1>24. CASE /\ \/ disk' = [d EXCEPT ![x] = g] /\ seqnum' = seq
               \/ disk' = [d EXCEPT ![x] = h] /\ seqnum' = seqnum
               \/ disk' = d /\ seqnum' = seqnum
            /\ todo' = Rest \/ todo' = Retry(id)
  BY <1>6, <1>9, <1>11, <1>21, <1>22, <1>24, WriteGoesOn
<1>25. CASE f.tables
  <2>1. \/ /\ disk' = [d EXCEPT ![x] = g] /\ seqnum' = seq
           /\ todo' = AfterAppend(id, r.loc)
        \/ \E visible, retry \in BOOLEAN :
             /\ disk' = [d EXCEPT ![x] = IF visible THEN g ELSE h]
             /\ seqnum' = IF visible THEN seq ELSE seqnum
             /\ todo' = IF retry THEN again ELSE Rest
    BY <1>2, <1>3, <1>4, <1>5, <1>14, <1>17, <1>25 DEF Attempt
  <2> QED
    BY <1>23, <1>24, <2>1
<1>26. CASE ~f.tables
  <2>1. disk' = d /\ seqnum' = seqnum /\ todo' = again
    BY <1>2, <1>3, <1>17, <1>26 DEF Attempt
  <2> QED
    BY <1>24, <2>1
<1> QED
  BY <1>25, <1>26

\* write_to_journal(), both its attempts.
LEMMA WriteDurable ==
    ASSUME SyncInv, ServerInv', Write \/ WriteAgain
    PROVE  SyncInv'
<1>1. todo # <<>> /\ Head(todo).do \in {"write", "retry"} /\ ~First("create") /\ ServerInv
  BY DEF Write, WriteAgain, Doing, First, SyncInv
<1>2. PICK id : id = Head(todo).id
  OBVIOUS
<1>3. PICK uid : uid = Uid(id)
  OBVIOUS
<1>4. PICK r \in FindJournal(uid) :
         /\ Finding(r)
         /\ gone' = gone \cup Deleted(r.disk)
         /\ \/ /\ disk' = r.disk /\ UNCHANGED seqnum
               /\ todo' = Rest \/ todo' = Retry(id)
            \/ /\ r.loc # ""
               /\ \E again \in {Rest, Retry(id)} : Attempt(r, id, AfterAppend(id, r.loc), again)
  BY <1>2, <1>3 DEF Write, WriteAgain
<1>5. CASE /\ disk' = r.disk /\ UNCHANGED seqnum
           /\ todo' = Rest \/ todo' = Retry(id)
  <2>1. open' = r.open /\ UNCHANGED <<acked, msgs, sync>>
    BY <1>4 DEF Finding
  <2>2. PICK d : d = r.disk
    OBVIOUS
  <2>3. Shelters(disk, d)
    BY <1>1, <1>4, <2>1, <2>2, FindJournalSafe
  <2>4. disk' = d /\ gone' = gone \cup Deleted(d)
    BY <1>4, <1>5, <2>2
  <2>5. Preserves
    BY <2>3, <2>4, ShelteredKept
  <2>6. seqnum' \in Nat /\ seqnum' >= seqnum
    BY <1>1, <1>5 DEF ServerInv, BasicsOK
  <2> QED
    BY <1>1, <1>2, <1>5, <2>1, <2>5, <2>6, WriteGoesOn
<1>6. CASE /\ r.loc # ""
           /\ \E again \in {Rest, Retry(id)} : Attempt(r, id, AfterAppend(id, r.loc), again)
  <2>1. PICK again \in {Rest, Retry(id)} : Attempt(r, id, AfterAppend(id, r.loc), again)
    BY <1>6
  <2> QED
    BY <1>1, <1>2, <1>4, <1>6, <2>1, AttemptDurable
<1> QED
  BY <1>4, <1>5, <1>6

\* Tasks are numbered from 1.
LEMMA TasksCounted ==
    ASSUME NEW s \in Seq(Tasks), s # <<>>
    PROVE  Len(s) \in Nat /\ Len(s) # 0 /\ DOMAIN s = 1..Len(s)
OBVIOUS

\* The tasks a are put in the place of the first one of s, which makes q, and the
\* task j of s becomes the task k of q.
Moved(s, a, q, j, k) ==
    /\ j # 1 /\ q[k] = s[j]
    /\ \A i \in DOMAIN q : i < k => \/ i \in DOMAIN a /\ q[i] = a[i]
                                   \/ \E l \in DOMAIN s : l < j /\ q[i] = s[l]
    /\ \A i \in DOMAIN a : i \in DOMAIN q /\ i < k /\ q[i] = a[i]
    /\ \A l \in DOMAIN s : l # 1 /\ l < j => \E i \in DOMAIN q : i < k /\ q[i] = s[l]

\* The returns that wait while a sync goes on move with the tasks before them.
LEMMA ShiftedReturns ==
    ASSUME NEW s \in Seq(Tasks), s # <<>>, NEW a \in Seq(Tasks), NEW q, q = a \o Tail(s),
           \A i \in DOMAIN a : a[i].do # "return", NEW k \in DOMAIN q, q[k].do = "return"
    PROVE  \E j \in DOMAIN s : Moved(s, a, q, j, k)
<1>1. PICK w : w = Tail(s)
  OBVIOUS
<1>2. PICK n \in Nat : n = Len(s) /\ n # 0 /\ DOMAIN s = 1..n
  BY TasksCounted
<1>3. PICK m \in Nat : m = Len(a) /\ DOMAIN a = 1..m
  OBVIOUS
<1>4. w \in Seq(Tasks) /\ Len(w) = n - 1 /\ \A i \in 1..(n - 1) : w[i] = s[i + 1]
  BY <1>1, <1>2
<1>5. q = a \o w
  BY <1>1
<1>6. /\ q \in Seq(Tasks) /\ Len(q) = m + (n - 1)
      /\ (\A i \in 1..m : q[i] = a[i]) /\ (\A i \in 1..(n - 1) : q[m + i] = w[i])
  BY <1>2, <1>3, <1>4, <1>5
<1>7. DOMAIN q = 1..(m + (n - 1))
  BY <1>6
<1>8. \A l \in 2..n : m + (l - 1) \in DOMAIN q /\ q[m + (l - 1)] = s[l]
  <2>1. ASSUME NEW l \in 2..n PROVE m + (l - 1) \in DOMAIN q /\ q[m + (l - 1)] = s[l]
    <3>1. PICK i \in 1..(n - 1) : i = l - 1 /\ i + 1 = l
      BY <1>2
    <3>2. q[m + i] = s[l]
      BY <1>4, <1>6, <3>1
    <3>3. m + i \in 1..(m + (n - 1))
      BY <1>2, <1>3
    <3> QED
      BY <1>7, <3>1, <3>2, <3>3
  <2> QED
    BY <2>1
<1>9. \A i \in DOMAIN q : i \in 1..m \/ \E l \in 2..n : i = m + (l - 1)
  <2>1. ASSUME NEW i \in 1..(m + (n - 1)), i \notin 1..m PROVE \E l \in 2..n : i = m + (l - 1)
    <3>1. i - m + 1 \in 2..n /\ i = m + ((i - m + 1) - 1)
      BY <1>2, <1>3, <2>1
    <3> QED
      BY <3>1
  <2> QED
    BY <1>7, <2>1
<1>10. k \notin 1..m
  BY <1>3, <1>6
<1>11. PICK j \in 2..n : k = m + (j - 1)
  BY <1>9, <1>10
<1>12. j \in DOMAIN s /\ j # 1 /\ q[k] = s[j]
  <2>1. j \in 1..n /\ j # 1
    BY <1>2
  <2> QED
    BY <1>2, <1>8, <1>11, <2>1
<1>13. ASSUME NEW i \in DOMAIN q, i < k
       PROVE  \/ i \in DOMAIN a /\ q[i] = a[i]
              \/ \E l \in DOMAIN s : l < j /\ q[i] = s[l]
  <2>1. CASE i \in 1..m
    BY <1>3, <1>6, <2>1
  <2>2. CASE i \notin 1..m
    <3>1. PICK l \in 2..n : i = m + (l - 1)
      BY <1>9, <2>2
    <3>2. l \in 1..n /\ l < j
      BY <1>2, <1>3, <1>11, <1>13, <3>1
    <3> QED
      BY <1>2, <1>8, <3>1, <3>2
  <2> QED
    BY <2>1, <2>2
<1>14. ASSUME NEW i \in DOMAIN a PROVE i \in DOMAIN q /\ i < k /\ q[i] = a[i]
  <2>1. i \in 1..m
    BY <1>3
  <2>2. i \in 1..(m + (n - 1)) /\ i < k
    BY <1>2, <1>3, <1>11, <2>1
  <2> QED
    BY <1>6, <1>7, <2>1, <2>2
<1>15. ASSUME NEW l \in DOMAIN s, l # 1, l < j
       PROVE  \E i \in DOMAIN q : i < k /\ q[i] = s[l]
  <2>1. l \in 2..n
    BY <1>2, <1>15
  <2>2. m + (l - 1) < k
    BY <1>2, <1>3, <1>11, <1>15, <2>1
  <2> QED
    BY <1>8, <2>1, <2>2
<1> QED
  BY <1>12, <1>13, <1>14, <1>15 DEF Moved

\* A step of a sync: a write that waits for it finds its message on disk, or its
\* file still to be synced.
LEMMA SyncingStep ==
    ASSUME SyncInv, ServerInv', todo # <<>>, Head(todo).do \in Syncing, NEW a \in Seq(Tasks),
           \A i \in DOMAIN a : a[i].do \in Syncing, todo' = a \o Rest, Preserves,
           UNCHANGED <<acked, msgs>>, SyncedOK', \A l, m : Holds(l, m) => Holds(l, m)',
           \A l : First("sync") /\ sync.seqnum < seqnum /\ IsOpen(l) /\ l # Runtime =>
             \E i \in DOMAIN a : a[i].do = "set_offline" /\ a[i].loc = l,
           \A m : First("set_offline") /\ Head(todo).loc # Runtime /\ Holds(Head(todo).loc, m) =>
             Durable(m)'
    PROVE  SyncInv'
<1>1. CritDurable'
  BY AcksDurable
<1>2. todo \in Seq(Tasks)
  BY DEF SyncInv, ServerInv, TodoOK
<1>3. 1 \in DOMAIN todo /\ todo[1] = Head(todo)
  BY <1>2
<1>4. PICK q : q = todo'
  OBVIOUS
<1>5. \A i \in DOMAIN a : a[i].do # "return"
  BY DEF Syncing
<1>6. ASSUME NEW k \in DOMAIN q, q[k].do = "return" PROVE ReturnOK(k)'
  <2>1. PICK j \in DOMAIN todo : Moved(todo, a, q, j, k)
    <3>1. q = a \o Tail(todo)
      BY <1>4 DEF Rest
    <3> QED
      BY <1>2, <1>5, <1>6, <3>1, ShiftedReturns
  <2>2. ReturnOK(j)
    BY <1>6, <2>1 DEF SyncInv, ReturnsOK, Moved
  <2>3. \A i \in DOMAIN q : i < k => q[i].do \in Syncing
    BY <2>1, <2>2 DEF ReturnOK, Moved
  <2>4. PICK t : t = todo[j]
    OBVIOUS
  <2>5. Severe(t)' => Severe(t)
    BY DEF Severe, Priority
  <2>6. ASSUME Severe(t), ~Durable(t.id)'
        PROVE  /\ Holds(t.loc, t.id)'
               /\ \E i \in DOMAIN q : i < k /\ q[i].do = "set_offline" /\ q[i].loc = t.loc
    <3>1. ~Durable(t.id) /\ t.loc # Runtime
      BY <2>6 DEF Preserves, Severe
    <3>2. /\ Holds(t.loc, t.id)
          /\ \/ First("sync") /\ sync.seqnum < seqnum /\ IsOpen(t.loc)
             \/ \E i \in DOMAIN todo : i < j /\ todo[i].do = "set_offline" /\ todo[i].loc = t.loc
      BY <2>2, <2>4, <2>6, <3>1 DEF ReturnOK
    <3>3. CASE First("sync") /\ sync.seqnum < seqnum /\ IsOpen(t.loc)
      <4>1. PICK i \in DOMAIN a : a[i].do = "set_offline" /\ a[i].loc = t.loc
        BY <3>1, <3>3
      <4>2. i \in DOMAIN q /\ i < k /\ q[i] = a[i]
        BY <2>1 DEF Moved
      <4> QED
        BY <3>2, <4>1, <4>2
    <3>4. CASE \E i \in DOMAIN todo : i < j /\ todo[i].do = "set_offline" /\ todo[i].loc = t.loc
      <4>1. PICK i \in DOMAIN todo : i < j /\ todo[i].do = "set_offline" /\ todo[i].loc = t.loc
        BY <3>4
      <4>2. i # 1
        <5>1. ASSUME i = 1 PROVE FALSE
          <6>1. First("set_offline") /\ Head(todo).loc = t.loc
            BY <1>3, <4>1, <5>1 DEF First
          <6> QED
            BY <2>6, <3>1, <3>2, <6>1
        <5> QED
          BY <5>1
      <4>3. \E l \in DOMAIN q : l < k /\ q[l] = todo[i]
        BY <2>1, <4>1, <4>2 DEF Moved
      <4> QED
        BY <3>2, <4>1, <4>3
    <3> QED
      BY <3>2, <3>3, <3>4
  <2>7. q[k] = t
    BY <2>1, <2>4 DEF Moved
  <2> QED
    BY <1>4, <2>3, <2>5, <2>6, <2>7 DEF ReturnOK
<1>7. ReturnsOK'
  BY <1>4, <1>6 DEF ReturnsOK
<1> QED
  BY <1>1, <1>7 DEF SyncInv

\* A journal in /var that is open is one that server_sync() goes through.
LEMMA VarJournalsAll ==
    ASSUME OpenOK, NEW l, IsOpen(l), l # Runtime
    PROVE  \E i \in DOMAIN VarJournals : VarJournals[i] = l
<1>1. PICK u \in Seq(Users) : u = open.users
  BY DEF OpenOK
<1>2. PICK v : v = VarJournals
  OBVIOUS
<1>3. PICK n \in Nat : n = Len(u) /\ DOMAIN u = 1..n
  BY <1>1
<1>4. \/ l = System /\ open.system
      \/ \E i \in DOMAIN u : u[i] = l
  BY <1>1 DEF IsOpen
<1>5. CASE open.system
  <2>1. v = <<System>> \o u
    BY <1>1, <1>2, <1>5 DEF VarJournals
  <2>2. u \in Seq(Locs) /\ <<System>> \in Seq(Locs) /\ Len(<<System>>) = 1 /\ <<System>>[1] = System
    BY DEF Locs
  <2>3. v \in Seq(Locs) /\ Len(v) = 1 + n /\ v[1] = System /\ \A i \in 1..n : v[1 + i] = u[i]
    BY <1>3, <2>1, <2>2
  <2>4. DOMAIN v = 1..(1 + n)
    BY <2>3
  <2>5. 1 \in 1..(1 + n) /\ \A i \in 1..n : 1 + i \in 1..(1 + n)
    BY <1>3
  <2> QED
    BY <1>2, <1>3, <1>4, <2>3, <2>4, <2>5
<1>6. CASE ~open.system
  <2>1. v = <<>> \o u
    BY <1>1, <1>2, <1>6 DEF VarJournals
  <2>2. v = u
    BY <2>1
  <2> QED
    BY <1>2, <1>4, <1>6, <2>2
<1> QED
  BY <1>5, <1>6

\* server_sync() begins.
LEMMA SyncDurable ==
    ASSUME SyncInv, ServerInv', Sync
    PROVE  SyncInv'
<1>1. /\ UNCHANGED <<disk, gone, sync, seqnum, acked, msgs>> /\ todo # <<>>
      /\ Head(todo).do = "sync"
  BY DEF Sync, Doing
<1>2. Head(todo).do \in Syncing /\ ~First("set_offline")
  BY <1>1 DEF Syncing, First
<1>3. \A l, m : Holds(l, m) => Holds(l, m)'
  BY <1>1 DEF Holds
<1>4. Preserves /\ SyncedOK'
  BY <1>1, StillSafe
<1>5. CASE sync.seqnum >= seqnum
  <2>1. PICK a : a = <<>>
    OBVIOUS
  <2>2. todo' = a \o Rest
    BY <1>5, <2>1 DEF Sync
  <2>3. a \in Seq(Tasks) /\ DOMAIN a = {}
    BY <2>1
  <2>4. ~(sync.seqnum < seqnum)
    BY <1>5 DEF SyncInv, SyncedOK, ServerInv, BasicsOK
  <2> QED
    BY <1>1, <1>2, <1>3, <1>4, <2>2, <2>3, <2>4, SyncingStep
<1>6. CASE ~(sync.seqnum >= seqnum)
  <2>1. PICK v : v = VarJournals
    OBVIOUS
  <2>2. v \in Seq(Locs)
    BY <2>1, VarJournalsListed DEF SyncInv, ServerInv
  <2>3. PICK b : b = OnEach("set_offline", v)
    OBVIOUS
  <2>4. PICK c : c = Task("synced")
    OBVIOUS
  <2>5. "set_offline" \in Jobs \ {"return"} /\ "synced" \in Jobs
    BY DEF Jobs
  <2>6. b \in Seq(NoReturn)
    BY <2>2, <2>3, <2>5, OnEachNoReturn
  <2>7. c \in Tasks /\ c.do = "synced"
    BY <2>4, <2>5, MadeTask
  <2>8. PICK n \in Nat : n = Len(v) /\ DOMAIN v = 1..n
    BY <2>2
  <2>9. DOMAIN b = 1..n /\ \A i \in 1..n : b[i] = TaskOn("set_offline", v[i])
    BY <2>3, <2>8 DEF OnEach
  <2>10. \A i \in 1..n : b[i].do = "set_offline" /\ b[i].loc = v[i]
    BY <2>9 DEF TaskOn, Task
  <2>11. PICK a : a = b \o <<c>>
    OBVIOUS
  <2>12. b \in Seq(Tasks) /\ Len(b) = n
    BY <2>6, <2>9 DEF NoReturn
  <2>13. /\ a \in Seq(Tasks) /\ Len(a) = n + 1 /\ a[n + 1] = c
         /\ \A i \in 1..n : a[i] = b[i]
    <3>1. <<c>> \in Seq(Tasks) /\ Len(<<c>>) = 1 /\ <<c>>[1] = c
      BY <2>7
    <3> QED
      BY <2>8, <2>11, <2>12, <3>1
  <2>14. DOMAIN a = 1..(n + 1)
    BY <2>13
  <2>15. \A i \in 1..(n + 1) : i \in 1..n \/ i = n + 1
    BY <2>8
  <2>16. \A i \in DOMAIN a : a[i].do \in Syncing
    BY <2>7, <2>10, <2>13, <2>14, <2>15 DEF Syncing
  <2>17. todo' = a \o Rest
    BY <1>6, <2>1, <2>3, <2>4, <2>11 DEF Sync
  <2>18. ASSUME NEW l, IsOpen(l), l # Runtime
         PROVE  \E i \in DOMAIN a : a[i].do = "set_offline" /\ a[i].loc = l
    <3>1. PICK i \in 1..n : v[i] = l
      BY <2>1, <2>8, <2>18, VarJournalsAll DEF SyncInv, ServerInv
    <3>2. i \in DOMAIN a
      BY <2>8, <2>14
    <3> QED
      BY <2>10, <2>13, <3>1, <3>2
  <2> QED
    BY <1>1, <1>2, <1>3, <1>4, <2>13, <2>16, <2>17, <2>18, SyncingStep
<1> QED
  BY <1>5, <1>6

\* A file of the journals in use becomes another with the same entries.
LEMMA SyncFileSafe ==
    ASSUME SyncInv, NEW x, NEW g, gone' = gone, disk' = [disk EXCEPT ![x] = g],
           x \in DOMAIN disk => SafeIds(disk[x]) \subseteq SafeIds(g) /\ FileIds(g) = FileIds(disk[x])
    PROVE  Preserves /\ \A l, m : Holds(l, m) => Holds(l, m)'
<1>1. PICK e : e = disk'
  OBVIOUS
<1>2. e = [disk EXCEPT ![x] = g]
  BY <1>1
<1>3. \A m : OnDisk(disk, m) => OnDisk(e, m)
  BY <1>2, ReplacedSafe
<1>4. Preserves
  BY <1>1, <1>3, KeptDurable
<1>5. DOMAIN e = DOMAIN disk /\ \A y \in DOMAIN disk : e[y] = IF y = x THEN g ELSE disk[y]
  BY <1>2
<1>6. \A y \in DOMAIN disk : FileIds(e[y]) = FileIds(disk[y])
  BY <1>5
<1> QED
  BY <1>1, <1>4, <1>5, <1>6 DEF Holds

\* journal_file_set_offline(), and its two calls of fsync().
LEMMA SyncFileDurable ==
    ASSUME SyncInv, ServerInv', SyncFile
    PROVE  SyncInv'
<1>1. PICK loc : loc = Head(todo).loc
  OBVIOUS
<1>2. PICK x : x = Active(loc)
  OBVIOUS
<1>3. UNCHANGED <<sync, seqnum, acked, msgs, gone>>
  BY DEF SyncFile
<1>4. todo # <<>> /\ Head(todo).do \in {"set_offline", "offline", "fsync"}
  BY DEF SyncFile, Doing
<1>5. Head(todo).do \in Syncing /\ ~First("sync")
  BY <1>4 DEF Syncing, First
<1>6. x \in DOMAIN disk => FileOK(x, disk[x])
  BY FilesOK
<1>7. loc \in Locs \cup {""}
  <2>1. Head(todo) \in Tasks
    BY <1>4, HeadOK DEF SyncInv
  <2> QED
    BY <1>1, <2>1 DEF Tasks
<1>8. SyncedOK'
  BY <1>3, StillSafe
<1>9. PICK f : f = disk[x]
  OBVIOUS
<1>10. PICK g : g = Fsync(f)
  OBVIOUS
<1>11. ASSUME x \in DOMAIN disk
       PROVE  /\ SafeIds(f) \subseteq SafeIds(g) /\ SafeIds(g) = FileIds(f)
              /\ FileIds(g) = FileIds(f)
  <2>1. FileOK(x, f)
    BY <1>6, <1>9, <1>11
  <2>2. SafeIds(f) \subseteq SafeIds(g) /\ SafeIds(g) = FileIds(f)
    BY <1>10, <2>1, FsyncSafe
  <2>3. Keeps(f, g)
    BY <1>10, <2>1, FsyncKeeps
  <2> QED
    BY <2>2, <2>3 DEF Keeps, FileIds
<1>12. x.kind = "active" /\ x.loc = loc
  BY <1>2 DEF Active, Name
<1>13. CASE Head(todo).do = "set_offline" /\ f.state = "online"
  <2>1. PICK t : t = TaskOn("offline", loc)
    OBVIOUS
  <2>2. PICK a : a = <<t>>
    OBVIOUS
  <2>3. disk' = [disk EXCEPT ![x] = g] /\ todo' = a \o Rest
    BY <1>1, <1>2, <1>9, <1>10, <1>13, <2>1, <2>2 DEF SyncFile, Doing
  <2>4. Preserves /\ \A l, m : Holds(l, m) => Holds(l, m)'
    BY <1>3, <1>9, <1>11, <2>3, SyncFileSafe
  <2>5. ASSUME NEW m, loc # Runtime, Holds(loc, m) PROVE Durable(m)'
    <3>1. x \in DOMAIN disk /\ m \in FileIds(f)
      BY <1>2, <1>9, <2>5 DEF Holds
    <3>2. PICK e : e = disk'
      OBVIOUS
    <3>3. x \in DOMAIN e /\ e[x] = g
      BY <2>3, <3>1, <3>2
    <3>4. InVar(x) /\ m \in SafeIds(e[x])
      BY <1>11, <1>12, <2>5, <3>1, <3>3 DEF InVar
    <3> QED
      BY <3>2, <3>3, <3>4 DEF Durable, OnDisk
  <2>6. "offline" \in Jobs
    BY DEF Jobs
  <2>7. t \in Tasks /\ t.do = "offline"
    BY <1>7, <2>1, <2>6, MadeTaskOn
  <2>8. a \in Seq(Tasks) /\ \A i \in DOMAIN a : a[i].do \in Syncing
    BY <2>2, <2>7 DEF Syncing
  <2> QED
    BY <1>1, <1>3, <1>4, <1>5, <1>8, <2>3, <2>4, <2>5, <2>8, SyncingStep
<1>14. CASE Head(todo).do = "set_offline" /\ f.state # "online"
  <2>1. disk' = disk /\ todo' = Rest
    BY <1>1, <1>2, <1>9, <1>14 DEF SyncFile, Doing
  <2>2. PICK a : a = <<>>
    OBVIOUS
  <2>3. a \in Seq(Tasks) /\ DOMAIN a = {} /\ todo' = a \o Rest
    <3>1. Rest \in Seq(Tasks)
      BY <1>4 DEF SyncInv, ServerInv, TodoOK, Rest
    <3> QED
      BY <2>1, <2>2, <3>1
  <2>4. Preserves /\ \A l, m : Holds(l, m) => Holds(l, m)'
    BY <1>3, <2>1, StillSafe DEF Holds
  <2>5. ASSUME NEW m, loc # Runtime, Holds(loc, m) PROVE Durable(m)'
    <3>1. x \in DOMAIN disk /\ m \in FileIds(f)
      BY <1>2, <1>9, <2>5 DEF Holds
    <3>2. FileOK(x, f)
      BY <1>6, <1>9, <3>1
    <3>3. "offline" \in f.ondisk
      BY <1>12, <1>14, <3>2 DEF FileOK, File, States
    <3>4. SafeIds(f) = FileIds(f)
      <4>1. f.synced = Len(f.entries)
        BY <3>2, <3>3 DEF FileOK
      <4> QED
        BY <3>2, <4>1, SafeOf
    <3>5. InVar(x) /\ m \in SafeIds(disk[x])
      BY <1>9, <1>12, <2>5, <3>1, <3>4 DEF InVar
    <3> QED
      BY <2>1, <3>1, <3>5 DEF Durable, OnDisk
  <2> QED
    BY <1>1, <1>3, <1>4, <1>5, <1>8, <2>3, <2>4, <2>5, SyncingStep
<1>15. CASE Head(todo).do = "offline"
  <2>1. PICK h : h = SetState(f, "offline")
    OBVIOUS
  <2>2. PICK t : t = TaskOn("fsync", loc)
    OBVIOUS
  <2>3. PICK a : a = <<t>>
    OBVIOUS
  <2>4. disk' = [disk EXCEPT ![x] = h] /\ todo' = a \o Rest
    BY <1>1, <1>2, <1>9, <1>15, <2>1, <2>2, <2>3 DEF SyncFile, Doing
  <2>5. x \in DOMAIN disk => SafeIds(f) \subseteq SafeIds(h) /\ FileIds(h) = FileIds(f)
    <3>1. ASSUME x \in DOMAIN disk PROVE SafeIds(f) \subseteq SafeIds(h) /\ FileIds(h) = FileIds(f)
      <4>1. f \in File
        BY <1>6, <1>9, <3>1 DEF FileOK
      <4>2. SafeIds(h) = SafeIds(f)
        BY <2>1, <4>1, SetStateSafe
      <4>3. h.entries = f.entries
        BY <2>1, <4>1 DEF SetState, File
      <4> QED
        BY <4>2, <4>3 DEF FileIds
    <3> QED
      BY <3>1
  <2>6. Preserves /\ \A l, m : Holds(l, m) => Holds(l, m)'
    BY <1>3, <1>9, <2>4, <2>5, SyncFileSafe
  <2>7. "fsync" \in Jobs
    BY DEF Jobs
  <2>8. t \in Tasks /\ t.do = "fsync"
    BY <1>7, <2>2, <2>7, MadeTaskOn
  <2>9. a \in Seq(Tasks) /\ \A i \in DOMAIN a : a[i].do \in Syncing
    BY <2>3, <2>8 DEF Syncing
  <2>10. ~First("set_offline")
    BY <1>15 DEF First
  <2> QED
    BY <1>3, <1>4, <1>5, <1>8, <2>4, <2>6, <2>9, <2>10, SyncingStep
<1>16. CASE Head(todo).do = "fsync"
  <2>1. PICK a : a = <<>>
    OBVIOUS
  <2>2. disk' = [disk EXCEPT ![x] = g] /\ todo' = a \o Rest
    BY <1>1, <1>2, <1>9, <1>10, <1>16, <2>1 DEF SyncFile, Doing
  <2>3. Preserves /\ \A l, m : Holds(l, m) => Holds(l, m)'
    BY <1>3, <1>9, <1>11, <2>2, SyncFileSafe
  <2>4. a \in Seq(Tasks) /\ DOMAIN a = {}
    BY <2>1
  <2>5. ~First("set_offline")
    BY <1>16 DEF First
  <2> QED
    BY <1>3, <1>4, <1>5, <1>8, <2>2, <2>3, <2>4, <2>5, SyncingStep
<1> QED
  BY <1>4, <1>13, <1>14, <1>15, <1>16

\* server_sync() ends.
LEMMA SyncedDurable ==
    ASSUME SyncInv, ServerInv', Synced
    PROVE  SyncInv'
<1>1. /\ UNCHANGED <<disk, gone, seqnum, acked, msgs>> /\ todo # <<>>
      /\ Head(todo).do = "synced" /\ todo' = Rest /\ sync'.seqnum = seqnum
  BY DEF Synced, Doing
<1>2. Head(todo).do \in Syncing /\ ~First("set_offline") /\ ~First("sync")
  BY <1>1 DEF Syncing, First
<1>3. Preserves /\ \A l, m : Holds(l, m) => Holds(l, m)'
  BY <1>1, StillSafe DEF Holds
<1>4. SyncedOK'
  BY <1>1 DEF SyncInv, ServerInv, BasicsOK, SyncedOK
<1>5. PICK a : a = <<>>
  OBVIOUS
<1>6. a \in Seq(Tasks) /\ DOMAIN a = {} /\ todo' = a \o Rest
  <2>1. Rest \in Seq(Tasks)
    BY <1>1 DEF SyncInv, ServerInv, TodoOK, Rest
  <2> QED
    BY <1>1, <1>5, <2>1
<1> QED
  BY <1>1, <1>2, <1>3, <1>4, <1>6, SyncingStep

-----------------------------------------------------------------------------

\* Every step keeps the invariant.
LEMMA NextDurable ==
    ASSUME SyncInv, ServerNext
    PROVE  SyncInv'
<1>1. ServerInv'
  BY NextKeeps DEF SyncInv
<1>2. CASE Write \/ WriteAgain
  BY <1>1, <1>2, WriteDurable
<1>3. CASE WriteReturns
  BY <1>1, <1>3, ReturnDurable
<1>4. CASE Rotate
  BY <1>1, <1>4, RotateDurable
<1>5. CASE RotateRename
  BY <1>1, <1>5, RenameDurable
<1>6. CASE RotateCreate
  BY <1>1, <1>6, CreateDurable
<1>7. CASE Vacuum
  BY <1>1, <1>7, VacuumDurable
<1>8. CASE Sync
  BY <1>1, <1>8, SyncDurable
<1>9. CASE SyncFile
  BY <1>1, <1>9, SyncFileDurable
<1>10. CASE Synced
  BY <1>1, <1>10, SyncedDurable
<1>11. CASE Turn
  BY <1>1, <1>11, TurnDurable
<1>12. CASE Loop
  BY <1>1, <1>12, LoopDurable
<1>13. CASE OpenSystem
  BY <1>1, <1>13, OpenSystemDurable
<1>14. CASE OpenRuntime
  BY <1>1, <1>14, OpenRuntimeDurable
<1>15. CASE Space
  BY <1>1, <1>15, SpaceDurable
<1>16. CASE Flush
  BY <1>1, <1>16, FlushDurable
<1>17. CASE BeginFlush
  BY <1>1, <1>17, BeginFlushDurable
<1>18. CASE CopyEntry
  BY <1>1, <1>18, CopyDurable
<1>19. CASE FinishFlush
  BY <1>1, <1>19, FinishDurable
<1>20. CASE FlushFaults \/ Kill
  BY <1>1, <1>20, KillDurable
<1>21. CASE Done
  BY <1>1, <1>21, DoneDurable
<1>22. CASE Start
  BY <1>1, <1>22, StartDurable
<1>23. CASE \E uid \in scope.users \cup {"root"} : Receive(uid, scope.level)
  BY <1>1, <1>23, ReceiveDurable
<1>24. CASE SIGUSR1 \/ SIGUSR2 \/ SIGTERM
  BY <1>1, <1>24, SignalsDurable
<1>25. CASE PowerLoss
  BY <1>1, <1>25, PowerLossDurable
<1>26. CASE Tick
  <2>1. UNCHANGED <<disk, gone, sync, seqnum, acked, msgs, todo, open>>
    BY <1>26 DEF Tick
  <2> QED
    BY <1>1, <2>1, IdleDurable
<1> QED
  BY <1>2, <1>3, <1>4, <1>5, <1>6, <1>7, <1>8, <1>9, <1>10, <1>11, <1>12, <1>13, <1>14,
     <1>15, <1>16, <1>17, <1>18, <1>19, <1>20, <1>21, <1>22, <1>23, <1>24, <1>25, <1>26
  DEF ServerNext, ServerStep

\* The inductive invariant of the synchronisation: a write about to return has
\* nothing but the steps of its sync before it, and a severe message is on disk by
\* then or its file is one that this sync goes through.
THEOREM SyncInvariant == ServerSpec => []SyncInv
<1>1. ServerInit => SyncInv
  <2>1. ServerInit => ServerInv
    BY InitOK
  <2>2. ServerInit => SyncedOK /\ ReturnsOK /\ CritDurable
    BY DEF ServerInit, SyncedOK, ReturnsOK, CritDurable
  <2> QED
    BY <2>1, <2>2 DEF SyncInv
<1>2. ASSUME SyncInv, UNCHANGED serverVars PROVE SyncInv'
  <2>1. ServerInv'
    BY <1>2, StutterKeeps DEF SyncInv
  <2>2. UNCHANGED <<disk, gone, sync, seqnum, acked, msgs, todo, open>>
    BY <1>2 DEF serverVars
  <2> QED
    BY <1>2, <2>1, <2>2, IdleDurable
<1>3. SyncInv /\ [ServerNext]_serverVars => SyncInv'
  BY <1>2, NextDurable
<1> QED
  BY <1>1, <1>3, PTL DEF ServerSpec

\* server_schedule_sync(): a message of priority LOG_CRIT or more severe that was
\* written to /var is on disk when write_to_journal() returns, and stays there
\* through rotations, kills and losses of power until its file is deleted.
THEOREM SevereAreDurable == ServerSpec => []CritDurable
<1>1. SyncInv => CritDurable
  BY DEF SyncInv
<1> QED
  BY <1>1, SyncInvariant, PTL

-----------------------------------------------------------------------------
(* The order of the messages.  While nothing crashes and neither a flush   *)
(* nor the runtime journal is given up, the entries in /run are younger    *)
(* than those in /var, of one source, and copied before anything newer is  *)
(* written to /var.                                                        *)

\* The numbers of the entries of a file, with those of their messages.
Marks(f) == {[seq |-> f.entries[i].seq, id |-> f.entries[i].id] : i \in DOMAIN f.entries}

\* Messages have the order of their entries; messages of the server itself have
\* the number 0 and no place in it.
Follows(m, k) == m # 0 /\ k # 0 => m <= k

\* Entries of one source are in the order of their messages, and a source is of
\* one journal.
DirInOrder(d) ==
    \A x, y \in DOMAIN d : d[x].seqid = d[y].seqid =>
        /\ x.loc = y.loc
        /\ \A a \in Marks(d[x]), b \in Marks(d[y]) : a.seq < b.seq => Follows(a.id, b.id)

HasEntries(d) == \E x \in DOMAIN d : x.loc = Runtime /\ Marks(d[x]) # {}

\* The entries in /run are of one source, that of the runtime journal in use, or
\* about to be replaced; and it can be opened.
RuntimeInUse(d, P, isOpen) ==
    /\ \A x \in DOMAIN d : x.loc = Runtime /\ Marks(d[x]) # {} =>
         \E h \in DOMAIN d : h.loc = Runtime /\ Grows(h, P) /\ d[h].seqid = d[x].seqid
    /\ HasEntries(d) /\ ~isOpen => ~Refused(d, Runtime)

\* The tasks while the daemon starts and has not opened the runtime journal, and
\* when it has failed to.
StartTasks ==
    <<Task("open_system"), Task("open_runtime"), Task("space"), Task("vacuum"),
      Task("flush"), Driver, Task("loop")>>

Starting == todo \in {StartTasks, Tail(StartTasks), <<Task("done")>>}

\* A message that is written is the last one received.
WritesLast ==
    \A i \in DOMAIN todo : todo[i].do \in {"write", "retry"} => todo[i].id \in {0, Len(msgs)}

LeftIds(L) == {e.id : e \in L}

\* The messages that a flush has to copy yet, or would have to.
ToCopy == IF Flushing THEN LeftIds(flush.left) ELSE RuntimeIds(disk)

LeftInOrder(L) ==
    \A e, f \in L : e.seqid = f.seqid /\ (e.seq <= f.seq => Follows(e.id, f.id))

CopyInOrder ==
    /\ \A m \in VarIds(disk), k \in ToCopy : Follows(m, k)
    /\ Flushing => LeftInOrder(flush.left)
    /\ Flushing /\ ~open.runtime => flush.left = {}

OrderOK ==
    /\ RuntimeInUse(disk, Pending, open.runtime)
    /\ HasEntries(disk) /\ ~open.runtime /\ up => Starting
    /\ CopyInOrder
    /\ ~flush.err
    /\ DirInOrder(disk)

Counts == [signals : Nat, rotations : Nat, failures : Nat, crashes : Nat]

BoundsOK ==
    /\ used \in Counts
    /\ \A m \in Ids(disk, DOMAIN disk) \cup LeftIds(flush.left) : m <= Len(msgs)
    /\ WritesLast

Calm == used.crashes = 0 /\ faults = {}

OrderInv == ServerInv /\ BoundsOK /\ (Calm => OrderOK)

-----------------------------------------------------------------------------
(* What a change of the directory does to the order                        *)

\* Every file of e has entries of one file of d of the same journal and source,
\* or is a new one without entries.
Descends(d, e, new) ==
    \A x \in DOMAIN e :
        \/ \E y \in DOMAIN d : /\ y.loc = x.loc /\ d[y].seqid = e[x].seqid
                               /\ Marks(e[x]) \subseteq Marks(d[y])
        \/ /\ x = new /\ Marks(e[x]) = {}
           /\ \A y \in DOMAIN d : d[y].seqid # e[x].seqid

\* Nothing happens to the runtime journals.
RuntimeSame(d, e) ==
    \A x \in DOMAIN d \cup DOMAIN e : x.loc = Runtime =>
        x \in DOMAIN d /\ x \in DOMAIN e /\ e[x] = d[x]

\* The runtime journal in use has a successor.
Succeeded(d, P, e, Q) ==
    \A h \in DOMAIN d : h.loc = Runtime /\ Grows(h, P) =>
        \E k \in DOMAIN e : k.loc = Runtime /\ Grows(k, Q) /\ e[k].seqid = d[h].seqid

\* The entries of a file and their messages.
LEMMA MarkIds ==
    ASSUME NEW f, NEW m
    PROVE  m \in FileIds(f) <=> \E a \in Marks(f) : a.id = m
<1>1. ASSUME m \in FileIds(f) PROVE \E a \in Marks(f) : a.id = m
  <2>1. PICK i \in DOMAIN f.entries : m = f.entries[i].id
    BY <1>1 DEF FileIds
  <2>2. PICK a : a = [seq |-> f.entries[i].seq, id |-> f.entries[i].id]
    OBVIOUS
  <2>3. a \in Marks(f) /\ a.id = m
    BY <2>1, <2>2 DEF Marks
  <2> QED
    BY <2>3
<1>2. ASSUME NEW a \in Marks(f), a.id = m PROVE m \in FileIds(f)
  BY <1>2 DEF Marks, FileIds
<1> QED
  BY <1>1, <1>2

\* The entries of a file and their numbers.
LEMMA MarkSeqs ==
    ASSUME NEW f, NEW a \in Marks(f)
    PROVE  a.seq \in Seqs(f) /\ a.id \in FileIds(f)
BY DEF Marks, Seqs, FileIds

\* A file that is kept has the same entries.
LEMMA KeptMarks ==
    ASSUME NEW f, NEW g, Keeps(f, g)
    PROVE  Marks(g) = Marks(f) /\ g.seqid = f.seqid
BY DEF Keeps, Marks

\* A file without entries.
LEMMA NoMarks ==
    ASSUME NEW f, f.entries = <<>>
    PROVE  Marks(f) = {}
BY DEF Marks

\* The entry that is added to a file.
LEMMA AppendedMarks ==
    ASSUME NEW x, NEW f, FileOK(x, f), x.kind = "active",
           NEW id \in Nat, NEW at \in Nat, NEW seq \in Nat
    PROVE  /\ Marks(Appended(f, id, at, seq)) = Marks(f) \cup {[seq |-> seq, id |-> id]}
           /\ Appended(f, id, at, seq).seqid = f.seqid
<1>1. PICK g : g = SetOnline(f)
  OBVIOUS
<1>2. FileOK(x, g) /\ Keeps(f, g)
  <2>1. f.state # "archived"
    BY DEF FileOK
  <2> QED
    BY <1>1, SetOnlineKeeps
<1>3. PICK a : a = [id |-> id, at |-> at, seq |-> seq]
  OBVIOUS
<1>4. PICK h : h = Appended(f, id, at, seq)
  OBVIOUS
<1>5. g \in File /\ a \in Entry
  BY <1>2, <1>3 DEF FileOK, Entry
<1>6. h.entries = Append(g.entries, a) /\ h.seqid = g.seqid
  BY <1>1, <1>3, <1>4, <1>5 DEF Appended, File
<1>7. PICK s \in Seq(Entry) : s = g.entries
  BY <1>5 DEF File
<1>8. PICK n \in Nat : n = Len(s) /\ DOMAIN s = 1..n
  BY <1>7
<1>9. PICK t : t = Append(s, a)
  OBVIOUS
<1>10. DOMAIN t = 1..(n + 1) /\ t[n + 1] = a /\ \A i \in 1..n : t[i] = s[i]
  BY <1>5, <1>7, <1>8, <1>9
<1>11. Marks(h) = {[seq |-> t[i].seq, id |-> t[i].id] : i \in 1..(n + 1)}
  BY <1>6, <1>7, <1>9, <1>10 DEF Marks
<1>12. Marks(f) = {[seq |-> s[i].seq, id |-> s[i].id] : i \in 1..n}
  BY <1>2, <1>7, <1>8 DEF Marks, Keeps
<1>13. a.seq = seq /\ a.id = id
  BY <1>3
<1>14. Marks(h) = Marks(f) \cup {[seq |-> seq, id |-> id]}
  <2>1. ASSUME NEW b \in Marks(h) PROVE b \in Marks(f) \cup {[seq |-> seq, id |-> id]}
    <3>1. PICK i \in 1..(n + 1) : b = [seq |-> t[i].seq, id |-> t[i].id]
      BY <1>11
    <3>2. CASE i = n + 1
      BY <1>10, <1>13, <3>1, <3>2
    <3>3. CASE i # n + 1
      <4>1. i \in 1..n
        BY <3>3
      <4> QED
        BY <1>10, <1>12, <3>1, <4>1
    <3> QED
      BY <3>2, <3>3
  <2>2. ASSUME NEW b \in Marks(f) PROVE b \in Marks(h)
    <3>1. PICK i \in 1..n : b = [seq |-> s[i].seq, id |-> s[i].id]
      BY <1>12
    <3>2. i \in 1..(n + 1) /\ t[i] = s[i]
      BY <1>10
    <3> QED
      BY <1>11, <3>1, <3>2
  <2>3. [seq |-> seq, id |-> id] \in Marks(h)
    <3>1. n + 1 \in 1..(n + 1)
      OBVIOUS
    <3> QED
      BY <1>10, <1>11, <1>13, <3>1
  <2> QED
    BY <2>1, <2>2, <2>3
<1> QED
  BY <1>2, <1>4, <1>6, <1>14 DEF Keeps

\* A directory that descends from one in order is in order, and has no messages
\* that the other had not.
LEMMA Descent ==
    ASSUME NEW d, NEW e, NEW new, Descends(d, e, new)
    PROVE  /\ DirInOrder(d) => DirInOrder(e)
           /\ HasEntries(e) => HasEntries(d)
           /\ VarIds(e) \subseteq VarIds(d) /\ RuntimeIds(e) \subseteq RuntimeIds(d)
           /\ Ids(e, DOMAIN e) \subseteq Ids(d, DOMAIN d)
<1>1. ASSUME NEW x \in DOMAIN e, Marks(e[x]) # {}
      PROVE  \E y \in DOMAIN d : /\ y.loc = x.loc /\ d[y].seqid = e[x].seqid
                                 /\ Marks(e[x]) \subseteq Marks(d[y])
  BY <1>1 DEF Descends
<1>2. ASSUME NEW x \in DOMAIN e, NEW m \in FileIds(e[x])
      PROVE  \E y \in DOMAIN d : y.loc = x.loc /\ m \in FileIds(d[y])
  <2>1. PICK a \in Marks(e[x]) : a.id = m
    BY <1>2, MarkIds
  <2>2. PICK y \in DOMAIN d : y.loc = x.loc /\ Marks(e[x]) \subseteq Marks(d[y])
    BY <1>1, <2>1
  <2> QED
    BY <2>1, <2>2, MarkIds
<1>3. ASSUME DirInOrder(d), NEW x \in DOMAIN e, NEW y \in DOMAIN e, e[x].seqid = e[y].seqid
      PROVE  /\ x.loc = y.loc
             /\ \A a \in Marks(e[x]), b \in Marks(e[y]) : a.seq < b.seq => Follows(a.id, b.id)
  <2>1. CASE x = new /\ Marks(e[x]) = {} /\ \A z \in DOMAIN d : d[z].seqid # e[x].seqid
    <3>1. y = new
      BY <1>3, <2>1 DEF Descends
    <3> QED
      BY <2>1, <3>1
  <2>2. CASE y = new /\ Marks(e[y]) = {} /\ \A z \in DOMAIN d : d[z].seqid # e[y].seqid
    <3>1. x = new
      BY <1>3, <2>2 DEF Descends
    <3> QED
      BY <2>2, <3>1
  <2>3. CASE /\ \E v \in DOMAIN d : /\ v.loc = x.loc /\ d[v].seqid = e[x].seqid
                                    /\ Marks(e[x]) \subseteq Marks(d[v])
             /\ \E w \in DOMAIN d : /\ w.loc = y.loc /\ d[w].seqid = e[y].seqid
                                    /\ Marks(e[y]) \subseteq Marks(d[w])
    <3>1. PICK v \in DOMAIN d : /\ v.loc = x.loc /\ d[v].seqid = e[x].seqid
                                /\ Marks(e[x]) \subseteq Marks(d[v])
      BY <2>3
    <3>2. PICK w \in DOMAIN d : /\ w.loc = y.loc /\ d[w].seqid = e[y].seqid
                                /\ Marks(e[y]) \subseteq Marks(d[w])
      BY <2>3
    <3>3. /\ v.loc = w.loc
          /\ \A a \in Marks(d[v]), b \in Marks(d[w]) : a.seq < b.seq => Follows(a.id, b.id)
      BY <1>3, <3>1, <3>2 DEF DirInOrder
    <3> QED
      BY <3>1, <3>2, <3>3
  <2> QED
    BY <2>1, <2>2, <2>3 DEF Descends
<1>4. DirInOrder(d) => DirInOrder(e)
  BY <1>3 DEF DirInOrder
<1>5. HasEntries(e) => HasEntries(d)
  <2> SUFFICES ASSUME NEW x \in DOMAIN e, x.loc = Runtime, Marks(e[x]) # {} PROVE HasEntries(d)
    BY DEF HasEntries
  <2> QED
    BY <1>1 DEF HasEntries
<1>6. ASSUME NEW m \in VarIds(e) PROVE m \in VarIds(d)
  <2>1. PICK x \in {z \in DOMAIN e : InVar(z)} : m \in FileIds(e[x])
    BY IdsOf DEF VarIds
  <2>2. PICK y \in DOMAIN d : y.loc = x.loc /\ m \in FileIds(d[y])
    BY <1>2, <2>1
  <2>3. y \in {z \in DOMAIN d : InVar(z)}
    BY <2>1, <2>2 DEF InVar
  <2> QED
    BY <2>2, <2>3, IdsOf DEF VarIds
<1>7. RuntimeIds(e) \subseteq RuntimeIds(d)
  <2>1. NoneNew(d, e)
    BY <1>2 DEF NoneNew
  <2> QED
    BY <2>1, NoneNewIds
<1>8. ASSUME NEW m \in Ids(e, DOMAIN e) PROVE m \in Ids(d, DOMAIN d)
  BY <1>2, IdsOf
<1> QED
  BY <1>4, <1>5, <1>6, <1>7, <1>8

\* Files with the same entries under the same names.
LEMMA SameDescends ==
    ASSUME NEW d, NEW e, NEW h, NEW new, DOMAIN d = DOMAIN e,
           \A x \in DOMAIN d : Marks(e[x]) = Marks(d[x]) /\ e[x].seqid = d[x].seqid,
           Descends(e, h, new)
    PROVE  Descends(d, h, new)
BY DEF Descends

\* A file is replaced by one with the same entries.
LEMMA ReplacedDescends ==
    ASSUME NEW d, NEW x, NEW g, NEW new, x \in DOMAIN d => Keeps(d[x], g),
           NEW e, e = [d EXCEPT ![x] = g]
    PROVE  /\ Descends(d, e, new) /\ DOMAIN e = DOMAIN d
           /\ \A y \in DOMAIN d : Marks(e[y]) = Marks(d[y]) /\ e[y].seqid = d[y].seqid
           /\ \A P : Succeeded(d, P, e, P)
           /\ (x \in DOMAIN d => x.loc # Runtime) => RuntimeSame(d, e)
<1>1. DOMAIN e = DOMAIN d /\ \A y \in DOMAIN d : e[y] = IF y = x THEN g ELSE d[y]
  OBVIOUS
<1>2. \A y \in DOMAIN d : Marks(e[y]) = Marks(d[y]) /\ e[y].seqid = d[y].seqid
  BY <1>1, KeptMarks
<1>3. Descends(d, e, new)
  BY <1>1, <1>2 DEF Descends
<1>4. \A P : Succeeded(d, P, e, P)
  BY <1>1, <1>2 DEF Succeeded
<1>5. (x \in DOMAIN d => x.loc # Runtime) => RuntimeSame(d, e)
  BY <1>1 DEF RuntimeSame
<1> QED
  BY <1>1, <1>2, <1>3, <1>4, <1>5

\* A file gets another name.
LEMMA RenamedDescends ==
    ASSUME NEW d, NEW x \in DOMAIN d, NEW to, x.loc = to.loc, NEW new, NEW e, e = Renamed(d, x, to)
    PROVE  Descends(d, e, new) /\ (x.loc # Runtime => RuntimeSame(d, e))
<1>1. /\ DOMAIN e = (DOMAIN d \ {x}) \cup {to} /\ e[to] = d[x]
      /\ \A y \in DOMAIN e : y # to => y \in DOMAIN d /\ y # x /\ e[y] = d[y]
  BY DEF Renamed, With, Without
<1>2. Descends(d, e, new)
  BY <1>1 DEF Descends
<1>3. x.loc # Runtime => RuntimeSame(d, e)
  BY <1>1 DEF RuntimeSame
<1> QED
  BY <1>2, <1>3

\* Files are removed.
LEMMA RemovedDescends ==
    ASSUME NEW d, NEW names, NEW new, NEW e, e = Without(d, names)
    PROVE  Descends(d, e, new)
<1>1. DOMAIN e \subseteq DOMAIN d /\ \A x \in DOMAIN e : e[x] = d[x]
  BY DEF Without
<1> QED
  BY <1>1 DEF Descends

\* journal_file_open_reliably(), with every outcome.
LEMMA OpeningDescends ==
    ASSUME NEW d, NEW loc \in Locs, DiskOK(d, ids, {}), ids \in Nat, clock \in Nat,
           NEW e, e = OpenReliably(d, loc) \/ e \in OpenFailures(d, loc)
    PROVE  Descends(d, e, Active(loc)) /\ (loc # Runtime => RuntimeSame(d, e))
<1>1. PICK x : x = Active(loc)
  OBVIOUS
<1>2. x \in FileNames /\ x.kind = "active" /\ x.loc = loc
  BY <1>1, NamesOK
<1>3. PICK a : a = PutAside(d, loc)
  OBVIOUS
<1>4. Descends(d, a, x) /\ (loc # Runtime => RuntimeSame(d, a)) /\ (x \in DOMAIN a => a = d)
  <2>1. CASE Refused(d, loc)
    <3>1. PICK to : to = Name(loc, "corrupted", clock)
      OBVIOUS
    <3>2. to.loc = loc /\ x \in DOMAIN d /\ a = Renamed(d, x, to)
      BY <1>1, <1>3, <2>1, <3>1 DEF Name, PutAside, Refused
    <3>3. x \in DOMAIN a => a = d
      BY <1>1, <1>3, PutAsideKeeps
    <3> QED
      BY <1>2, <3>2, <3>3, RenamedDescends
  <2>2. CASE ~Refused(d, loc)
    <3>1. a = d
      BY <1>3, <2>2 DEF PutAside
    <3> QED
      BY <3>1 DEF Descends, RuntimeSame
  <2> QED
    BY <2>1, <2>2
<1>5. ASSUME NEW f, e = With(a, x, f), x \in DOMAIN a => Keeps(a[x], f),
             x \notin DOMAIN a => f.entries = <<>> /\ f.seqid = ids + 1
      PROVE  Descends(d, e, x) /\ (loc # Runtime => RuntimeSame(d, e))
  <2>1. DOMAIN e = DOMAIN a \cup {x} /\ e[x] = f /\ \A y \in DOMAIN a : y # x => e[y] = a[y]
    BY <1>5 DEF With
  <2>2. RuntimeSame(d, a) /\ loc # Runtime => RuntimeSame(d, e)
    BY <1>2, <2>1 DEF RuntimeSame
  <2>3. CASE x \in DOMAIN a
    <3>1. a = d /\ Marks(f) = Marks(a[x]) /\ f.seqid = a[x].seqid
      BY <1>4, <1>5, <2>3, KeptMarks
    <3>2. Descends(d, e, x)
      BY <2>1, <2>3, <3>1 DEF Descends
    <3> QED
      BY <1>4, <2>2, <3>2
  <2>4. CASE x \notin DOMAIN a
    <3>1. Marks(f) = {} /\ f.seqid = ids + 1
      BY <1>5, <2>4, NoMarks
    <3>2. \A y \in DOMAIN d : d[y].seqid # ids + 1
      <4>1. \A y \in DOMAIN d : d[y].seqid \in Nat /\ d[y].seqid <= ids
        BY Numbers DEF DiskOK
      <4> QED
        BY <4>1
    <3>3. Descends(d, e, x)
      BY <1>4, <2>1, <3>1, <3>2 DEF Descends
    <3> QED
      BY <1>4, <2>2, <3>3
  <2> QED
    BY <2>3, <2>4
<1>6. CASE e = OpenReliably(d, loc)
  <2>1. PICK f : f = IF x \in DOMAIN a THEN Fsync(SetOnline(a[x])) ELSE NewFile(ids + 1, 0)
    OBVIOUS
  <2>2. e = With(a, x, f)
    BY <1>1, <1>3, <1>6, <2>1 DEF OpenReliably
  <2>3. ASSUME x \in DOMAIN a PROVE Keeps(a[x], f)
    <3>1. FileOK(x, a[x]) /\ a[x].state # "archived"
      BY <1>2, <1>4, <2>3 DEF DiskOK, FileOK
    <3>2. PICK g : g = SetOnline(a[x])
      OBVIOUS
    <3>3. FileOK(x, g) /\ Keeps(a[x], g)
      BY <3>1, <3>2, SetOnlineKeeps
    <3>4. Keeps(g, f)
      BY <2>1, <2>3, <3>2, <3>3, FsyncKeeps
    <3> QED
      BY <3>3, <3>4 DEF Keeps
  <2>4. x \notin DOMAIN a => f.entries = <<>> /\ f.seqid = ids + 1
    BY <2>1 DEF NewFile
  <2> QED
    BY <1>1, <1>5, <2>2, <2>3, <2>4
<1>7. CASE e \in OpenFailures(d, loc)
  <2>1. PICK f : f = SetOffline([NewFile(ids + 1, 0) EXCEPT !.tables = FALSE])
    OBVIOUS
  <2>2. e = d \/ e = a \/ (x \notin DOMAIN a /\ e = With(a, x, f))
    BY <1>1, <1>3, <1>7, <2>1 DEF OpenFailures
  <2>3. f.entries = <<>> /\ f.seqid = ids + 1
    <3>1. PICK n \in Nat : n = ids + 1
      OBVIOUS
    <3> QED
      BY <1>2, <2>1, <3>1, StubOK
  <2>4. CASE e = d
    BY <1>1, <2>4 DEF Descends, RuntimeSame
  <2> QED
    BY <1>1, <1>4, <1>5, <2>2, <2>3, <2>4
<1> QED
  BY <1>6, <1>7

\* The entries in /run stay with the journal in use or its successor.
LEMMA InUseKept ==
    ASSUME NEW d, NEW P, NEW e, NEW Q, NEW new, NEW o, NEW q, RuntimeInUse(d, P, o),
           Descends(d, e, new), Succeeded(d, P, e, Q),
           HasEntries(e) /\ ~q => ~Refused(e, Runtime)
    PROVE  RuntimeInUse(e, Q, q)
<1> SUFFICES ASSUME NEW x \in DOMAIN e, x.loc = Runtime, Marks(e[x]) # {}
             PROVE  \E k \in DOMAIN e : k.loc = Runtime /\ Grows(k, Q) /\ e[k].seqid = e[x].seqid
  BY DEF RuntimeInUse
<1>1. PICK y \in DOMAIN d : /\ y.loc = x.loc /\ d[y].seqid = e[x].seqid
                            /\ Marks(e[x]) \subseteq Marks(d[y])
  BY DEF Descends
<1>2. PICK h \in DOMAIN d : h.loc = Runtime /\ Grows(h, P) /\ d[h].seqid = d[y].seqid
  BY <1>1 DEF RuntimeInUse
<1> QED
  BY <1>1, <1>2 DEF Succeeded

\* Runtime journals that are left alone.
LEMMA SameRuntime ==
    ASSUME NEW d, NEW e, RuntimeSame(d, e)
    PROVE  /\ \A P : Succeeded(d, P, e, P)
           /\ Refused(e, Runtime) = Refused(d, Runtime)
           /\ HasEntries(e) => HasEntries(d)
           /\ RuntimeIds(e) \subseteq RuntimeIds(d)
<1>1. \A P : Succeeded(d, P, e, P)
  BY DEF Succeeded, RuntimeSame
<1>2. Active(Runtime).loc = Runtime
  BY DEF Active, Name
<1>3. Refused(e, Runtime) = Refused(d, Runtime)
  BY <1>2 DEF Refused, RuntimeSame
<1>4. HasEntries(e) => HasEntries(d)
  BY DEF HasEntries, RuntimeSame
<1>5. NoneNew(d, e)
  BY DEF NoneNew, RuntimeSame
<1> QED
  BY <1>1, <1>3, <1>4, <1>5, NoneNewIds

\* Without entries no journal has to be in use.
LEMMA NoEntries ==
    ASSUME NEW d, ~HasEntries(d)
    PROVE  RuntimeIds(d) = {} /\ \A P, o : RuntimeInUse(d, P, o)
<1>1. \A P, o : RuntimeInUse(d, P, o)
  BY DEF RuntimeInUse, HasEntries
<1>2. ASSUME NEW m \in RuntimeIds(d) PROVE FALSE
  <2>1. PICK x \in {z \in DOMAIN d : ~InVar(z)} : m \in FileIds(d[x])
    BY IdsOf DEF RuntimeIds
  <2>2. Marks(d[x]) # {}
    BY <2>1, MarkIds
  <2> QED
    BY <2>1, <2>2 DEF HasEntries, InVar
<1> QED
  BY <1>1, <1>2

\* A file in use gets an entry with a number above its tail, for a message that
\* follows those of the source.
LEMMA AppendOrder ==
    ASSUME NEW d, NEW n \in Nat, DiskOK(d, n, {}), DirInOrder(d), NEW x \in DOMAIN d, x.kind = "active",
           NEW g, NEW b, g.seqid = d[x].seqid, Marks(g) \subseteq Marks(d[x]) \cup {b},
           b.seq \in Nat, b.seq > d[x].tail,
           \A y \in DOMAIN d : d[y].seqid = d[x].seqid =>
             \A a \in Marks(d[y]) : Follows(a.id, b.id),
           NEW e, e = [d EXCEPT ![x] = g]
    PROVE  DirInOrder(e)
<1>1. DOMAIN e = DOMAIN d /\ e[x] = g /\ \A y \in DOMAIN d : y # x => e[y] = d[y]
  OBVIOUS
<1>2. ASSUME NEW y \in DOMAIN d, d[y].seqid = d[x].seqid, NEW a \in Marks(d[y])
      PROVE  a.seq \in Nat /\ a.seq < b.seq
  <2>1. a.seq \in Seqs(d[y]) /\ FileOK(y, d[y]) /\ FileOK(x, d[x])
    BY MarkSeqs DEF DiskOK
  <2>2. a.seq \in Nat /\ d[x].tail \in Nat
    BY <2>1, Numbers
  <2>3. a.seq <= d[x].tail
    <3>1. CASE y = x
      BY <2>1, <3>1 DEF FileOK
    <3>2. CASE y # x
      <4>1. \A c \in Seqs(d[y]) : c <= d[x].tail
        BY <1>2, <3>2 DEF DiskOK, Chained, Grows
      <4> QED
        BY <2>1, <4>1
    <3> QED
      BY <3>1, <3>2
  <2> QED
    BY <2>2, <2>3
<1>3. \A y \in DOMAIN d : e[y].seqid = d[y].seqid
  BY <1>1
<1>4. \A y \in DOMAIN d : \A a \in Marks(e[y]) : a \in Marks(d[y]) \/ (y = x /\ a = b)
  BY <1>1
<1> SUFFICES ASSUME NEW y \in DOMAIN d, NEW z \in DOMAIN d, d[y].seqid = d[z].seqid
             PROVE  /\ y.loc = z.loc
                    /\ \A a \in Marks(e[y]), c \in Marks(e[z]) : a.seq < c.seq => Follows(a.id, c.id)
  BY <1>1, <1>3 DEF DirInOrder
<1>5. /\ y.loc = z.loc
      /\ \A a \in Marks(d[y]), c \in Marks(d[z]) : a.seq < c.seq => Follows(a.id, c.id)
  BY DEF DirInOrder
<1>6. ASSUME NEW a \in Marks(e[y]), NEW c \in Marks(e[z]), a.seq < c.seq
      PROVE  Follows(a.id, c.id)
  <2>1. CASE a \in Marks(d[y]) /\ c \in Marks(d[z])
    BY <1>5, <1>6, <2>1
  <2>2. CASE a \in Marks(d[y]) /\ z = x /\ c = b
    BY <2>2
  <2>3. CASE y = x /\ a = b /\ c \in Marks(d[z])
    <3>1. c.seq \in Nat /\ c.seq < b.seq
      BY <1>2, <2>3
    <3> QED
      BY <1>6, <2>3, <3>1
  <2>4. CASE a = b /\ c = b
    BY <1>6, <2>4
  <2> QED
    BY <1>4, <2>1, <2>2, <2>3, <2>4
<1> QED
  BY <1>5, <1>6

\* The messages of a directory in which one file got an entry.
LEMMA AppendIds ==
    ASSUME NEW d, NEW x \in DOMAIN d, NEW g, NEW b, Marks(g) \subseteq Marks(d[x]) \cup {b},
           NEW e, e = [d EXCEPT ![x] = g]
    PROVE  /\ Ids(e, DOMAIN e) \subseteq Ids(d, DOMAIN d) \cup {b.id}
           /\ InVar(x) => VarIds(e) \subseteq VarIds(d) \cup {b.id} /\ RuntimeSame(d, e)
           /\ ~InVar(x) => VarIds(e) \subseteq VarIds(d) /\ RuntimeIds(e) \subseteq RuntimeIds(d) \cup {b.id}
<1>1. DOMAIN e = DOMAIN d /\ e[x] = g /\ \A y \in DOMAIN d : y # x => e[y] = d[y]
  OBVIOUS
<1>2. ASSUME NEW y \in DOMAIN d, NEW m \in FileIds(e[y])
      PROVE  m \in FileIds(d[y]) \/ (y = x /\ m = b.id)
  <2>1. PICK a \in Marks(e[y]) : a.id = m
    BY MarkIds
  <2>2. a \in Marks(d[y]) \/ (y = x /\ a = b)
    BY <1>1
  <2> QED
    BY <2>1, <2>2, MarkIds
<1>3. ASSUME NEW S \in SUBSET DOMAIN d, NEW m \in Ids(e, S)
      PROVE  m \in Ids(d, S) \/ (x \in S /\ m = b.id)
  <2>1. PICK y \in S : m \in FileIds(e[y])
    BY <1>3, IdsOf
  <2>2. m \in FileIds(d[y]) \/ (y = x /\ m = b.id)
    BY <1>2, <2>1
  <2> QED
    BY <2>1, <2>2, IdsOf
<1>4. Ids(e, DOMAIN e) \subseteq Ids(d, DOMAIN d) \cup {b.id}
  BY <1>1, <1>3
<1>5. PICK V : V = {y \in DOMAIN d : InVar(y)}
  OBVIOUS
<1>6. PICK R : R = {y \in DOMAIN d : ~InVar(y)}
  OBVIOUS
<1>7. /\ VarIds(e) = Ids(e, V) /\ VarIds(d) = Ids(d, V) /\ V \subseteq DOMAIN d
      /\ RuntimeIds(e) = Ids(e, R) /\ RuntimeIds(d) = Ids(d, R) /\ R \subseteq DOMAIN d
      /\ (InVar(x) => x \notin R) /\ (~InVar(x) => x \notin V)
  BY <1>1, <1>5, <1>6 DEF VarIds, RuntimeIds
<1>10. \A S \in SUBSET DOMAIN d : /\ Ids(e, S) \subseteq Ids(d, S) \cup {b.id}
                                  /\ x \notin S => Ids(e, S) \subseteq Ids(d, S)
  BY <1>3
<1>8. /\ InVar(x) => VarIds(e) \subseteq VarIds(d) \cup {b.id}
      /\ ~InVar(x) => VarIds(e) \subseteq VarIds(d) /\ RuntimeIds(e) \subseteq RuntimeIds(d) \cup {b.id}
  BY <1>7, <1>10
<1>9. InVar(x) => RuntimeSame(d, e)
  BY <1>1 DEF InVar, RuntimeSame
<1> QED
  BY <1>4, <1>8, <1>9

-----------------------------------------------------------------------------
(* Steps of a handler that add no entries                                  *)

FlushJobs == {"copy", "recopy", "finish"}

\* Tasks that neither copy nor write another message than the last one.
Harmless ==
    {t \in Tasks : /\ t.do \notin FlushJobs
                   /\ t.do \in {"write", "retry"} => t.id \in {0, Len(msgs)}}

\* Such tasks are put in the place of the first one: a flush goes on waiting.
LEMMA HarmlessPush ==
    ASSUME ServerInv, WritesLast, todo # <<>>, Head(todo).do \notin FlushJobs,
           NEW a \in Seq(Harmless), todo' = a \o Rest, msgs' = msgs
    PROVE  WritesLast' /\ Flushing' = Flushing
<1>1. PICK s \in Seq(Tasks) : s = todo
  BY DEF ServerInv, TodoOK
<1>2. a \in Seq(Tasks) /\ \A i \in DOMAIN a : a[i] \in Harmless
  BY DEF Harmless
<1>3. PICK q : q = todo'
  OBVIOUS
<1>4. PICK m \in Nat : m = Len(a) /\ DOMAIN a = 1..m
  BY <1>2
<1>5. s # <<>> /\ q = a \o Tail(s) /\ s[1] = Head(todo)
  BY <1>1, <1>3 DEF Rest
<1>6. \A k \in DOMAIN q : \/ k \in DOMAIN a /\ q[k] = a[k]
                          \/ /\ k > m /\ k - m + 1 \in DOMAIN s
                             /\ k - m + 1 # 1 /\ q[k] = s[k - m + 1]
  BY <1>2, <1>4, <1>5, Pushed
<1>7. WritesLast'
  <2> SUFFICES ASSUME NEW k \in DOMAIN q, q[k].do \in {"write", "retry"}
               PROVE  q[k].id \in {0, Len(msgs)}
    BY <1>3 DEF WritesLast
  <2>1. CASE k \in DOMAIN a /\ q[k] = a[k]
    BY <1>2, <2>1 DEF Harmless
  <2>2. CASE k - m + 1 \in DOMAIN s /\ q[k] = s[k - m + 1]
    <3>1. PICK j \in DOMAIN s : q[k] = s[j]
      BY <2>2
    <3> QED
      BY <1>1, <3>1 DEF WritesLast
  <2> QED
    BY <1>6, <2>1, <2>2
<1>8. ASSUME Flushing' PROVE Flushing
  <2>1. PICK k \in DOMAIN q : q[k].do \in FlushJobs
    BY <1>3, <1>8 DEF Flushing, FlushJobs
  <2>2. k \notin DOMAIN a \/ q[k] # a[k]
    BY <1>2, <2>1 DEF Harmless
  <2>3. PICK j \in DOMAIN s : q[k] = s[j]
    BY <1>6, <2>2
  <2> QED
    BY <1>1, <2>1, <2>3 DEF Flushing, FlushJobs
<1>9. ASSUME Flushing PROVE Flushing'
  <2>1. PICK j \in DOMAIN s : s[j].do \in FlushJobs
    BY <1>1, <1>9 DEF Flushing, FlushJobs
  <2>2. PICK n \in Nat : n = Len(s) /\ DOMAIN s = 1..n
    BY <1>1
  <2>3. j # 1 /\ j \in 1..n
    BY <1>5, <2>1, <2>2
  <2>4. PICK t : t = Tail(s)
    OBVIOUS
  <2>5. t \in Seq(Tasks) /\ Len(t) = n - 1 /\ t[j - 1] = s[j] /\ j - 1 \in 1..(n - 1)
    BY <1>1, <1>5, <2>2, <2>3, <2>4
  <2>6. q[m + (j - 1)] = t[j - 1] /\ m + (j - 1) \in DOMAIN q
    BY <1>2, <1>4, <1>5, <2>2, <2>4, <2>5
  <2> QED
    BY <1>3, <2>1, <2>5, <2>6 DEF Flushing, FlushJobs
<1>10. Flushing \in BOOLEAN /\ Flushing' \in BOOLEAN
  BY DEF Flushing
<1> QED
  BY <1>7, <1>8, <1>9, <1>10

\* A step that is not a crash.
NoCrash == used' \in Counts /\ used'.crashes = used.crashes

\* Such a step uses up none or another of the bounds.
LEMMA NoCrashes ==
    ASSUME used \in Counts,
           \/ used' = used \/ used' = Failed
           \/ used' = [used EXCEPT !.rotations = @ + 1]
           \/ used' = [Failed EXCEPT !.rotations = @ + 1]
           \/ used' = [Failed EXCEPT !.failures = @ + 1]
           \/ used' = [used EXCEPT !.signals = @ + 1]
    PROVE  NoCrash
<1>1. PICK f : f = Failed
  OBVIOUS
<1>2. f \in Counts /\ f.crashes = used.crashes
  BY <1>1 DEF Failed, Counts
<1>3. \/ used' = used \/ used' = f
      \/ used' = [used EXCEPT !.rotations = @ + 1]
      \/ used' = [f EXCEPT !.rotations = @ + 1]
      \/ used' = [f EXCEPT !.failures = @ + 1]
      \/ used' = [used EXCEPT !.signals = @ + 1]
  BY <1>1
<1> QED
  BY <1>2, <1>3 DEF NoCrash, Counts

\* No number is above that of the last message.
LEMMA BoundsKept ==
    ASSUME BoundsOK, NoCrash, WritesLast', msgs' = msgs,
           \A m \in Ids(disk', DOMAIN disk') \cup LeftIds(flush'.left) :
             m \in Ids(disk, DOMAIN disk) \cup LeftIds(flush.left) \/ m <= Len(msgs)
    PROVE  BoundsOK'
BY DEF BoundsOK, NoCrash

\* What a flush has to copy stays younger than what is in /var.
LEMMA CopyKept ==
    ASSUME CopyInOrder, VarIds(disk') \subseteq VarIds(disk),
           RuntimeIds(disk') \subseteq RuntimeIds(disk),
           \/ ~Flushing /\ ~Flushing'
           \/ flush' = flush /\ Flushing' = Flushing /\ open'.runtime = open.runtime
    PROVE  CopyInOrder'
<1>1. ToCopy' \subseteq ToCopy
  BY DEF ToCopy
<1> QED
  BY <1>1 DEF CopyInOrder

\* A daemon that has not opened a runtime journal with entries is starting.
LEMMA StartingHead ==
    ASSUME Starting
    PROVE  /\ todo # <<>> /\ Head(todo).do \in {"open_system", "open_runtime", "done"}
           /\ Head(todo).do = "open_system" => todo = StartTasks
<1>1. PICK s : s = StartTasks
  OBVIOUS
<1>2. s # <<>> /\ Head(s) = Task("open_system") /\ Tail(s) # <<>>
      /\ Head(Tail(s)) = Task("open_runtime")
  BY <1>1 DEF StartTasks
<1>3. /\ Task("open_system").do = "open_system" /\ Task("open_runtime").do = "open_runtime"
      /\ Task("done").do = "done"
  BY DEF Task
<1>4. <<Task("done")>> # <<>> /\ Head(<<Task("done")>>) = Task("done")
  OBVIOUS
<1> QED
  BY <1>1, <1>2, <1>3, <1>4 DEF Starting

\* What is left to show of a step that adds no entries, of the order
LEMMA CalmOrder ==
    ASSUME OrderInv, Calm', faults' = faults, NoCrash, ~flush'.err \/ flush' = flush,
           \/ ~Flushing /\ ~Flushing'
           \/ flush' = flush /\ Flushing' = Flushing /\ open'.runtime = open.runtime,
           NEW new, Descends(disk, disk', new),
           OrderOK => /\ RuntimeInUse(disk', Pending', open'.runtime)
                      /\ HasEntries(disk') /\ ~open'.runtime /\ up' => Starting'
    PROVE  OrderOK'
<1>1. PICK e : e = disk'
  OBVIOUS
<1>2. /\ DirInOrder(disk) => DirInOrder(e)
      /\ VarIds(e) \subseteq VarIds(disk) /\ RuntimeIds(e) \subseteq RuntimeIds(disk)
  BY <1>1, Descent
<1>3. OrderOK
  BY DEF OrderInv, Calm, NoCrash
<1>4. CopyInOrder'
  BY <1>1, <1>2, <1>3, CopyKept DEF OrderOK
<1>5. DirInOrder(disk') /\ ~flush'.err
  BY <1>1, <1>2, <1>3 DEF OrderOK
<1> QED
  BY <1>3, <1>4, <1>5 DEF OrderOK

\* and altogether.
LEMMA DescentOrder ==
    ASSUME OrderInv, WritesLast', Flushing' = Flushing,
           Flushing => open'.runtime = open.runtime,
           UNCHANGED <<msgs, flush, faults>>, NoCrash, NEW new, Descends(disk, disk', new),
           OrderOK => /\ RuntimeInUse(disk', Pending', open'.runtime)
                      /\ HasEntries(disk') /\ ~open'.runtime /\ up' => Starting'
    PROVE  BoundsOK' /\ (Calm' => OrderOK')
<1>1. PICK e : e = disk'
  OBVIOUS
<1>2. Ids(e, DOMAIN e) \subseteq Ids(disk, DOMAIN disk)
  BY <1>1, Descent
<1>3. BoundsOK'
  BY <1>1, <1>2, BoundsKept DEF OrderInv
<1>4. \/ ~Flushing /\ ~Flushing'
      \/ flush' = flush /\ Flushing' = Flushing /\ open'.runtime = open.runtime
  BY DEF Flushing
<1> QED
  BY <1>3, <1>4, CalmOrder

\* A step of a handler that is not starting and does not flush.
LEMMA OrderStep ==
    ASSUME OrderInv, up, todo # <<>>,
           Head(todo).do \notin FlushJobs \cup {"open_system", "open_runtime", "done"},
           NEW a \in Seq(Harmless), todo' = a \o Rest,
           UNCHANGED <<up, msgs, flush, faults>>, NoCrash,
           NEW new, Descends(disk, disk', new), Succeeded(disk, Pending, disk', Pending'),
           open'.runtime = open.runtime
    PROVE  BoundsOK' /\ (Calm' => OrderOK')
<1>1. WritesLast' /\ Flushing' = Flushing
  BY HarmlessPush DEF OrderInv, BoundsOK
<1>2. PICK e : e = disk'
  OBVIOUS
<1>3. HasEntries(e) => HasEntries(disk)
  BY <1>2, Descent
<1>4. ASSUME OrderOK
      PROVE  /\ RuntimeInUse(disk', Pending', open'.runtime)
             /\ HasEntries(disk') /\ ~open'.runtime /\ up' => Starting'
  <2>1. HasEntries(e) => open'.runtime
    BY <1>3, <1>4, StartingHead DEF OrderOK
  <2>2. RuntimeInUse(disk', Pending', open'.runtime)
    BY <1>2, <1>4, <2>1, InUseKept DEF OrderOK
  <2> QED
    BY <1>2, <2>1, <2>2
<1> QED
  BY <1>1, <1>4, DescentOrder

\* Plain tasks are harmless.
LEMMA PlainHarmless == Plain \subseteq Harmless /\ Seq(Plain) \subseteq Seq(Harmless)
<1>1. Plain \subseteq Harmless
  BY DEF Plain, Ordinary, Harmless, FlushJobs
<1> QED
  BY <1>1

\* No task is put in the place of the first one.
LEMMA NoTasks ==
    ASSUME ServerInv
    PROVE  <<>> \in Seq(Harmless) /\ Rest = <<>> \o Rest
<1>1. <<>> \in Seq(Harmless)
  OBVIOUS
<1>2. CASE todo = <<>>
  BY <1>1, <1>2 DEF Rest, ServerInv, TodoOK
<1>3. CASE todo # <<>>
  BY <1>1, <1>3 DEF Rest, ServerInv, TodoOK
<1> QED
  BY <1>1, <1>2, <1>3

\* A journal in use that has a successor in use has one whatever is renamed.
LEMMA StillInUse ==
    ASSUME NEW d, NEW P, NEW e, Succeeded(d, P, e, {}), NEW Q
    PROVE  Succeeded(d, P, e, Q)
BY DEF Succeeded, Grows

\* A step that only changes the tasks.
LEMMA QuietOrder ==
    ASSUME OrderInv, up, todo # <<>>,
           Head(todo).do \notin FlushJobs \cup {"open_system", "open_runtime", "done", "create"},
           NEW a \in Seq(Harmless), todo' = a \o Rest,
           UNCHANGED <<disk, open, up, msgs, flush, faults>>, NoCrash
    PROVE  BoundsOK' /\ (Calm' => OrderOK')
<1>1. Pending = {}
  BY DEF Pending, First
<1>2. Descends(disk, disk', "") /\ Succeeded(disk, {}, disk', {})
  BY DEF Descends, Succeeded
<1>3. Succeeded(disk, Pending, disk', Pending')
  BY <1>1, <1>2, StillInUse
<1>4. open'.runtime = open.runtime
  OBVIOUS
<1> QED
  BY <1>2, <1>3, <1>4, OrderStep

\* The tasks around a synchronisation, and those that only begin others.
LEMMA PlainOrder ==
    ASSUME OrderInv, WriteReturns \/ Sync \/ Synced \/ Turn \/ Loop \/ Space \/ Flush
    PROVE  BoundsOK' /\ (Calm' => OrderOK')
<1>1. /\ up /\ todo # <<>> /\ UNCHANGED <<disk, open, up, msgs, flush, faults>>
      /\ used' = used
      /\ Head(todo).do \in {"return", "sync", "synced", "turn", "loop", "space", "flush"}
  BY DEF WriteReturns, Sync, Synced, Turn, Loop, Space, Flush, Doing
<1>2. ServerInv /\ OpenOK /\ NoCrash
  BY <1>1, NoCrashes DEF OrderInv, ServerInv, BoundsOK
<1>3. ASSUME NEW a \in Seq(Harmless), todo' = a \o Rest
      PROVE  BoundsOK' /\ (Calm' => OrderOK')
  BY <1>1, <1>2, <1>3, QuietOrder DEF FlushJobs
<1>4. /\ Task("synced") \in Plain /\ Task("sync") \in Plain /\ Task("loop") \in Plain
      /\ Task("open_system") \in Plain /\ Task("open_runtime") \in Plain
      /\ Task("space") \in Plain /\ Task("begin") \in Plain /\ Driver \in Plain
  BY PlainTasks DEF Jobs, Driver
<1>5. CASE todo' = Rest
  BY <1>2, <1>3, <1>5, NoTasks
<1>6. CASE Sync
  <2>1. PICK b : b = OnEach("set_offline", VarJournals)
    OBVIOUS
  <2>2. b \in Seq(Plain)
    BY <1>2, <2>1, OnEachPlain, VarJournalsListed DEF Jobs
  <2>3. PICK a : a = b \o <<Task("synced")>>
    OBVIOUS
  <2>4. a \in Seq(Harmless)
    BY <1>4, <2>2, <2>3, PlainHarmless
  <2>5. todo' = a \o Rest \/ todo' = <<>> \o Rest
    BY <1>6, <2>1, <2>3 DEF Sync
  <2> QED
    BY <1>2, <1>3, <2>4, <2>5, NoTasks
<1>7. CASE Turn
  <2>1. PICK a : a = (IF sync.time + SyncInterval > loop THEN <<Task("sync")>> ELSE <<>>)
                       \o <<Task("loop")>>
    OBVIOUS
  <2>2. a \in Seq(Plain)
    BY <1>4, <2>1
  <2>3. todo' = a \o Rest
    BY <1>7, <2>1 DEF Turn
  <2> QED
    BY <1>3, <2>2, <2>3, PlainHarmless
<1>8. CASE Space
  <2>1. <<Driver>> \in Seq(Plain)
    BY <1>4
  <2>2. todo' = Rest \/ todo' = <<Driver>> \o Rest
    BY <1>8 DEF Space
  <2> QED
    BY <1>3, <1>5, <2>1, <2>2, PlainHarmless
<1>9. CASE Flush
  <2>1. PICK a : a = IF IsOpen(Runtime)
                     THEN <<Task("open_system"), Task("open_runtime"), Task("space"),
                            Task("begin")>>
                     ELSE <<>>
    OBVIOUS
  <2>2. a \in Seq(Plain)
    BY <1>4, <2>1
  <2>3. todo' = a \o Rest
    BY <1>9, <2>1 DEF Flush
  <2> QED
    BY <1>3, <2>2, <2>3, PlainHarmless
<1> QED
  BY <1>5, <1>6, <1>7, <1>8, <1>9 DEF WriteReturns, Synced, Loop

\* server_rotate() begins.
LEMMA RotateOrder ==
    ASSUME OrderInv, Rotate
    PROVE  BoundsOK' /\ (Calm' => OrderOK')
<1>1. /\ up /\ todo # <<>> /\ UNCHANGED <<disk, open, up, msgs, flush, faults>>
      /\ NoCrash /\ Head(todo).do = "rotate"
  BY NoCrashes DEF Rotate, Doing, OrderInv, BoundsOK
<1>2. PICK o : o = OpenJournals
  OBVIOUS
<1>3. o \in Seq(Locs)
  BY <1>2, VarJournalsListed DEF OrderInv, ServerInv
<1>4. PICK n \in Nat : n = Len(o) /\ DOMAIN o = 1..n
  BY <1>3
<1>5. \A i \in 1..n : o[i] \in Locs
  BY <1>3, <1>4
<1>6. ASSUME NEW l \in Locs PROVE TaskOn("rename", l) \in Harmless
  <2>1. PICK t : t = TaskOn("rename", l)
    OBVIOUS
  <2>2. "rename" \in Jobs
    BY DEF Jobs
  <2>3. t \in Tasks /\ t.do = "rename"
    BY <2>1, <2>2, MadeTaskOn
  <2> QED
    BY <2>1, <2>3 DEF Harmless, FlushJobs
<1>7. PICK a : a = OnEach("rename", o)
  OBVIOUS
<1>8. a \in [1..n -> Harmless]
  BY <1>4, <1>5, <1>6, <1>7 DEF OnEach
<1>9. a \in Seq(Harmless)
  BY <1>4, <1>8
<1>10. todo' = a \o Rest
  BY <1>2, <1>7 DEF Rotate
<1> QED
  BY <1>1, <1>9, <1>10, QuietOrder DEF FlushJobs

\* server_vacuum() deletes files that are not in use.
LEMMA VacuumOrder ==
    ASSUME OrderInv, Vacuum
    PROVE  BoundsOK' /\ (Calm' => OrderOK')
<1>1. /\ up /\ todo # <<>> /\ UNCHANGED <<open, up, msgs, flush, faults>>
      /\ NoCrash /\ Head(todo).do = "vacuum" /\ todo' = Rest
  BY NoCrashes DEF Vacuum, Doing, OrderInv, BoundsOK
<1>2. PICK names : disk' = Without(disk, names) /\ \A x \in names : x.kind = "corrupted"
  BY DEF Vacuum
<1>3. PICK e : e = Without(disk, names)
  OBVIOUS
<1>4. DOMAIN e = DOMAIN disk \ names /\ \A x \in DOMAIN e : e[x] = disk[x]
  BY <1>3 DEF Without
<1>5. Pending = {}
  BY <1>1 DEF Pending, First
<1>6. Succeeded(disk, {}, e, {})
  BY <1>2, <1>4 DEF Succeeded, Grows
<1>7. Succeeded(disk, Pending, disk', Pending')
  BY <1>2, <1>3, <1>5, <1>6, StillInUse
<1>8. Descends(disk, disk', "")
  BY <1>2, <1>3, RemovedDescends
<1>9. <<>> \in Seq(Harmless) /\ todo' = <<>> \o Rest
  BY <1>1, NoTasks DEF OrderInv
<1>10. open'.runtime = open.runtime
  BY <1>1
<1> QED
  BY <1>1, <1>7, <1>8, <1>9, <1>10, OrderStep DEF FlushJobs

\* A file that is marked keeps its entries.
LEMMA StateKept ==
    ASSUME NEW f, f \in File, NEW s
    PROVE  Keeps(f, SetState(f, s))
BY DEF SetState, Keeps, File

\* The steps of journal_file_set_offline().
LEMMA SyncFileOrder ==
    ASSUME OrderInv, SyncFile
    PROVE  BoundsOK' /\ (Calm' => OrderOK')
<1>1. /\ up /\ todo # <<>> /\ UNCHANGED <<open, up, msgs, flush, faults>>
      /\ NoCrash /\ Head(todo).do \in {"set_offline", "offline", "fsync"}
  BY NoCrashes DEF SyncFile, Doing, OrderInv, BoundsOK
<1>2. PICK loc : loc = Head(todo).loc
  OBVIOUS
<1>3. PICK x : x = Active(loc)
  OBVIOUS
<1>4. loc \in Locs \cup {""}
  BY <1>1, <1>2, HeadOK DEF OrderInv, Tasks
<1>5. DiskOK(disk, ids, {}) /\ Pending = {}
  BY <1>1, AllFound DEF OrderInv, First
<1>6. x \in DOMAIN disk => FileOK(x, disk[x]) /\ disk[x] \in File
  BY <1>5 DEF DiskOK, FileOK
<1>7. ASSUME NEW g, NEW a \in Seq(Harmless), x \in DOMAIN disk => Keeps(disk[x], g),
             disk' = [disk EXCEPT ![x] = g], todo' = a \o Rest
      PROVE  BoundsOK' /\ (Calm' => OrderOK')
  <2>1. Descends(disk, disk', "") /\ Succeeded(disk, {}, disk', {})
    BY <1>7, ReplacedDescends
  <2>2. Succeeded(disk, Pending, disk', Pending')
    BY <1>5, <2>1, StillInUse
  <2>3. open'.runtime = open.runtime
    BY <1>1
  <2> QED
    BY <1>1, <1>7, <2>1, <2>2, <2>3, OrderStep DEF FlushJobs
<1>8. ASSUME NEW do \in {"offline", "fsync"} PROVE <<TaskOn(do, loc)>> \in Seq(Harmless)
  <2>1. PICK t : t = TaskOn(do, loc)
    OBVIOUS
  <2>2. do \in Jobs
    BY DEF Jobs
  <2>3. t \in Tasks /\ t.do = do
    BY <1>4, <2>1, <2>2, MadeTaskOn
  <2>4. t \in Harmless
    BY <2>3 DEF Harmless, FlushJobs
  <2> QED
    BY <2>1, <2>4
<1>9. <<>> \in Seq(Harmless) /\ Rest = <<>> \o Rest
  BY NoTasks DEF OrderInv
<1>10. CASE Head(todo).do = "set_offline" /\ disk[x].state = "online"
  <2>1. disk' = [disk EXCEPT ![x] = Fsync(disk[x])] /\ todo' = <<TaskOn("offline", loc)>> \o Rest
    BY <1>2, <1>3, <1>10 DEF SyncFile, Doing
  <2> QED
    BY <1>6, <1>7, <1>8, <2>1, FsyncKeeps
<1>11. CASE Head(todo).do = "set_offline" /\ disk[x].state # "online"
  <2>1. UNCHANGED disk /\ todo' = Rest
    BY <1>2, <1>3, <1>11 DEF SyncFile, Doing
  <2> QED
    BY <1>1, <1>9, <2>1, QuietOrder DEF FlushJobs
<1>12. CASE Head(todo).do = "offline"
  <2>1. disk' = [disk EXCEPT ![x] = SetState(disk[x], "offline")]
        /\ todo' = <<TaskOn("fsync", loc)>> \o Rest
    BY <1>2, <1>3, <1>12 DEF SyncFile, Doing
  <2> QED
    BY <1>6, <1>7, <1>8, <2>1, StateKept
<1>13. CASE Head(todo).do = "fsync"
  <2>1. disk' = [disk EXCEPT ![x] = Fsync(disk[x])] /\ todo' = <<>> \o Rest
    BY <1>2, <1>3, <1>13 DEF SyncFile, Doing
  <2> QED
    BY <1>6, <1>7, <1>9, <2>1, FsyncKeeps
<1> QED
  BY <1>1, <1>10, <1>11, <1>12, <1>13

\* The renaming of a rotation: the journal in use is about to be replaced.
LEMMA RenameOrder ==
    ASSUME OrderInv, RotateRename
    PROVE  BoundsOK' /\ (Calm' => OrderOK')
<1>1. /\ up /\ todo # <<>> /\ UNCHANGED <<open, up, msgs, flush, faults>>
      /\ Head(todo).do = "rename"
  BY DEF RotateRename, Doing
<1>2. DiskOK(disk, ids, {}) /\ OpenFound /\ Pending = {}
  BY <1>1, AllFound DEF OrderInv, First
<1>3. PICK loc : loc = Head(todo).loc
  OBVIOUS
<1>4. loc \in Locs /\ IsOpen(loc)
  BY <1>1, <1>3, HeadOK DEF OrderInv, TaskOK
<1>5. PICK x : x = Active(loc)
  OBVIOUS
<1>6. x \in DOMAIN disk /\ x.kind = "active" /\ x.loc = loc
  BY <1>2, <1>4, <1>5 DEF OpenFound, Active, Name
<1>7. PICK at : at = disk[x].head
  OBVIOUS
<1>8. at \in Nat
  BY <1>2, <1>6, <1>7 DEF DiskOK, FileOK, File
<1>9. PICK to : to = Name(loc, "archived", at)
  OBVIOUS
<1>10. to.kind = "archived" /\ to.loc = loc
  BY <1>9 DEF Name
<1>11. PICK t : t = [TaskOn("create", loc) EXCEPT !.at = at]
  OBVIOUS
<1>12. t \in Tasks /\ t.do = "create" /\ t.loc = loc /\ t.at = at
  <2>1. "create" \in Jobs
    BY DEF Jobs
  <2> QED
    BY <1>4, <1>8, <1>11, <2>1 DEF TaskOn, Task, Tasks
<1>13. PICK e : e = Renamed(disk, x, to)
  OBVIOUS
<1>14. \/ disk' = e /\ todo' = <<t>> \o Rest /\ used' = used
       \/ disk' = disk /\ todo' = Rest /\ used' = Failed
  BY <1>3, <1>5, <1>7, <1>9, <1>11, <1>13 DEF RotateRename
<1>15. NoCrash
  BY <1>14, NoCrashes DEF OrderInv, BoundsOK
<1>16. CASE disk' = disk /\ todo' = Rest
  <2>1. <<>> \in Seq(Harmless) /\ todo' = <<>> \o Rest
    BY <1>16, NoTasks DEF OrderInv
  <2> QED
    BY <1>1, <1>15, <1>16, <2>1, QuietOrder DEF FlushJobs
<1>17. CASE disk' = e /\ todo' = <<t>> \o Rest
  <2>1. PICK a : a = <<t>>
    OBVIOUS
  <2>2. t \in Harmless
    BY <1>12 DEF Harmless, FlushJobs
  <2>3. a \in Seq(Harmless) /\ todo' = a \o Rest
    BY <1>17, <2>1, <2>2
  <2>4. Pending' = {to}
    <3>1. Rest \in Seq(Tasks)
      BY <1>1 DEF Rest, OrderInv, ServerInv, TodoOK
    <3>2. PICK r \in Seq(Tasks) : r = Rest
      BY <3>1
    <3>3. <<t>> \o r # <<>> /\ Head(<<t>> \o r) = t
      BY <1>12, <3>2
    <3>4. todo' # <<>> /\ Head(todo') = t
      BY <1>17, <3>2, <3>3
    <3> QED
      BY <1>9, <1>12, <3>4 DEF Pending, First
  <2>5. /\ DOMAIN e = (DOMAIN disk \ {x}) \cup {to} /\ e[to] = disk[x]
        /\ \A y \in DOMAIN e : y # to => y \in DOMAIN disk /\ y # x /\ e[y] = disk[y]
    BY <1>13 DEF Renamed, With, Without
  <2>6. Succeeded(disk, {}, e, {to})
    <3> SUFFICES ASSUME NEW h \in DOMAIN disk, h.loc = Runtime, h.kind = "active"
                 PROVE  \E k \in DOMAIN e : /\ k.loc = Runtime /\ Grows(k, {to})
                                            /\ e[k].seqid = disk[h].seqid
      BY DEF Succeeded, Grows
    <3>1. CASE h = x
      BY <1>6, <1>10, <2>5, <3>1 DEF Grows
    <3>2. CASE h # x
      BY <1>10, <2>5, <3>2 DEF Grows
    <3> QED
      BY <3>1, <3>2
  <2>7. Succeeded(disk, Pending, disk', Pending')
    BY <1>2, <1>17, <2>4, <2>6
  <2>8. Descends(disk, disk', "")
    BY <1>6, <1>10, <1>13, <1>17, RenamedDescends
  <2>9. open'.runtime = open.runtime
    BY <1>1
  <2> QED
    BY <1>1, <1>15, <2>3, <2>7, <2>8, <2>9, OrderStep DEF FlushJobs
<1> QED
  BY <1>14, <1>16, <1>17

\* The second half of a rotation: the file has a successor, or its journal is
\* given up.
LEMMA CreateOrder ==
    ASSUME OrderInv, RotateCreate, ServerInv'
    PROVE  BoundsOK' /\ (Calm' => OrderOK')
<1>1. /\ up /\ todo # <<>> /\ UNCHANGED <<up, msgs, flush>>
      /\ Head(todo).do = "create" /\ todo' = Rest
  BY DEF RotateCreate, Doing
<1>2. ServerInv /\ OpenShape /\ OpenShape'
  BY DEF OrderInv, ServerInv, OpenOK, OpenShape
<1>3. PICK loc : loc = Head(todo).loc
  OBVIOUS
<1>4. PICK x : x = Active(loc)
  OBVIOUS
<1>5. PICK old : old = Name(loc, "archived", Head(todo).at)
  OBVIOUS
<1>6. x.kind = "active" /\ x.loc = loc /\ old.kind = "archived" /\ old.loc = loc
  BY <1>4, <1>5 DEF Active, Name
<1>7. loc \in Locs /\ IsOpen(loc)
  BY <1>1, <1>2, <1>3, HeadOK DEF TaskOK
<1>8. First("create")
  BY <1>1 DEF First
<1>9. x \notin DOMAIN disk /\ old \in DOMAIN disk /\ Pending = {old}
  BY <1>2, <1>3, <1>4, <1>5, <1>8 DEF ServerInv, TodoOK, FirstOK, Pending
<1>10. FileOK(old, disk[old]) /\ disk[old] \in File
  BY <1>2, <1>9 DEF ServerInv, DiskOK, FileOK
<1>11. PICK g : g = SetOffline(SetState(disk[old], "archived"))
  OBVIOUS
<1>12. Keeps(disk[old], g)
  <2>1. PICK h : h = SetState(disk[old], "archived")
    OBVIOUS
  <2>2. FileOK(old, h) /\ Keeps(disk[old], h)
    BY <1>6, <1>10, <2>1, SetStateKeeps DEF States
  <2>3. Keeps(h, g)
    BY <1>11, <2>1, <2>2, SetOfflineKeeps
  <2> QED
    BY <2>2, <2>3 DEF Keeps
<1>13. PICK d : d = [disk EXCEPT ![old] = g]
  OBVIOUS
<1>14. DOMAIN d = DOMAIN disk /\ d[old] = g /\ \A y \in DOMAIN disk : y # old => d[y] = disk[y]
  BY <1>9, <1>13
<1>15. \A y \in DOMAIN disk : Marks(d[y]) = Marks(disk[y]) /\ d[y].seqid = disk[y].seqid
  BY <1>12, <1>14, KeptMarks
<1>16. PICK f : f = NewFile(g.seqid, g.tail)
  OBVIOUS
<1>17. PICK h : h = SetOffline([NewFile(g.seqid, g.tail) EXCEPT !.tables = FALSE])
  OBVIOUS
<1>18. /\ Marks(f) = {} /\ f.seqid = disk[old].seqid
       /\ Marks(h) = {} /\ h.seqid = disk[old].seqid
  <2>1. g.seqid = disk[old].seqid /\ g.seqid \in Nat /\ g.tail \in Nat
    BY <1>10, <1>12, Numbers DEF Keeps
  <2> QED
    BY <1>6, <1>16, <1>17, <2>1, NewFileOK, StubOK, NoMarks
<1>19. \/ disk' = With(d, x, f) /\ open' = open /\ used' = used /\ faults' = faults
       \/ /\ disk' = d \/ disk' = With(d, x, h)
          /\ open' = Shut(loc) /\ (used' = used \/ used' = Failed)
          /\ faults' = faults \cup (IF loc = Runtime THEN {"rotate"} ELSE {})
  <2>1. d = [disk EXCEPT ![old] = SetOffline(SetState(@, "archived"))]
    BY <1>11, <1>13
  <2>2. f = NewFile(d[old].seqid, d[old].tail)
        /\ h = SetOffline([NewFile(d[old].seqid, d[old].tail) EXCEPT !.tables = FALSE])
    BY <1>14, <1>16, <1>17
  <2> QED
    BY <1>3, <1>4, <1>5, <2>1, <2>2 DEF RotateCreate
<1>20. NoCrash
  BY <1>19, NoCrashes DEF OrderInv, BoundsOK
<1>21. PICK e : e = disk'
  OBVIOUS
<1>22. /\ \A y \in DOMAIN disk : /\ y \in DOMAIN e /\ Marks(e[y]) = Marks(disk[y])
                                 /\ e[y].seqid = disk[y].seqid
       /\ \A y \in DOMAIN e : y \in DOMAIN disk \/ y = x
       /\ x \in DOMAIN e => Marks(e[x]) = {} /\ e[x].seqid = disk[old].seqid
  <2>1. ASSUME NEW k, e = With(d, x, k), Marks(k) = {}, k.seqid = disk[old].seqid
        PROVE  /\ \A y \in DOMAIN disk : y \in DOMAIN e /\ e[y] = d[y]
               /\ \A y \in DOMAIN e : y \in DOMAIN disk \/ y = x
               /\ Marks(e[x]) = {} /\ e[x].seqid = disk[old].seqid
    BY <1>9, <1>14, <2>1 DEF With
  <2>2. CASE e = d
    BY <1>9, <1>14, <1>15, <2>2
  <2>3. CASE e = With(d, x, f) \/ e = With(d, x, h)
    BY <1>15, <1>18, <2>1, <2>3
  <2> QED
    BY <1>19, <1>21, <2>2, <2>3
<1>23. Descends(disk, e, "")
  BY <1>6, <1>9, <1>22 DEF Descends
<1>24. <<>> \in Seq(Harmless) /\ todo' = <<>> \o Rest
  BY <1>1, <1>2, NoTasks
<1>25. CASE faults' = faults /\ (loc = Runtime => x \in DOMAIN e)
            /\ open'.runtime = open.runtime
  <2>1. Succeeded(disk, {old}, e, {})
    <3> SUFFICES ASSUME NEW k \in DOMAIN disk, k.loc = Runtime, Grows(k, {old})
                 PROVE  \E l \in DOMAIN e : /\ l.loc = Runtime /\ Grows(l, {})
                                            /\ e[l].seqid = disk[k].seqid
      BY DEF Succeeded
    <3>1. CASE k.kind = "active"
      BY <1>22, <3>1 DEF Grows
    <3>2. CASE k = old
      BY <1>6, <1>22, <1>25, <3>2 DEF Grows
    <3> QED
      BY <3>1, <3>2 DEF Grows
  <2>2. Succeeded(disk, Pending, disk', Pending')
    BY <1>9, <1>21, <2>1, StillInUse
  <2> QED
    BY <1>1, <1>20, <1>21, <1>23, <1>24, <1>25, <2>2, OrderStep DEF FlushJobs
<1>26. CASE loc = Runtime /\ "rotate" \in faults'
  <2>1. WritesLast'
    BY <1>1, <1>2, <1>24, HarmlessPush DEF OrderInv, BoundsOK, FlushJobs
  <2>2. Ids(e, DOMAIN e) \subseteq Ids(disk, DOMAIN disk)
    BY <1>23, Descent
  <2>3. BoundsOK'
    BY <1>1, <1>20, <1>21, <2>1, <2>2, BoundsKept DEF OrderInv
  <2>4. ~Calm'
    BY <1>26 DEF Calm
  <2> QED
    BY <2>3, <2>4
<1>27. CASE disk' = With(d, x, f) /\ open' = open /\ faults' = faults
  <2>1. x \in DOMAIN e
    BY <1>21, <1>27 DEF With
  <2> QED
    BY <1>25, <1>27, <2>1
<1>28. CASE loc # Runtime /\ open' = Shut(loc)
  <2>1. Runtime \in Locs
    BY DEF Locs
  <2>2. IsOpen(Runtime)' <=> IsOpen(Runtime)
    BY <1>2, <1>7, <1>28, <2>1, ShutOpen
  <2>3. open.runtime \in BOOLEAN /\ open'.runtime \in BOOLEAN
    BY <1>2 DEF OpenShape
  <2>4. (IsOpen(Runtime) <=> open.runtime) /\ (IsOpen(Runtime)' <=> open'.runtime)
    <3>1. Runtime \notin Users /\ Runtime # System
      BY JournaldAssumption DEF Runtime, System
    <3>2. \A i \in DOMAIN open'.users : open'.users[i] \in Users
      BY <1>2 DEF OpenShape
    <3>3. IsOpen(Runtime)' <=> open'.runtime
      BY <3>1, <3>2 DEF IsOpen
    <3> QED
      BY <1>2, <3>3, SystemOpen
  <2>5. open'.runtime = open.runtime
    BY <2>2, <2>3, <2>4
  <2>6. faults' = faults
    BY <1>19, <1>28
  <2> QED
    BY <1>25, <1>28, <2>5, <2>6
<1> QED
  BY <1>19, <1>26, <1>27, <1>28

-----------------------------------------------------------------------------
(* The journals are opened                                                 *)

\* Runtime journals with entries can be opened, outside of a rotation.
LEMMA RuntimeThere ==
    ASSUME ServerInv, OrderOK, ~First("create"), HasEntries(disk)
    PROVE  Active(Runtime) \in DOMAIN disk /\ (~open.runtime => ~Refused(disk, Runtime))
<1>1. DiskOK(disk, ids, {}) /\ Pending = {}
  BY AllFound
<1>2. PICK h \in DOMAIN disk : h.loc = Runtime /\ Grows(h, Pending)
  BY DEF OrderOK, RuntimeInUse, HasEntries
<1>3. h = Active(Runtime)
  BY <1>1, <1>2, ActiveNames DEF Grows, DiskOK
<1> QED
  BY <1>2, <1>3 DEF OrderOK, RuntimeInUse

\* system_journal_open(), the system journal.
LEMMA OpenSystemOrder ==
    ASSUME OrderInv, OpenSystem
    PROVE  BoundsOK' /\ (Calm' => OrderOK')
<1>1. /\ up /\ todo # <<>> /\ UNCHANGED <<up, msgs, flush, faults>>
      /\ Head(todo).do = "open_system" /\ todo' = Rest
  BY DEF OpenSystem, Doing
<1>2. ServerInv /\ DiskOK(disk, ids, {}) /\ ids \in Nat /\ clock \in Nat /\ OpenShape /\ Pending = {}
  BY <1>1, AllFound DEF OrderInv, First, ServerInv, BasicsOK
<1>3. PICK x : x = Active(System)
  OBVIOUS
<1>4. \/ disk' = disk /\ open' = open /\ used' = used
      \/ /\ disk' = OpenReliably(disk, System) \/ disk' \in OpenFailures(disk, System)
         /\ open' = open \/ open' = [open EXCEPT !.system = TRUE]
         /\ used' = used \/ used' = Failed
  BY DEF OpenSystem
<1>5. NoCrash
  BY <1>4, NoCrashes DEF OrderInv, BoundsOK
<1>6. open'.runtime = open.runtime
  BY <1>2, <1>4 DEF OpenShape
<1>7. PICK e : e = disk'
  OBVIOUS
<1>8. Descends(disk, e, x) /\ RuntimeSame(disk, e)
  <2>1. CASE e = disk
    BY <2>1 DEF Descends, RuntimeSame
  <2>2. CASE e = OpenReliably(disk, System) \/ e \in OpenFailures(disk, System)
    <3>1. System \in Locs /\ System # Runtime
      BY DEF Locs, System, Runtime
    <3> QED
      BY <1>2, <1>3, <2>2, <3>1, OpeningDescends
  <2> QED
    BY <1>4, <1>7, <2>1, <2>2
<1>9. WritesLast' /\ Flushing' = Flushing
  <2>1. <<>> \in Seq(Harmless) /\ todo' = <<>> \o Rest
    BY <1>1, <1>2, NoTasks
  <2> QED
    BY <1>1, <2>1, HarmlessPush DEF OrderInv, BoundsOK, FlushJobs
<1>10. ASSUME OrderOK
       PROVE  /\ RuntimeInUse(disk', Pending', open'.runtime)
              /\ HasEntries(disk') /\ ~open'.runtime /\ up' => Starting'
  <2>1. /\ Succeeded(disk, {}, e, {}) /\ (HasEntries(e) => HasEntries(disk))
        /\ Refused(e, Runtime) = Refused(disk, Runtime)
    BY <1>8, SameRuntime
  <2>2. Succeeded(disk, Pending, e, Pending')
    BY <1>2, <2>1, StillInUse
  <2>3. HasEntries(e) /\ ~open'.runtime => ~Refused(e, Runtime)
    BY <1>6, <1>10, <2>1 DEF OrderOK, RuntimeInUse
  <2>4. RuntimeInUse(e, Pending', open'.runtime)
    BY <1>8, <1>10, <2>2, <2>3, InUseKept DEF OrderOK
  <2>5. ASSUME HasEntries(e), ~open'.runtime PROVE Starting'
    <3>1. Starting
      BY <1>1, <1>6, <1>10, <2>1, <2>5 DEF OrderOK
    <3>2. todo = StartTasks
      BY <1>1, <3>1, StartingHead
    <3>3. todo' = Tail(StartTasks)
      BY <1>1, <3>2 DEF Rest
    <3> QED
      BY <3>3 DEF Starting
  <2> QED
    BY <1>7, <2>4, <2>5
<1> QED
  BY <1>1, <1>5, <1>6, <1>7, <1>8, <1>9, <1>10, DescentOrder

\* A runtime journal that can be opened keeps its entries.
LEMMA RuntimeOpened ==
    ASSUME ServerInv, OrderOK, ~First("create"), ~open.runtime, NEW e, NEW Q, NEW o \in BOOLEAN,
           \/ /\ e = OpenReliably(disk, Runtime) /\ o
           \/ /\ e = [disk EXCEPT ![Active(Runtime)] = Fsync(SetOnline(@))] /\ o
           \/ /\ e \in OpenFailures(disk, Runtime)
    PROVE  RuntimeInUse(e, Q, o)
<1>1. /\ DiskOK(disk, ids, {}) /\ ids \in Nat /\ clock \in Nat /\ Pending = {}
      /\ Runtime \in Locs
  BY AllFound DEF ServerInv, BasicsOK, Locs
<1>2. PICK x : x = Active(Runtime)
  OBVIOUS
<1>3. PICK g : g = Fsync(SetOnline(disk[x]))
  OBVIOUS
<1>4. x \in DOMAIN disk => Keeps(disk[x], g)
  <2> SUFFICES ASSUME x \in DOMAIN disk PROVE Keeps(disk[x], g)
    OBVIOUS
  <2>1. FileOK(x, disk[x])
    BY <1>1 DEF DiskOK
  <2>2. PICK h : h = SetOnline(disk[x])
    OBVIOUS
  <2>3. FileOK(x, h) /\ Keeps(disk[x], h)
    BY <2>1, <2>2, SetOnlineKeeps
  <2>4. Keeps(h, g)
    BY <1>3, <2>2, <2>3, FsyncKeeps
  <2> QED
    BY <2>3, <2>4 DEF Keeps
<1>5. PICK r : r = [disk EXCEPT ![x] = g]
  OBVIOUS
<1>6. Descends(disk, r, x) /\ Succeeded(disk, {}, r, {})
  BY <1>4, <1>5, ReplacedDescends
<1>7. CASE HasEntries(disk)
  <2>1. x \in DOMAIN disk /\ ~Refused(disk, Runtime)
    BY <1>2, <1>7, RuntimeThere
  <2>2. PutAside(disk, Runtime) = disk
    BY <2>1 DEF PutAside
  <2>3. OpenReliably(disk, Runtime) = With(disk, x, g)
    BY <1>2, <1>3, <2>1, <2>2 DEF OpenReliably
  <2>4. With(disk, x, g) = r
    BY <1>5, <2>1 DEF With
  <2>5. OpenFailures(disk, Runtime) = {disk}
    BY <1>2, <2>1, <2>2 DEF OpenFailures
  <2>6. CASE e = r /\ o
    BY <1>1, <1>6, <2>6, InUseKept, StillInUse DEF OrderOK
  <2>7. CASE e = disk
    <3>1. Descends(disk, disk, x) /\ Succeeded(disk, {}, disk, {})
      BY DEF Descends, Succeeded
    <3> QED
      BY <1>1, <2>1, <2>7, <3>1, InUseKept, StillInUse DEF OrderOK
  <2> QED
    BY <1>2, <1>3, <1>5, <2>3, <2>4, <2>5, <2>6, <2>7
<1>8. CASE ~HasEntries(disk)
  <2>1. Descends(disk, e, x)
    BY <1>1, <1>2, <1>3, <1>5, <1>6, OpeningDescends
  <2>2. ~HasEntries(e)
    BY <1>8, <2>1, Descent
  <2> QED
    BY <2>2, NoEntries
<1> QED
  BY <1>7, <1>8

\* The handler at work does not flush.
LEMMA NotFlushing ==
    ASSUME ServerInv, todo # <<>>,
           Head(todo).do \notin FlushJobs \cup {"rotate", "vacuum", "rename", "create"}
    PROVE  ~Flushing
<1>1. \A j \in DOMAIN todo : j # 1 => Ordinary(todo[j])
  BY RestOrdinary DEF ServerInv
<1>2. Head(todo) = todo[1]
  BY HeadOK
<1> QED
  BY <1>1, <1>2 DEF Flushing, Ordinary, FlushJobs

\* system_journal_open(), the runtime journal.
LEMMA OpenRuntimeOrder ==
    ASSUME OrderInv, OpenRuntime
    PROVE  BoundsOK' /\ (Calm' => OrderOK')
<1>1. /\ up /\ todo # <<>> /\ UNCHANGED <<up, msgs, flush>>
      /\ Head(todo).do = "open_runtime"
  BY DEF OpenRuntime, Doing
<1>2. ServerInv /\ DiskOK(disk, ids, {}) /\ ids \in Nat /\ clock \in Nat /\ OpenShape /\ ~First("create")
  BY <1>1, AllFound DEF OrderInv, First, ServerInv, BasicsOK
<1>3. ~Flushing
  BY <1>1, <1>2, NotFlushing DEF FlushJobs
<1>4. (IsOpen(System) <=> open.system) /\ (IsOpen(Runtime) <=> open.runtime)
  BY <1>2, SystemOpen
<1>5. PICK x : x = Active(Runtime)
  OBVIOUS
<1>6. PICK e : e = disk'
  OBVIOUS
<1>7. \/ /\ ~open.runtime /\ todo' = Rest /\ open' = [open EXCEPT !.runtime = TRUE] /\ used' = used
         /\ \/ e = OpenReliably(disk, Runtime)
            \/ e = [disk EXCEPT ![x] = Fsync(SetOnline(@))]
      \/ /\ ~open.runtime /\ todo' = <<Task("done")>> /\ open' = open /\ used' = Failed
         /\ e \in OpenFailures(disk, Runtime)
      \/ /\ todo' = Rest /\ open' = open /\ used' = used /\ e = disk
         /\ open.runtime \/ x \notin DOMAIN disk \/ Refused(disk, Runtime)
      \/ /\ todo' = Rest /\ open' = open /\ used' = Failed /\ e = disk
         /\ faults' = faults \cup {"open"}
  BY <1>4, <1>5, <1>6 DEF OpenRuntime
<1>8. NoCrash
  BY <1>7, NoCrashes DEF OrderInv, BoundsOK
<1>9. WritesLast' /\ Flushing' = Flushing
  <2>1. CASE todo' = Rest
    <3>1. <<>> \in Seq(Harmless) /\ todo' = <<>> \o Rest
      BY <1>2, <2>1, NoTasks
    <3> QED
      BY <1>1, <3>1, HarmlessPush DEF OrderInv, BoundsOK, FlushJobs
  <2>2. CASE todo' = <<Task("done")>>
    <3>1. PICK q : q = todo'
      OBVIOUS
    <3>2. PICK t : t = Task("done")
      OBVIOUS
    <3>3. t.do = "done"
      BY <3>2 DEF Task
    <3>4. DOMAIN q = {1} /\ q[1] = t
      BY <2>2, <3>1, <3>2
    <3>5. WritesLast' /\ ~Flushing'
      BY <3>1, <3>3, <3>4 DEF WritesLast, Flushing
    <3> QED
      BY <1>3, <3>5 DEF Flushing
  <2> QED
    BY <1>7, <2>1, <2>2
<1>10. Descends(disk, e, x)
  <2>1. CASE e = disk
    BY <2>1 DEF Descends
  <2>2. CASE e = OpenReliably(disk, Runtime) \/ e \in OpenFailures(disk, Runtime)
    <3>1. Runtime \in Locs
      BY DEF Locs
    <3> QED
      BY <1>2, <1>5, <2>2, <3>1, OpeningDescends
  <2>3. CASE e = [disk EXCEPT ![x] = Fsync(SetOnline(@))]
    <3>1. PICK g : g = Fsync(SetOnline(disk[x]))
      OBVIOUS
    <3>2. ASSUME x \in DOMAIN disk PROVE Keeps(disk[x], g)
      <4>1. FileOK(x, disk[x])
        BY <1>2, <3>2 DEF DiskOK
      <4>2. PICK h : h = SetOnline(disk[x])
        OBVIOUS
      <4>3. FileOK(x, h) /\ Keeps(disk[x], h)
        BY <4>1, <4>2, SetOnlineKeeps
      <4>4. Keeps(h, g)
        BY <3>1, <4>2, <4>3, FsyncKeeps
      <4> QED
        BY <4>3, <4>4 DEF Keeps
    <3>3. e = [disk EXCEPT ![x] = g]
      BY <2>3, <3>1
    <3> QED
      BY <3>2, <3>3, ReplacedDescends
  <2> QED
    BY <1>7, <2>1, <2>2, <2>3
<1>11. open'.runtime \in BOOLEAN /\ (open' = [open EXCEPT !.runtime = TRUE] => open'.runtime)
  BY <1>2, <1>7 DEF OpenShape
<1>12. Ids(e, DOMAIN e) \subseteq Ids(disk, DOMAIN disk)
  BY <1>10, Descent
<1>13. BoundsOK'
  BY <1>1, <1>6, <1>8, <1>9, <1>12, BoundsKept DEF OrderInv
<1>14. ASSUME faults' = faults, OrderOK, Calm'
       PROVE  /\ RuntimeInUse(disk', Pending', open'.runtime)
              /\ HasEntries(disk') /\ ~open'.runtime /\ up' => Starting'
  <2>1. CASE ~open.runtime /\ open' = [open EXCEPT !.runtime = TRUE]
             /\ \/ e = OpenReliably(disk, Runtime)
                \/ e = [disk EXCEPT ![x] = Fsync(SetOnline(@))]
    <3>1. open'.runtime
      BY <1>11, <2>1
    <3>2. RuntimeInUse(e, Pending', open'.runtime)
      BY <1>2, <1>5, <1>11, <1>14, <2>1, <3>1, RuntimeOpened
    <3> QED
      BY <1>6, <3>1, <3>2
  <2>2. CASE ~open.runtime /\ todo' = <<Task("done")>> /\ e \in OpenFailures(disk, Runtime)
    <3>1. RuntimeInUse(e, Pending', open'.runtime)
      BY <1>2, <1>11, <1>14, <2>2, RuntimeOpened
    <3>2. Starting'
      BY <2>2 DEF Starting
    <3> QED
      BY <1>6, <3>1, <3>2
  <2>3. CASE e = disk /\ open' = open /\ (open.runtime \/ x \notin DOMAIN disk \/ Refused(disk, Runtime))
    <3>1. HasEntries(disk) => open.runtime
      BY <1>2, <1>5, <1>14, <2>3, RuntimeThere
    <3>2. CASE HasEntries(disk)
      <4>1. Descends(disk, disk, x) /\ Succeeded(disk, {}, disk, {}) /\ Pending = {}
        BY <1>2, AllFound DEF Descends, Succeeded
      <4>2. RuntimeInUse(disk, Pending', open.runtime)
        BY <1>14, <3>1, <3>2, <4>1, InUseKept, StillInUse DEF OrderOK
      <4> QED
        BY <1>6, <2>3, <3>1, <4>2
    <3>3. CASE ~HasEntries(disk)
      BY <1>6, <2>3, <3>3, NoEntries
    <3> QED
      BY <3>2, <3>3
  <2>4. faults' # faults \cup {"open"}
    BY <1>14 DEF Calm
  <2> QED
    BY <1>7, <2>1, <2>2, <2>3, <2>4
<1>15. ASSUME Calm' PROVE OrderOK'
  <2>1. faults' = faults \/ faults' = faults \cup {"open"}
    BY DEF OpenRuntime
  <2>2. faults' = faults
    BY <1>15, <2>1 DEF Calm
  <2> QED
    BY <1>1, <1>3, <1>6, <1>8, <1>9, <1>10, <1>14, <1>15, <2>2, CalmOrder
<1> QED
  BY <1>13, <1>15

-----------------------------------------------------------------------------
(* Handlers begin, and the daemon ends                                     *)

\* The numbers of messages are numbers.
LEMMA IdsNat ==
    ASSUME ServerInv
    PROVE  Ids(disk, DOMAIN disk) \cup LeftIds(flush.left) \subseteq Nat /\ Len(msgs) \in Nat
<1>1. DiskOK(disk, ids, Pending) /\ flush.left \subseteq Left /\ Len(msgs) \in Nat
  BY MsgsCounted DEF ServerInv, FlushOK, Flushes
<1>2. ASSUME NEW m \in Ids(disk, DOMAIN disk) PROVE m \in Nat
  <2>1. PICK x \in DOMAIN disk : m \in FileIds(disk[x])
    BY IdsOf
  <2>2. PICK s \in Seq(Entry) : s = disk[x].entries
    BY <1>1 DEF DiskOK, FileOK, File
  <2>3. PICK i \in DOMAIN s : m = s[i].id
    BY <2>1, <2>2 DEF FileIds
  <2>4. s[i] \in Entry
    BY <2>2
  <2> QED
    BY <2>3, <2>4 DEF Entry
<1>3. ASSUME NEW m \in LeftIds(flush.left) PROVE m \in Nat
  BY <1>1 DEF LeftIds, Left
<1> QED
  BY <1>1, <1>2, <1>3

\* An idle daemon, or one that starts, begins a handler.
LEMMA HandlerOrder ==
    ASSUME OrderInv, todo = <<>>, NEW T, NEW a \in Seq(T), todo' = a,
           \A t \in T : /\ t.do \notin FlushJobs
                        /\ t.do \in {"write", "retry"} => t.id \in {0, Len(msgs')},
           UNCHANGED <<disk, open, flush, faults>>, NoCrash,
           Len(msgs') \in {Len(msgs), Len(msgs) + 1}, up \/ todo' = StartTasks
    PROVE  BoundsOK' /\ (Calm' => OrderOK')
<1>1. ServerInv /\ Pending = {} /\ ~Flushing
  BY DEF OrderInv, Pending, First, Flushing
<1>2. WritesLast' /\ ~Flushing'
  <2>1. \A i \in DOMAIN a : a[i] \in T
    OBVIOUS
  <2> QED
    BY <2>1 DEF WritesLast, Flushing, FlushJobs
<1>3. BoundsOK'
  <2>1. PICK S : S = Ids(disk, DOMAIN disk) \cup LeftIds(flush.left)
    OBVIOUS
  <2>2. S \subseteq Nat /\ Len(msgs) \in Nat /\ \A m \in S : m <= Len(msgs)
    BY <1>1, <2>1, IdsNat DEF OrderInv, BoundsOK
  <2>3. \A m \in S : m <= Len(msgs')
    BY <2>2
  <2>4. \A m \in Ids(disk', DOMAIN disk') \cup LeftIds(flush'.left) : m <= Len(msgs')
    BY <2>1, <2>3
  <2> QED
    BY <1>2, <2>4 DEF BoundsOK, NoCrash
<1>4. Descends(disk, disk', "") /\ Succeeded(disk, {}, disk', {})
  BY DEF Descends, Succeeded
<1>5. Succeeded(disk, Pending, disk', Pending')
  BY <1>1, <1>4, StillInUse
<1>6. ASSUME OrderOK
      PROVE  /\ RuntimeInUse(disk', Pending', open'.runtime)
             /\ HasEntries(disk') /\ ~open'.runtime /\ up' => Starting'
  <2>1. HasEntries(disk') /\ ~open'.runtime => ~Refused(disk', Runtime)
    BY <1>6 DEF OrderOK, RuntimeInUse
  <2>2. RuntimeInUse(disk', Pending', open'.runtime)
    BY <1>4, <1>5, <1>6, <2>1, InUseKept DEF OrderOK
  <2>3. CASE up
    <3>1. HasEntries(disk) => open.runtime
      BY <1>6, <2>3, StartingHead DEF OrderOK
    <3> QED
      BY <2>2, <3>1
  <2>4. CASE todo' = StartTasks
    BY <2>2, <2>4 DEF Starting
  <2> QED
    BY <2>3, <2>4
<1> QED
  BY <1>1, <1>2, <1>3, <1>4, <1>6, CalmOrder

\* A handler of plain tasks.
LEMMA PlainHandlerOrder ==
    ASSUME OrderInv, todo = <<>>, NEW a \in Seq(Plain), todo' = a,
           UNCHANGED <<disk, open, flush, faults, msgs>>, NoCrash, up \/ todo' = StartTasks
    PROVE  BoundsOK' /\ (Calm' => OrderOK')
<1>1. \A t \in Plain : /\ t.do \notin FlushJobs
                       /\ t.do \in {"write", "retry"} => t.id \in {0, Len(msgs')}
  BY DEF Plain, Ordinary, FlushJobs
<1> QED
  BY <1>1, HandlerOrder

\* The daemon starts, or gets a signal.
LEMMA SignalOrder ==
    ASSUME OrderInv, Start \/ SIGUSR1 \/ SIGUSR2 \/ SIGTERM
    PROVE  BoundsOK' /\ (Calm' => OrderOK')
<1>1. /\ Task("open_system") \in Plain /\ Task("open_runtime") \in Plain
      /\ Task("space") \in Plain /\ Task("vacuum") \in Plain /\ Task("flush") \in Plain
      /\ Driver \in Plain /\ Task("loop") \in Plain /\ Task("sync") \in Plain
      /\ Task("turn") \in Plain /\ Task("done") \in Plain /\ Task("rotate") \in Plain
  BY PlainTasks DEF Jobs, Driver
<1>2. CASE Start
  <2>1. StartTasks \in Seq(Plain) /\ todo' = StartTasks
    BY <1>1, <1>2 DEF Start, StartTasks
  <2>2. UNCHANGED <<disk, open, flush, faults, msgs>> /\ used' = used /\ todo = <<>>
    BY <1>2 DEF Start, OrderInv, ServerInv, TodoOK
  <2>3. NoCrash
    BY <2>2, NoCrashes DEF OrderInv, BoundsOK
  <2> QED
    BY <2>1, <2>2, <2>3, PlainHandlerOrder
<1>3. ASSUME NEW a \in Seq(Plain), Signal(a)
      PROVE  BoundsOK' /\ (Calm' => OrderOK')
  <2>1. /\ UNCHANGED <<disk, open, flush, faults, msgs>> /\ up /\ todo = <<>> /\ todo' = a
        /\ used' = [used EXCEPT !.signals = @ + 1]
    BY <1>3 DEF Signal, Idle
  <2>2. NoCrash
    BY <2>1, NoCrashes DEF OrderInv, BoundsOK
  <2> QED
    BY <1>3, <2>1, <2>2, PlainHandlerOrder
<1>4. CASE SIGUSR1
  <2>1. PICK a : a = <<Task("flush"), Task("sync"), Task("turn")>>
    OBVIOUS
  <2>2. a \in Seq(Plain) /\ Signal(a)
    BY <1>1, <1>4, <2>1 DEF SIGUSR1
  <2> QED
    BY <1>3, <2>2
<1>5. CASE SIGUSR2
  <2>1. PICK a : a = RotateAndVacuum \o <<Task("turn")>>
    OBVIOUS
  <2>2. a \in Seq(Plain)
    BY <1>1, <2>1 DEF RotateAndVacuum
  <2>3. Signal(a)
    BY <1>5, <2>1 DEF SIGUSR2
  <2> QED
    BY <1>3, <2>2, <2>3
<1>6. CASE SIGTERM
  <2>1. PICK a : a = <<Task("turn"), Task("turn"), Driver, Task("done")>>
    OBVIOUS
  <2>2. a \in Seq(Plain) /\ Signal(a)
    BY <1>1, <1>6, <2>1 DEF SIGTERM
  <2> QED
    BY <1>3, <2>2
<1> QED
  BY <1>2, <1>4, <1>5, <1>6

\* A message arrives, and is the last one.
LEMMA ReceiveOrder ==
    ASSUME OrderInv, NEW uid, NEW pri, Receive(uid, pri)
    PROVE  BoundsOK' /\ (Calm' => OrderOK')
<1>1. /\ UNCHANGED <<disk, open, flush, faults>> /\ used' = used /\ up /\ todo = <<>>
      /\ msgs' = Append(msgs, [uid |-> uid, pri |-> pri])
  BY DEF Receive, Idle
<1>2. NoCrash
  BY <1>1, NoCrashes DEF OrderInv, BoundsOK
<1>3. PICK M : msgs \in Seq(M)
  BY DEF OrderInv, ServerInv, BasicsOK
<1>4. PICK n \in Nat : n = Len(msgs)
  BY <1>3
<1>5. Len(msgs') = n + 1
  BY <1>1, <1>3, <1>4
<1>6. PICK t : t = TaskFor("write", n + 1)
  OBVIOUS
<1>7. t.do = "write" /\ t.id = n + 1
  BY <1>6 DEF TaskFor, Task
<1>8. PICK v : v = Task("turn")
  OBVIOUS
<1>9. PICK w : w = Driver
  OBVIOUS
<1>10. v.do = "turn" /\ w.do = "write" /\ w.id = 0
  BY <1>8, <1>9 DEF Task, Driver, TaskFor
<1>11. PICK V : V = {t, v, w}
  OBVIOUS
<1>12. PICK q : todo' = q /\ q \in Seq(V)
  <2>1. PICK p \in {<<>>, <<w>>} : todo' = p \o <<t, v>>
    BY <1>4, <1>6, <1>8, <1>9 DEF Receive
  <2>2. t \in V /\ v \in V /\ w \in V
    BY <1>11
  <2>3. <<t, v>> \in Seq(V) /\ <<>> \in Seq(V) /\ <<w>> \in Seq(V)
    BY <2>2
  <2>4. p \in Seq(V) /\ <<t, v>> \in Seq(V)
    BY <2>1, <2>3
  <2>5. p \o <<t, v>> \in Seq(V)
    BY <2>4
  <2> QED
    BY <2>1, <2>5
<1>13. \A k \in V : /\ k.do \notin FlushJobs
                    /\ k.do \in {"write", "retry"} => k.id \in {0, Len(msgs')}
  BY <1>5, <1>7, <1>10, <1>11 DEF FlushJobs
<1> QED
  BY <1>1, <1>2, <1>4, <1>5, <1>12, <1>13, HandlerOrder

\* Nothing of this changes.
LEMMA IdleOrder ==
    ASSUME OrderInv, UNCHANGED <<disk, todo, open, up, flush, msgs, used, faults>>
    PROVE  BoundsOK' /\ (Calm' => OrderOK')
<1>1. BoundsOK'
  BY DEF OrderInv, BoundsOK, WritesLast
<1>2. ASSUME Calm' PROVE OrderOK'
  <2>1. OrderOK
    BY <1>2 DEF OrderInv, Calm
  <2>2. Pending' = Pending /\ Flushing' = Flushing /\ Starting' = Starting
    BY DEF Pending, First, Flushing, Starting
  <2>3. CopyInOrder'
    BY <2>1, <2>2 DEF OrderOK, CopyInOrder, ToCopy
  <2> QED
    BY <2>1, <2>2, <2>3 DEF OrderOK
<1> QED
  BY <1>1, <1>2

\* The daemon ends with no more entries in the files.
LEMMA EndedBounds ==
    ASSUME OrderInv, Ended, used' \in Counts,
           Ids(disk', DOMAIN disk') \subseteq Ids(disk, DOMAIN disk)
    PROVE  BoundsOK' /\ WritesLast' /\ ~Flushing'
<1>1. todo' = <<>> /\ msgs' = msgs /\ flush'.left = {}
  BY DEF Ended, NoFlush
<1>2. WritesLast' /\ ~Flushing'
  BY <1>1 DEF WritesLast, Flushing
<1>3. LeftIds(flush'.left) = {}
  BY <1>1 DEF LeftIds
<1> QED
  BY <1>1, <1>2, <1>3 DEF OrderInv, BoundsOK

\* A crash, or a failed assertion: all that is said of the order is off.
LEMMA CrashOrder ==
    ASSUME OrderInv, FlushFaults \/ Kill \/ PowerLoss
    PROVE  BoundsOK' /\ (Calm' => OrderOK')
<1>1. Ended /\ used' \in Counts /\ ~Calm'
  <2>1. used \in Counts
    BY DEF OrderInv, BoundsOK
  <2>2. CASE FlushFaults
    BY <2>1, <2>2 DEF FlushFaults, Calm
  <2>3. CASE Crash
    <3>1. used' = [used EXCEPT !.crashes = @ + 1]
      BY <2>3 DEF Crash
    <3>2. used' \in Counts /\ used'.crashes = used.crashes + 1 /\ used.crashes \in Nat
      BY <2>1, <3>1 DEF Counts
    <3>3. used'.crashes # 0
      BY <3>2
    <3> QED
      BY <3>2, <3>3 DEF Calm, FlushFaults, Kill, PowerLoss
  <2> QED
    BY <2>2, <2>3 DEF Kill, PowerLoss
<1>2. CASE FlushFaults \/ Kill
  <2>1. disk' = disk
    BY <1>2 DEF FlushFaults, Kill
  <2> QED
    BY <1>1, <2>1, EndedBounds
<1>3. CASE PowerLoss
  <2> DEFINE var == {x \in DOMAIN disk : InVar(x)}
  <2>1. PICK e : e = disk'
    OBVIOUS
  <2>2. PICK cut \in SUBSET var, state \in [var -> {"online", "offline", "archived"}] :
           /\ \A x \in var : state[x] \in disk[x].ondisk
           /\ e = [x \in var |->
                LET n == IF x \in cut THEN disk[x].synced ELSE Len(disk[x].entries)
                IN  [disk[x] EXCEPT !.entries = SubSeq(@, 1, n), !.synced = n,
                                    !.state = state[x], !.ondisk = {state[x]}]]
    BY <1>3, <2>1 DEF PowerLoss
  <2>3. \A x \in var : x \in DOMAIN disk
    OBVIOUS
  <2> HIDE DEF var
  <2>4. \A x \in DOMAIN disk : FileOK(x, disk[x])
    BY DEF OrderInv, ServerInv, DiskOK
  <2>5. DOMAIN e = var
    BY <2>2
  <2>6. ASSUME NEW x \in var PROVE FileIds(e[x]) \subseteq FileIds(disk[x])
    <3>1. PICK f : f = disk[x]
      OBVIOUS
    <3>2. PICK n : n = IF x \in cut THEN f.synced ELSE Len(f.entries)
      OBVIOUS
    <3>3. PICK g : g = e[x]
      OBVIOUS
    <3>4. f \in File /\ f.synced \in Nat /\ f.synced <= Len(f.entries) /\ Len(f.entries) \in Nat
      BY <2>3, <2>4, <3>1 DEF FileOK, File
    <3>5. PICK s \in Seq(Entry) : s = f.entries
      BY <3>4 DEF File
    <3>6. n \in Nat /\ n <= Len(s)
      BY <3>2, <3>4, <3>5
    <3>7. g.entries = SubSeq(s, 1, n)
      BY <2>2, <3>1, <3>2, <3>3, <3>4, <3>5 DEF File
    <3>8. PICK t : t = SubSeq(s, 1, n)
      OBVIOUS
    <3>9. DOMAIN t = 1..n /\ \A i \in 1..n : t[i] = s[i] /\ i \in DOMAIN s
      BY <3>5, <3>6, <3>8
    <3> QED
      BY <3>1, <3>3, <3>5, <3>7, <3>8, <3>9 DEF FileIds
  <2>7. Ids(e, DOMAIN e) \subseteq Ids(disk, DOMAIN disk)
    <3> SUFFICES ASSUME NEW m \in Ids(e, DOMAIN e) PROVE m \in Ids(disk, DOMAIN disk)
      OBVIOUS
    <3>1. PICK x \in var : m \in FileIds(e[x])
      BY <2>5, IdsOf
    <3> QED
      BY <2>3, <2>6, <3>1, IdsOf
  <2> QED
    BY <1>1, <2>1, <2>7, EndedBounds
<1> QED
  BY <1>2, <1>3

\* server_done() closes the journals, and leaves the runtime journal such that
\* it can be opened again.
LEMMA DoneOrder ==
    ASSUME OrderInv, Done
    PROVE  BoundsOK' /\ (Calm' => OrderOK')
<1>1. PICK e : e = disk'
  OBVIOUS
<1>2. /\ e = [x \in DOMAIN disk |-> IF x.kind = "active" /\ IsOpen(x.loc) THEN SetOffline(disk[x])
                                                                       ELSE disk[x]]
      /\ Ended /\ used' = used /\ faults' = faults /\ Head(todo).do = "done" /\ todo # <<>>
  BY <1>1 DEF Done, Doing
<1>3. ServerInv /\ ~First("create")
  BY <1>2 DEF OrderInv, First
<1>4. DiskOK(disk, ids, {}) /\ OpenShape /\ Pending = {}
  BY <1>3, AllFound
<1>5. ~Flushing
  BY <1>2, <1>3, NotFlushing DEF FlushJobs
<1>6. DOMAIN e = DOMAIN disk
  BY <1>2
<1>7. ASSUME NEW x \in DOMAIN disk PROVE Marks(e[x]) = Marks(disk[x]) /\ e[x].seqid = disk[x].seqid
  <2>1. PICK f : f = disk[x]
    OBVIOUS
  <2>2. PICK g : g = SetOffline(f)
    OBVIOUS
  <2>3. FileOK(x, f)
    BY <1>4, <2>1 DEF DiskOK
  <2>4. Keeps(f, g)
    BY <2>2, <2>3, SetOfflineKeeps
  <2>5. e[x] = g \/ e[x] = f
    BY <1>2, <2>1, <2>2
  <2> QED
    BY <2>1, <2>4, <2>5, KeptMarks
<1>8. Descends(disk, e, "") /\ Succeeded(disk, {}, e, {})
  BY <1>6, <1>7 DEF Descends, Succeeded
<1>9. Ids(e, DOMAIN e) \subseteq Ids(disk, DOMAIN disk) /\ (HasEntries(e) => HasEntries(disk))
  BY <1>8, Descent
<1>10. NoCrash
  BY <1>2, NoCrashes DEF OrderInv, BoundsOK
<1>11. BoundsOK' /\ ~Flushing'
  BY <1>1, <1>2, <1>9, <1>10, EndedBounds DEF NoCrash
<1>12. ~flush'.err /\ up' = FALSE
  BY <1>2 DEF Ended, NoFlush
<1>13. ASSUME OrderOK
       PROVE  /\ RuntimeInUse(disk', Pending', open'.runtime)
              /\ HasEntries(disk') /\ ~open'.runtime /\ up' => Starting'
  <2>1. ASSUME HasEntries(e) PROVE ~Refused(e, Runtime)
    <3>1. PICK x : x = Active(Runtime)
      OBVIOUS
    <3>2. x \in DOMAIN disk /\ (~open.runtime => ~Refused(disk, Runtime))
      BY <1>3, <1>9, <1>13, <2>1, <3>1, RuntimeThere
    <3>3. x.kind = "active" /\ x.loc = Runtime /\ (IsOpen(Runtime) <=> open.runtime)
      BY <1>4, <3>1, SystemOpen DEF Active, Name
    <3>4. FileOK(x, disk[x]) /\ disk[x].state \in {"online", "offline"}
      BY <1>4, <3>2, <3>3 DEF DiskOK, FileOK, File, States
    <3>5. PICK f : f = disk[x]
      OBVIOUS
    <3>6. SetOffline(f).state = "offline"
      <4>1. CASE f.state = "offline"
        BY <4>1 DEF SetOffline
      <4>2. CASE f.state = "online"
        <5>1. PICK a : a = Fsync(f)
          OBVIOUS
        <5>2. a \in File
          BY <3>4, <3>5, <5>1, FsyncKeeps DEF FileOK
        <5>3. PICK b : b = SetState(a, "offline")
          OBVIOUS
        <5>4. b.state = "offline" /\ DOMAIN b = DOMAIN a
          BY <5>2, <5>3 DEF SetState, File
        <5>5. Fsync(b).state = b.state
          BY <5>2, <5>3, <5>4 DEF Fsync, File, SetState
        <5> QED
          BY <4>2, <5>1, <5>3, <5>4, <5>5 DEF SetOffline
      <4> QED
        BY <3>4, <3>5, <4>1, <4>2
    <3>7. e[x].state = "offline"
      <4>1. CASE open.runtime
        BY <1>2, <3>2, <3>3, <3>5, <3>6, <4>1
      <4>2. CASE ~open.runtime
        BY <1>2, <3>1, <3>2, <3>3, <4>2 DEF Refused
      <4> QED
        BY <4>1, <4>2
    <3> QED
      BY <3>1, <3>7 DEF Refused
  <2>2. RuntimeInUse(e, Pending', open'.runtime)
    BY <1>4, <1>8, <1>13, <2>1, InUseKept, StillInUse DEF OrderOK
  <2> QED
    BY <1>1, <1>12, <2>2
<1> QED
  BY <1>1, <1>2, <1>5, <1>8, <1>10, <1>11, <1>12, <1>13, CalmOrder

-----------------------------------------------------------------------------
(* Messages are written                                                    *)

\* The tasks that follow an attempt.
LEMMA WriteHarmless ==
    ASSUME OrderInv, todo # <<>>, Head(todo).do \in {"write", "retry"}, NEW id, id = Head(todo).id
    PROVE  /\ id \in {0, Len(msgs)} /\ id \in Nat
           /\ \E a \in Seq(Harmless) : Retry(id) = a \o Rest
           /\ \E a \in Seq(Harmless) : Rest = a \o Rest
           /\ \A loc \in Locs : \E a \in Seq(Harmless) : AfterAppend(id, loc) = a \o Rest
<1>1. ServerInv /\ Head(todo) = todo[1] /\ 1 \in DOMAIN todo
  BY HeadOK DEF OrderInv, ServerInv, TodoOK
<1>2. id \in {0, Len(msgs)} /\ id \in Nat
  <2>1. id \in {0, Len(msgs)}
    BY <1>1 DEF OrderInv, BoundsOK, WritesLast
  <2> QED
    BY <1>1, <2>1, MsgsCounted DEF ServerInv
<1>3. /\ "rotate" \in Jobs /\ "vacuum" \in Jobs /\ "retry" \in Jobs /\ "sync" \in Jobs
      /\ "return" \in Jobs
  BY DEF Jobs
<1>4. PICK rotate, vacuum, sync1, retry :
         /\ rotate = Task("rotate") /\ vacuum = Task("vacuum") /\ sync1 = Task("sync")
         /\ retry = TaskFor("retry", id)
  OBVIOUS
<1>5. rotate \in Harmless /\ vacuum \in Harmless /\ sync1 \in Harmless /\ retry \in Harmless
  <2>1. /\ rotate \in Tasks /\ rotate.do = "rotate"
        /\ vacuum \in Tasks /\ vacuum.do = "vacuum"
        /\ sync1 \in Tasks /\ sync1.do = "sync"
    BY <1>3, <1>4, MadeTask
  <2>2. retry \in Tasks /\ retry.do = "retry" /\ retry.id = id
    BY <1>2, <1>3, <1>4, MadeTaskFor
  <2> QED
    BY <1>2, <2>1, <2>2 DEF Harmless, FlushJobs
<1>6. PICK F : F = Harmless
  OBVIOUS
<1>7. \E a \in Seq(F) : Retry(id) = a \o Rest
  <2>1. PICK b : b = <<rotate, vacuum>>
    OBVIOUS
  <2>2. PICK c : c = <<retry>>
    OBVIOUS
  <2>3. b \in Seq(F) /\ c \in Seq(F)
    BY <1>5, <1>6, <2>1, <2>2
  <2>4. b \o c \in Seq(F)
    BY <2>3
  <2>5. Retry(id) = (b \o c) \o Rest
    BY <1>4, <2>1, <2>2 DEF Retry, RotateAndVacuum
  <2> QED
    BY <2>4, <2>5
<1>8. \E a \in Seq(Harmless) : Rest = a \o Rest
  BY <1>1, NoTasks
<1>9. ASSUME NEW loc \in Locs
      PROVE  \E a \in Seq(F) : AfterAppend(id, loc) = a \o Rest
  <2>1. PICK t : t = [TaskFor("return", id) EXCEPT !.loc = loc]
    OBVIOUS
  <2>2. t \in Tasks /\ t.do = "return"
    BY <1>2, <1>3, <2>1 DEF TaskFor, Task, Tasks
  <2>3. t \in F
    BY <1>6, <2>2 DEF Harmless, FlushJobs
  <2>4. PICK b : b = IF Priority(id) <= 2 THEN <<Task("sync")>> ELSE <<>>
    OBVIOUS
  <2>5. PICK c : c = <<t>>
    OBVIOUS
  <2>6. c \in Seq(F)
    BY <2>3, <2>5
  <2>7. <<sync1>> \in Seq(F)
    BY <1>5, <1>6
  <2>8. b \in Seq(F)
    BY <1>4, <2>4, <2>7
  <2>9. b \o c \in Seq(F)
    BY <2>6, <2>8
  <2>10. AfterAppend(id, loc) = (b \o c) \o Rest
    BY <2>1, <2>4, <2>5 DEF AfterAppend
  <2> QED
    BY <2>9, <2>10
<1> QED
  BY <1>2, <1>6, <1>7, <1>8, <1>9

\* find_journal(): the runtime journals are left alone, and messages go there as
\* long as one is open.
LEMMA FindJournalOrder ==
    ASSUME ServerInv, ~First("create"), NEW uid, NEW r \in FindJournal(uid)
    PROVE  /\ Descends(disk, r.disk, Active(uid)) /\ RuntimeSame(disk, r.disk)
           /\ r.open.runtime = open.runtime /\ (r.loc = Runtime <=> open.runtime)
           /\ r.used \in {used, Failed}
<1>1. DiskOK(disk, ids, {}) /\ ids \in Nat /\ clock \in Nat /\ OpenShape
  BY AllFound DEF ServerInv, BasicsOK
<1>2. Descends(disk, disk, Active(uid)) /\ RuntimeSame(disk, disk)
  BY DEF Descends, RuntimeSame
<1>3. PICK fallback : fallback = IF IsOpen(System) THEN System ELSE ""
  OBVIOUS
<1>4. fallback # Runtime /\ Runtime \notin Users /\ System # Runtime
  BY <1>3, JournaldAssumption DEF Runtime, System
<1>5. RuntimeOnly <=> open.runtime
  BY <1>1, SystemOpen DEF RuntimeOnly
<1>6. CASE RuntimeOnly
  <2>1. r = [loc |-> Runtime, disk |-> disk, open |-> open, used |-> used]
    BY <1>6 DEF FindJournal
  <2> QED
    BY <1>2, <1>5, <1>6, <2>1
<1>7. CASE ~RuntimeOnly /\ uid \notin Users
  <2>1. r = [loc |-> fallback, disk |-> disk, open |-> open, used |-> used]
    BY <1>3, <1>7 DEF FindJournal
  <2> QED
    BY <1>2, <1>4, <1>5, <1>7, <2>1
<1>8. CASE ~RuntimeOnly /\ uid \in Users /\ IsOpen(uid)
  <2>1. r = [loc |-> uid, disk |-> disk, open |-> open, used |-> used]
    BY <1>8 DEF FindJournal
  <2> QED
    BY <1>2, <1>4, <1>5, <1>8, <2>1
<1>9. CASE ~RuntimeOnly /\ uid \in Users /\ ~IsOpen(uid)
  <2>1. PICK d : d = RoomDisk
    OBVIOUS
  <2>2. PICK o : o = RoomOpen
    OBVIOUS
  <2>3. /\ DiskOK(d, ids, {})
        /\ o \in [runtime : BOOLEAN, system : BOOLEAN, users : Seq(Users)]
        /\ o.runtime = open.runtime
    BY <2>1, <2>2, MakeRoom
  <2>4. /\ DOMAIN d = DOMAIN disk /\ RuntimeSame(disk, d)
        /\ \A x \in DOMAIN disk : Marks(d[x]) = Marks(disk[x]) /\ d[x].seqid = disk[x].seqid
    <3>1. CASE Full
      <4>1. PICK u \in Seq(Users) : u = open.users
        BY <1>1 DEF OpenShape
      <4>2. u # <<>>
        <5>1. Len(u) >= USER_JOURNALS_MAX /\ USER_JOURNALS_MAX \in Nat /\ USER_JOURNALS_MAX > 0
          BY <3>1, <4>1, JournaldAssumption DEF Full
        <5> QED
          BY <4>1, <5>1
      <4>3. Head(u) \in Users
        BY <4>1, <4>2
      <4>4. PICK x : x = Active(Head(open.users))
        OBVIOUS
      <4>5. x.loc # Runtime
        BY <1>4, <4>1, <4>3, <4>4 DEF Active, Name
      <4>6. PICK g : g = SetOffline(disk[x])
        OBVIOUS
      <4>7. x \in DOMAIN disk => Keeps(disk[x], g)
        BY <1>1, <4>6, SetOfflineKeeps DEF DiskOK
      <4>8. d = [disk EXCEPT ![x] = g]
        BY <2>1, <3>1, <4>4, <4>6 DEF RoomDisk
      <4>9. DOMAIN d = DOMAIN disk /\ \A y \in DOMAIN disk : d[y] = IF y = x THEN g ELSE disk[y]
        BY <4>8
      <4>10. \A y \in DOMAIN disk : Marks(d[y]) = Marks(disk[y]) /\ d[y].seqid = disk[y].seqid
        BY <4>7, <4>9, KeptMarks
      <4>11. RuntimeSame(disk, d)
        BY <4>5, <4>9 DEF RuntimeSame
      <4> QED
        BY <4>9, <4>10, <4>11
    <3>2. CASE ~Full
      BY <1>2, <2>1, <3>2 DEF RoomDisk
    <3> QED
      BY <3>1, <3>2
  <2>5. \/ /\ r = [loc |-> uid, disk |-> OpenReliably(d, uid),
                   open |-> [o EXCEPT !.users = Append(@, uid)], used |-> used]
        \/ \E e \in OpenFailures(d, uid) :
             r = [loc |-> fallback, disk |-> e, open |-> o, used |-> Failed]
    BY <1>3, <1>9, <2>1, <2>2 DEF FindJournal, RoomDisk, RoomOpen
  <2>6. PICK e : e = r.disk
    OBVIOUS
  <2>7. e = OpenReliably(d, uid) \/ e \in OpenFailures(d, uid)
    BY <2>5, <2>6
  <2>8. uid \in Locs /\ uid # Runtime
    BY <1>4, <1>9 DEF Locs
  <2>9. Descends(d, e, Active(uid)) /\ RuntimeSame(d, e)
    BY <1>1, <2>3, <2>7, <2>8, OpeningDescends
  <2>10. Descends(disk, e, Active(uid))
    BY <2>4, <2>9, SameDescends
  <2>11. RuntimeSame(disk, e)
    BY <2>4, <2>9 DEF RuntimeSame
  <2>12. r.open.runtime = open.runtime /\ r.loc \in {uid, fallback} /\ r.used \in {used, Failed}
    BY <2>3, <2>5
  <2> QED
    BY <1>4, <1>5, <1>9, <2>6, <2>8, <2>10, <2>11, <2>12
<1> QED
  BY <1>6, <1>7, <1>8, <1>9

\* The last message follows all others.
LEMMA LastFollows ==
    ASSUME OrderInv, NEW id \in {0, Len(msgs)}
    PROVE  \A m \in Ids(disk, DOMAIN disk) : Follows(m, id)
<1>1. \A m \in Ids(disk, DOMAIN disk) : m <= Len(msgs)
  BY DEF OrderInv, BoundsOK
<1> QED
  BY <1>1 DEF Follows

\* The messages in /var are messages in the files.
LEMMA VarIdsAll ==
    ASSUME NEW d
    PROVE  /\ VarIds(d) \subseteq Ids(d, DOMAIN d) /\ RuntimeIds(d) \subseteq Ids(d, DOMAIN d)
           /\ \A x \in DOMAIN d : \A a \in Marks(d[x]) : a.id \in Ids(d, DOMAIN d)
           /\ \A x \in DOMAIN d : InVar(x) => \A a \in Marks(d[x]) : a.id \in VarIds(d)
           /\ \A x \in DOMAIN d : ~InVar(x) => \A a \in Marks(d[x]) : a.id \in RuntimeIds(d)
<1>1. VarIds(d) \subseteq Ids(d, DOMAIN d) /\ RuntimeIds(d) \subseteq Ids(d, DOMAIN d)
  BY IdsOf DEF VarIds, RuntimeIds
<1>2. ASSUME NEW x \in DOMAIN d, NEW a \in Marks(d[x])
      PROVE  /\ a.id \in Ids(d, DOMAIN d) /\ (InVar(x) => a.id \in VarIds(d))
             /\ (~InVar(x) => a.id \in RuntimeIds(d))
  <2>1. a.id \in FileIds(d[x])
    BY MarkIds
  <2>2. x \in {y \in DOMAIN d : InVar(y)} \/ x \in {y \in DOMAIN d : ~InVar(y)}
    OBVIOUS
  <2> QED
    BY <2>1, <2>2, IdsOf DEF VarIds, RuntimeIds
<1> QED
  BY <1>1, <1>2

\* A journal in use that gets an entry stays in use.
LEMMA AppendInUse ==
    ASSUME NEW d, NEW o, RuntimeInUse(d, {}, o), NEW x \in DOMAIN d, x.kind = "active", NEW g,
           g.seqid = d[x].seqid, NEW e, e = [d EXCEPT ![x] = g], NEW Q, NEW q, q
    PROVE  RuntimeInUse(e, Q, q)
<1>1. DOMAIN e = DOMAIN d /\ e[x] = g /\ \A y \in DOMAIN d : y # x => e[y] = d[y]
  OBVIOUS
<1>2. \A y \in DOMAIN d : e[y].seqid = d[y].seqid
  BY <1>1
<1> SUFFICES ASSUME NEW y \in DOMAIN d, y.loc = Runtime, Marks(e[y]) # {}
             PROVE  \E h \in DOMAIN e : h.loc = Runtime /\ Grows(h, Q) /\ e[h].seqid = e[y].seqid
  BY <1>1 DEF RuntimeInUse
<1>3. CASE y = x
  BY <1>1, <1>3 DEF Grows
<1>4. CASE y # x
  <2>1. PICK h \in DOMAIN d : h.loc = Runtime /\ Grows(h, {}) /\ d[h].seqid = d[y].seqid
    BY <1>1, <1>4 DEF RuntimeInUse
  <2> QED
    BY <1>1, <1>2, <2>1 DEF Grows
<1> QED
  BY <1>3, <1>4

\* What find_journal() leaves is in order.
LEMMA FoundFiles ==
    ASSUME NEW r, Found(r), DiskOK(disk, ids, {}), ids \in Nat
    PROVE  \E n \in Nat : DiskOK(r.disk, n, {})
<1>1. PICK n \in Nat : n = ids + 1
  OBVIOUS
<1>2. r.disk # disk => DiskOK(r.disk, n, {})
  BY <1>1 DEF Found
<1> QED
  BY <1>2

\* The message that is written is not above the last one.
LEMMA NoneAbove == \A l \in Nat : \A m \in {0, l} : m <= l
OBVIOUS

\* The journal that find_journal() returned gets the entry, or part of it.
LEMMA WrittenOrder ==
    ASSUME OrderInv, up, todo # <<>>, Head(todo).do \in {"write", "retry"},
           NEW uid, NEW r \in FindJournal(uid), Finding(r), r.loc # "",
           NEW x, x = Active(r.loc), NEW g, NEW b, b.id = Head(todo).id, b.seq \in Nat,
           b.seq > r.disk[x].tail, g.seqid = r.disk[x].seqid,
           Marks(g) \subseteq Marks(r.disk[x]) \cup {b}, disk' = [r.disk EXCEPT ![x] = g],
           NEW a \in Seq(Harmless), todo' = a \o Rest, NoCrash
    PROVE  BoundsOK' /\ (Calm' => OrderOK')
<1>1. ServerInv /\ ~First("create") /\ ~Flushing
  BY NotFlushing DEF OrderInv, First, FlushJobs
<1>2. open' = r.open /\ UNCHANGED <<up, flush, msgs, faults>>
  BY DEF Finding
<1>3. PICK d : d = r.disk
  OBVIOUS
<1>4. PICK e : e = disk'
  OBVIOUS
<1>5. /\ Descends(disk, d, Active(uid)) /\ RuntimeSame(disk, d)
      /\ open'.runtime = open.runtime /\ (r.loc = Runtime <=> open.runtime)
  BY <1>1, <1>2, <1>3, FindJournalOrder
<1>6. Found(r) /\ DiskOK(disk, ids, {}) /\ ids \in Nat /\ Pending = {}
  BY <1>1, <1>2, FindJournalKeeps, AllFound
<1>7. x \in DOMAIN d /\ x.kind = "active" /\ x.loc = r.loc
  BY <1>3, <1>6, NamesOK DEF Found
<1>8. PICK n \in Nat : DiskOK(d, n, {})
  BY <1>3, <1>6, FoundFiles
<1>9. /\ DirInOrder(disk) => DirInOrder(d)
      /\ HasEntries(d) => HasEntries(disk)
      /\ VarIds(d) \subseteq VarIds(disk) /\ RuntimeIds(d) \subseteq RuntimeIds(disk)
      /\ Ids(d, DOMAIN d) \subseteq Ids(disk, DOMAIN disk)
  BY <1>5, Descent
<1>10. PICK id : id = Head(todo).id
  OBVIOUS
<1>11. b.id = id /\ id \in {0, Len(msgs)} /\ Len(msgs) \in Nat
  BY <1>1, <1>10, WriteHarmless, MsgsCounted DEF ServerInv
<1>12. e = [d EXCEPT ![x] = g]
  BY <1>3, <1>4
<1>13. /\ Ids(e, DOMAIN e) \subseteq Ids(d, DOMAIN d) \cup {id}
       /\ InVar(x) => VarIds(e) \subseteq VarIds(d) \cup {id} /\ RuntimeSame(d, e)
       /\ ~InVar(x) => VarIds(e) \subseteq VarIds(d) /\ RuntimeIds(e) \subseteq RuntimeIds(d) \cup {id}
  BY <1>3, <1>7, <1>11, <1>12, AppendIds
<1>14. WritesLast' /\ Flushing' = Flushing
  BY <1>1, <1>2, HarmlessPush DEF OrderInv, BoundsOK, FlushJobs
<1>15. BoundsOK'
  <2>1. id <= Len(msgs)
    <3>1. PICK l \in Nat : l = Len(msgs)
      BY <1>11
    <3>2. id \in {0, l}
      BY <1>11, <3>1
    <3>3. id <= l
      BY <3>2, NoneAbove
    <3> QED
      BY <3>1, <3>3
  <2>2. \A m \in Ids(e, DOMAIN e) \cup LeftIds(flush'.left) :
           m \in Ids(disk, DOMAIN disk) \cup LeftIds(flush.left) \/ m <= Len(msgs)
    BY <1>2, <1>9, <1>13, <2>1
  <2> QED
    BY <1>2, <1>4, <1>14, <2>2, BoundsKept DEF OrderInv
<1>16. ASSUME Calm' PROVE OrderOK'
  <2>1. OrderOK
    BY <1>2, <1>16 DEF OrderInv, Calm, NoCrash
  <2>2. \A m \in Ids(disk, DOMAIN disk) : Follows(m, id)
    BY <1>11, LastFollows
  <2>3. DirInOrder(e)
    <3>1. \A y \in DOMAIN d : \A c \in Marks(d[y]) : Follows(c.id, b.id)
      BY <1>9, <1>11, <2>2, VarIdsAll
    <3>2. DirInOrder(d)
      BY <1>9, <2>1 DEF OrderOK
    <3>3. b.seq > d[x].tail /\ g.seqid = d[x].seqid /\ Marks(g) \subseteq Marks(d[x]) \cup {b}
      BY <1>3
    <3> QED
      BY <1>7, <1>8, <1>12, <3>1, <3>2, <3>3, AppendOrder
  <2>4. ~Flushing' /\ ~flush'.err
    BY <1>1, <1>2, <1>14, <2>1 DEF OrderOK
  <2>5. CASE r.loc = Runtime
    <3>1. open.runtime /\ open'.runtime /\ ~InVar(x)
      BY <1>5, <1>7, <2>5 DEF InVar
    <3>2. RuntimeInUse(d, {}, TRUE)
      <4>1. Succeeded(disk, {}, d, {})
        BY <1>5, SameRuntime
      <4>2. RuntimeInUse(disk, {}, open.runtime)
        BY <1>6, <2>1 DEF OrderOK
      <4> QED
        BY <1>5, <4>1, <4>2, InUseKept
    <3>3. RuntimeInUse(e, Pending', open'.runtime)
      BY <1>3, <1>7, <1>12, <3>1, <3>2, AppendInUse
    <3>4. RuntimeInUse(disk', Pending', open'.runtime)
      BY <1>4, <3>3
    <3>5. \A m \in VarIds(e), k \in RuntimeIds(e) : Follows(m, k)
      <4>1. \A m \in VarIds(disk), k \in RuntimeIds(disk) : Follows(m, k)
        BY <1>1, <2>1 DEF OrderOK, CopyInOrder, ToCopy
      <4>2. VarIds(disk) \subseteq Ids(disk, DOMAIN disk)
        BY VarIdsAll
      <4> QED
        BY <1>9, <1>13, <2>2, <3>1, <4>1, <4>2
    <3>6. CopyInOrder'
      BY <1>4, <2>4, <3>5 DEF CopyInOrder, ToCopy
    <3> QED
      BY <1>4, <2>3, <2>4, <3>1, <3>4, <3>6 DEF OrderOK
  <2>6. CASE r.loc # Runtime
    <3>1. ~open.runtime /\ InVar(x)
      BY <1>5, <1>7, <2>6 DEF InVar
    <3>2. ~HasEntries(disk)
      BY <2>1, <3>1, StartingHead DEF OrderOK
    <3>3. ~HasEntries(e)
      BY <1>9, <1>13, <3>1, <3>2, SameRuntime
    <3>4. RuntimeIds(e) = {} /\ RuntimeInUse(e, Pending', open'.runtime)
      BY <3>3, NoEntries
    <3>5. CopyInOrder'
      BY <1>4, <2>4, <3>4 DEF CopyInOrder, ToCopy
    <3> QED
      BY <1>4, <2>3, <2>4, <3>3, <3>4, <3>5 DEF OrderOK
  <2> QED
    BY <2>5, <2>6
<1> QED
  BY <1>15, <1>16

\* write_to_journal(), both its attempts.
LEMMA WriteOrder ==
    ASSUME OrderInv, Write \/ WriteAgain
    PROVE  BoundsOK' /\ (Calm' => OrderOK')
<1>1. todo # <<>> /\ up /\ Head(todo).do \in {"write", "retry"} /\ ~First("create") /\ ServerInv
  BY DEF Write, WriteAgain, Doing, First, OrderInv
<1>2. PICK id : id = Head(todo).id
  OBVIOUS
<1>3. PICK uid : uid = Uid(id)
  OBVIOUS
<1>4. PICK r \in FindJournal(uid) :
         /\ Finding(r)
         /\ \/ /\ disk' = r.disk
               /\ todo' = Rest \/ todo' = Retry(id)
               /\ used' = r.used \/ used' = [r.used EXCEPT !.rotations = @ + 1]
            \/ /\ r.loc # ""
               /\ \E again \in {Rest, Retry(id)} : Attempt(r, id, AfterAppend(id, r.loc), again)
  BY <1>2, <1>3 DEF Write, WriteAgain
<1>5. open' = r.open /\ UNCHANGED <<up, flush, msgs, faults>>
  BY <1>4 DEF Finding
<1>6. /\ Descends(disk, r.disk, Active(uid)) /\ RuntimeSame(disk, r.disk)
      /\ open'.runtime = open.runtime /\ r.used \in {used, Failed}
  BY <1>1, <1>5, FindJournalOrder
<1>7. /\ id \in {0, Len(msgs)} /\ id \in Nat
      /\ \E a \in Seq(Harmless) : Retry(id) = a \o Rest
      /\ \E a \in Seq(Harmless) : Rest = a \o Rest
      /\ \A loc \in Locs : \E a \in Seq(Harmless) : AfterAppend(id, loc) = a \o Rest
  BY <1>1, <1>2, WriteHarmless
<1>8. ASSUME \/ used' = r.used \/ used' = [r.used EXCEPT !.rotations = @ + 1]
             \/ used' = [r.used EXCEPT !.failures = @ + 1]
      PROVE  NoCrash
  <2>1. used \in Counts
    BY DEF OrderInv, BoundsOK
  <2>2. [used EXCEPT !.failures = @ + 1] = Failed
    BY DEF Failed
  <2> QED
    BY <1>6, <1>8, <2>1, <2>2, NoCrashes
<1>9. ASSUME disk' = r.disk, NEW a \in Seq(Harmless), todo' = a \o Rest, NoCrash
      PROVE  BoundsOK' /\ (Calm' => OrderOK')
  <2>1. Pending = {} /\ Descends(disk, disk', Active(uid))
    BY <1>1, <1>6, <1>9, AllFound
  <2>2. Succeeded(disk, {}, disk', {})
    BY <1>6, <1>9, SameRuntime
  <2>3. Succeeded(disk, Pending, disk', Pending')
    BY <2>1, <2>2, StillInUse
  <2>4. Head(todo).do \notin FlushJobs \cup {"open_system", "open_runtime", "done"}
    BY <1>1 DEF FlushJobs
  <2> QED
    BY <1>1, <1>5, <1>6, <1>9, <2>1, <2>3, <2>4, OrderStep
<1>10. CASE /\ disk' = r.disk
            /\ todo' = Rest \/ todo' = Retry(id)
            /\ used' = r.used \/ used' = [r.used EXCEPT !.rotations = @ + 1]
  <2>1. PICK a \in Seq(Harmless) : todo' = a \o Rest
    BY <1>7, <1>10
  <2>2. NoCrash
    BY <1>8, <1>10
  <2> QED
    BY <1>9, <1>10, <2>1, <2>2
<1>11. CASE /\ r.loc # ""
            /\ \E again \in {Rest, Retry(id)} : Attempt(r, id, AfterAppend(id, r.loc), again)
  <2>1. PICK again \in {Rest, Retry(id)} : Attempt(r, id, AfterAppend(id, r.loc), again)
    BY <1>11
  <2>2. PICK x : x = Active(r.loc)
    OBVIOUS
  <2>3. PICK f : f = r.disk[x]
    OBVIOUS
  <2>4. PICK seq : seq = EntrySeqnum(f)
    OBVIOUS
  <2>5. PICK g : g = Appended(f, id, clock, seq)
    OBVIOUS
  <2>6. Found(r)
    BY <1>1, <1>5, FindJournalKeeps
  <2>7. r.loc \in Locs /\ x \in DOMAIN r.disk /\ x.kind = "active"
    BY <1>11, <2>2, <2>6, NamesOK DEF Found
  <2>8. DiskOK(disk, ids, {}) /\ seqnum \in Nat /\ clock \in Nat
    BY <1>1, AllFound DEF ServerInv, BasicsOK
  <2>9. FileOK(x, f) /\ f.tail \in Nat
    <3>1. FileOK(x, f)
      BY <2>3, <2>6, <2>7, <2>8 DEF Found, DiskOK
    <3> QED
      BY <3>1, Numbers
  <2>10. seq \in Nat /\ seq > f.tail
    BY <2>4, <2>8, <2>9, EntrySeqnumAbove
  <2>11. PICK b : b = [seq |-> seq, id |-> id]
    OBVIOUS
  <2>12. b.seq = seq /\ b.id = id
    BY <2>11
  <2>13. Marks(g) = Marks(f) \cup {b} /\ g.seqid = f.seqid
    <3>1. PICK n \in Nat : n = seq
      BY <2>10
    <3>2. PICK m \in Nat : m = id
      BY <1>7
    <3>3. PICK at \in Nat : at = clock
      BY <2>8
    <3>4. g = Appended(f, m, at, n) /\ b = [seq |-> n, id |-> m]
      BY <2>5, <2>11, <3>1, <3>2, <3>3
    <3> QED
      BY <2>7, <2>9, <3>4, AppendedMarks
  <2>14. PICK h : h = SetOnline(f)
    OBVIOUS
  <2>15. Marks(h) = Marks(f) /\ h.seqid = f.seqid
    BY <2>9, <2>14, SetOnlineKeeps, KeptMarks
  <2>16. ASSUME NEW k \in {g, h}, disk' = [r.disk EXCEPT ![x] = k],
                NEW a \in Seq(Harmless), todo' = a \o Rest, NoCrash
         PROVE  BoundsOK' /\ (Calm' => OrderOK')
    <3>1. Marks(k) \subseteq Marks(r.disk[x]) \cup {b} /\ k.seqid = r.disk[x].seqid
      BY <2>3, <2>13, <2>15
    <3>2. b.seq \in Nat /\ b.seq > r.disk[x].tail /\ b.id = Head(todo).id
      BY <1>2, <2>3, <2>10, <2>12
    <3> QED
      BY <1>1, <1>4, <1>11, <2>2, <2>16, <3>1, <3>2, WrittenOrder
  <2>17. CASE f.tables
    <3>1. \/ /\ disk' = [r.disk EXCEPT ![x] = g] /\ todo' = AfterAppend(id, r.loc) /\ used' = r.used
          \/ \E visible, retry \in BOOLEAN :
               /\ disk' = [r.disk EXCEPT ![x] = IF visible THEN g ELSE h]
               /\ todo' = IF retry THEN again ELSE Rest
               /\ used' = [r.used EXCEPT !.failures = @ + 1]
      BY <2>1, <2>2, <2>3, <2>4, <2>5, <2>14, <2>17 DEF Attempt
    <3>2. PICK k \in {g, h} : disk' = [r.disk EXCEPT ![x] = k]
      BY <3>1
    <3>3. PICK a \in Seq(Harmless) : todo' = a \o Rest
      BY <1>7, <2>7, <3>1
    <3>4. NoCrash
      BY <1>8, <3>1
    <3> QED
      BY <2>16, <3>2, <3>3, <3>4
  <2>18. CASE ~f.tables
    <3>1. disk' = r.disk /\ todo' = again /\ used' = r.used
      BY <2>1, <2>2, <2>3, <2>18 DEF Attempt
    <3>2. PICK a \in Seq(Harmless) : todo' = a \o Rest
      BY <1>7, <3>1
    <3>3. NoCrash
      BY <1>8, <3>1
    <3> QED
      BY <1>9, <3>1, <3>2, <3>3
  <2> QED
    BY <2>17, <2>18
<1> QED
  BY <1>4, <1>10, <1>11

-----------------------------------------------------------------------------
(* The flush                                                               *)

\* Tasks are put in the place of the first one: a flush goes on if they do.
LEMMA FlushPush ==
    ASSUME ServerInv, WritesLast, todo # <<>>, NEW a \in Seq(Tasks), todo' = a \o Rest,
           msgs' = msgs, \A j \in DOMAIN todo : j # 1 => Ordinary(todo[j]),
           \A i \in DOMAIN a : a[i].do \in {"write", "retry"} => a[i].id \in {0, Len(msgs)}
    PROVE  WritesLast' /\ (Flushing' <=> \E i \in DOMAIN a : a[i].do \in FlushJobs)
<1>1. PICK s \in Seq(Tasks) : s = todo
  BY DEF ServerInv, TodoOK
<1>2. PICK q : q = todo'
  OBVIOUS
<1>3. PICK m \in Nat : m = Len(a) /\ DOMAIN a = 1..m
  OBVIOUS
<1>4. s # <<>> /\ q = a \o Tail(s)
  BY <1>1, <1>2 DEF Rest
<1>5. ASSUME NEW k \in DOMAIN q
      PROVE  (k \in DOMAIN a /\ q[k] = a[k]) \/ \E j \in DOMAIN s : j # 1 /\ q[k] = s[j]
  <2>1. \/ k \in DOMAIN a /\ q[k] = a[k]
        \/ /\ k > Len(a) /\ k - Len(a) + 1 \in DOMAIN s
           /\ k - Len(a) + 1 # 1 /\ q[k] = s[k - Len(a) + 1]
    BY <1>1, <1>4, Pushed
  <2>2. PICK j : j = k - Len(a) + 1
    OBVIOUS
  <2> QED
    BY <2>1, <2>2
<1>6. WritesLast'
  <2> SUFFICES ASSUME NEW k \in DOMAIN q, q[k].do \in {"write", "retry"}
               PROVE  q[k].id \in {0, Len(msgs)}
    BY <1>2 DEF WritesLast
  <2>1. CASE k \in DOMAIN a /\ q[k] = a[k]
    BY <2>1
  <2>2. CASE \E j \in DOMAIN s : q[k] = s[j]
    <3>1. PICK j \in DOMAIN s : q[k] = s[j]
      BY <2>2
    <3> QED
      BY <1>1, <3>1 DEF WritesLast
  <2> QED
    BY <1>5, <2>1, <2>2
<1>7. ASSUME Flushing' PROVE \E i \in DOMAIN a : a[i].do \in FlushJobs
  <2>1. PICK k \in DOMAIN q : q[k].do \in FlushJobs
    BY <1>2, <1>7 DEF Flushing, FlushJobs
  <2>2. ASSUME NEW j \in DOMAIN s, j # 1 PROVE s[j].do \notin FlushJobs
    BY <1>1, <2>2 DEF Ordinary, FlushJobs
  <2> QED
    BY <1>5, <2>1, <2>2
<1>8. ASSUME NEW i \in DOMAIN a, a[i].do \in FlushJobs PROVE Flushing'
  <2>1. Tail(s) \in Seq(Tasks)
    BY <1>1, <1>4
  <2>2. PICK t \in Seq(Tasks) : t = Tail(s)
    BY <2>1
  <2>3. i \in DOMAIN q /\ q[i] = a[i]
    BY <1>3, <1>4, <2>2
  <2> QED
    BY <1>2, <1>8, <2>3 DEF Flushing, FlushJobs
<1> QED
  BY <1>6, <1>7, <1>8

\* The same of one task.
LEMMA FlushPushOne ==
    ASSUME ServerInv, WritesLast, todo # <<>>, NEW t \in Tasks, todo' = <<t>> \o Rest,
           Head(todo).do \notin {"rotate", "vacuum", "rename", "create"},
           msgs' = msgs, t.do \in {"write", "retry"} => t.id \in {0, Len(msgs)}
    PROVE  WritesLast' /\ (Flushing' <=> t.do \in FlushJobs)
<1>1. PICK a : a = <<t>>
  OBVIOUS
<1>2. a \in Seq(Tasks) /\ DOMAIN a = {1} /\ a[1] = t
  BY <1>1
<1>3. \A j \in DOMAIN todo : j # 1 => Ordinary(todo[j])
  BY RestOrdinary DEF ServerInv
<1> QED
  BY <1>1, <1>2, <1>3, FlushPush

\* A number stands for one message of a source.
LEMMA MarkOnce ==
    ASSUME NEW d, NEW n, DiskOK(d, n, {}), NEW x \in DOMAIN d, NEW y \in DOMAIN d,
           d[x].seqid = d[y].seqid, NEW a \in Marks(d[x]), NEW b \in Marks(d[y]), a.seq = b.seq
    PROVE  a.id = b.id /\ a.id \in Nat
<1>1. FileOK(x, d[x]) /\ FileOK(y, d[y])
  BY DEF DiskOK
<1>2. PICK s \in Seq(Entry) : s = d[x].entries
  BY <1>1 DEF FileOK, File
<1>3. PICK i \in DOMAIN s : a.seq = s[i].seq /\ a.id = s[i].id
  BY <1>2 DEF Marks
<1>4. s[i] \in Entry
  BY <1>2
<1>5. a.id \in Nat /\ a.seq \in Nat
  BY <1>3, <1>4 DEF Entry
<1>6. CASE x = y
  <2>1. PICK j \in DOMAIN s : b.seq = s[j].seq /\ b.id = s[j].id
    BY <1>2, <1>6 DEF Marks
  <2>2. \A k, l \in DOMAIN s : k < l => s[k].seq < s[l].seq
    BY <1>1, <1>2 DEF FileOK
  <2>3. i \in Nat /\ j \in Nat
    BY <1>2
  <2>4. PICK v \in Nat : s[i].seq = v /\ s[j].seq = v
    BY <1>3, <1>5, <2>1
  <2>5. i = j
    BY <2>2, <2>3, <2>4
  <2> QED
    BY <1>3, <1>5, <2>1, <2>5
<1>7. CASE x # y
  <2>1. Below(Seqs(d[x]), Seqs(d[y])) \/ Below(Seqs(d[y]), Seqs(d[x]))
    BY <1>7 DEF DiskOK, Chained
  <2>2. a.seq \in Seqs(d[x]) /\ b.seq \in Seqs(d[y])
    BY MarkSeqs
  <2>3. a.seq < b.seq \/ b.seq < a.seq
    BY <2>1, <2>2 DEF Below
  <2> QED
    BY <1>5, <2>3
<1> QED
  BY <1>6, <1>7

\* What the flush is going to copy is in the runtime journals.
LEMMA EntriesListed ==
    /\ \A e \in RuntimeEntries :
         \E x \in DOMAIN disk : /\ ~InVar(x) /\ e.seqid = disk[x].seqid
                                /\ \E a \in Marks(disk[x]) : a.seq = e.seq /\ a.id = e.id
    /\ LeftIds(RuntimeEntries) \subseteq RuntimeIds(disk)
    /\ LeftIds(RuntimeEntries) \subseteq Ids(disk, DOMAIN disk)
<1>1. ASSUME NEW e \in RuntimeEntries
      PROVE  \E x \in DOMAIN disk : /\ ~InVar(x) /\ e.seqid = disk[x].seqid
                                    /\ \E a \in Marks(disk[x]) : a.seq = e.seq /\ a.id = e.id
  <2>1. PICK x \in DOMAIN disk : ~InVar(x) /\ \E i \in DOMAIN disk[x].entries :
           e = [id |-> disk[x].entries[i].id, at |-> disk[x].entries[i].at,
                seqid |-> disk[x].seqid, seq |-> disk[x].entries[i].seq]
    BY DEF RuntimeEntries
  <2>2. PICK i \in DOMAIN disk[x].entries :
           e = [id |-> disk[x].entries[i].id, at |-> disk[x].entries[i].at,
                seqid |-> disk[x].seqid, seq |-> disk[x].entries[i].seq]
    BY <2>1
  <2>3. PICK a : a = [seq |-> disk[x].entries[i].seq, id |-> disk[x].entries[i].id]
    OBVIOUS
  <2>4. a \in Marks(disk[x]) /\ a.seq = e.seq /\ a.id = e.id /\ e.seqid = disk[x].seqid
    BY <2>2, <2>3 DEF Marks
  <2> QED
    BY <2>1, <2>4
<1>2. LeftIds(RuntimeEntries) \subseteq RuntimeIds(disk)
  BY <1>1, VarIdsAll DEF LeftIds
<1> QED
  BY <1>1, <1>2, VarIdsAll

\* What the flush is going to copy is in order.
LEMMA EntriesInOrder ==
    ASSUME ServerInv, ~First("create"), OrderOK, up, todo # <<>>, Head(todo).do = "begin"
    PROVE  /\ LeftInOrder(RuntimeEntries) /\ LeftIds(RuntimeEntries) \subseteq RuntimeIds(disk)
           /\ ~open.runtime => RuntimeEntries = {}
<1>1. DiskOK(disk, ids, {}) /\ Pending = {}
  BY AllFound
<1>2. /\ \A e \in RuntimeEntries :
           \E x \in DOMAIN disk : /\ ~InVar(x) /\ e.seqid = disk[x].seqid
                                  /\ \E a \in Marks(disk[x]) : a.seq = e.seq /\ a.id = e.id
      /\ LeftIds(RuntimeEntries) \subseteq RuntimeIds(disk)
  BY EntriesListed
<1>3. PICK s : s = disk[Active(Runtime)].seqid
  OBVIOUS
<1>4. ASSUME NEW x \in DOMAIN disk, ~InVar(x), Marks(disk[x]) # {} PROVE disk[x].seqid = s
  <2>1. PICK h \in DOMAIN disk : h.loc = Runtime /\ Grows(h, {}) /\ disk[h].seqid = disk[x].seqid
    BY <1>1, <1>4 DEF OrderOK, RuntimeInUse, InVar
  <2>2. h = Active(Runtime)
    BY <1>1, <2>1, ActiveNames DEF Grows, DiskOK
  <2> QED
    BY <1>3, <2>1, <2>2
<1>5. ASSUME NEW e \in RuntimeEntries, NEW f \in RuntimeEntries
      PROVE  e.seqid = f.seqid /\ (e.seq <= f.seq => Follows(e.id, f.id))
  <2>1. PICK x \in DOMAIN disk : /\ ~InVar(x) /\ e.seqid = disk[x].seqid
                                 /\ \E a \in Marks(disk[x]) : a.seq = e.seq /\ a.id = e.id
    BY <1>2
  <2>2. PICK a \in Marks(disk[x]) : a.seq = e.seq /\ a.id = e.id
    BY <2>1
  <2>3. PICK y \in DOMAIN disk : /\ ~InVar(y) /\ f.seqid = disk[y].seqid
                                 /\ \E b \in Marks(disk[y]) : b.seq = f.seq /\ b.id = f.id
    BY <1>2
  <2>4. PICK b \in Marks(disk[y]) : b.seq = f.seq /\ b.id = f.id
    BY <2>3
  <2>5. disk[x].seqid = s /\ disk[y].seqid = s
    BY <1>4, <2>1, <2>2, <2>3, <2>4
  <2>6. a.seq \in Nat /\ b.seq \in Nat
    <3>1. FileOK(x, disk[x]) /\ FileOK(y, disk[y])
      BY <1>1 DEF DiskOK
    <3> QED
      BY <3>1, MarkSeqs, Numbers
  <2>7. CASE a.seq < b.seq
    BY <2>1, <2>2, <2>3, <2>4, <2>5, <2>7 DEF OrderOK, DirInOrder
  <2>8. CASE a.seq = b.seq
    <3>1. a.id = b.id /\ a.id \in Nat
      BY <1>1, <2>5, <2>8, MarkOnce
    <3>2. Follows(a.id, b.id)
      BY <3>1 DEF Follows
    <3> QED
      BY <2>1, <2>2, <2>3, <2>4, <2>5, <3>2
  <2>9. CASE b.seq < a.seq
    <3>1. ~(a.seq <= b.seq)
      BY <2>6, <2>9
    <3> QED
      BY <2>1, <2>2, <2>3, <2>4, <2>5, <3>1
  <2> QED
    BY <2>6, <2>7, <2>8, <2>9
<1>6. LeftInOrder(RuntimeEntries)
  BY <1>5 DEF LeftInOrder
<1>7. ASSUME ~open.runtime, NEW e \in RuntimeEntries PROVE FALSE
  <2>1. ~HasEntries(disk)
    BY <1>7, StartingHead DEF OrderOK
  <2> QED
    BY <1>2, <2>1 DEF HasEntries, InVar
<1> QED
  BY <1>2, <1>6, <1>7

\* The flush begins.
LEMMA BeginFlushOrder ==
    ASSUME OrderInv, BeginFlush
    PROVE  BoundsOK' /\ (Calm' => OrderOK')
<1>1. /\ UNCHANGED <<disk, open, up, msgs, faults>> /\ up /\ todo # <<>>
      /\ Head(todo).do = "begin" /\ (used' = used \/ used' = Failed)
  BY DEF BeginFlush, Doing
<1>2. ServerInv /\ ~First("create") /\ NoCrash
  BY <1>1, NoCrashes DEF OrderInv, BoundsOK, First
<1>3. CASE todo' = Rest /\ flush' = flush
  <2>1. <<>> \in Seq(Harmless) /\ todo' = <<>> \o Rest
    BY <1>2, <1>3, NoTasks
  <2> QED
    BY <1>1, <1>2, <1>3, <2>1, QuietOrder DEF FlushJobs
<1>4. ASSUME NEW missed, flush' = [left |-> RuntimeEntries \ missed, err |-> FALSE,
                                      unread |-> {e.id : e \in missed}],
             todo' = <<Task("copy")>> \o Rest
      PROVE  BoundsOK' /\ (Calm' => OrderOK')
  <2>1. PICK t : t = Task("copy")
    OBVIOUS
  <2>2. "copy" \in Jobs
    BY DEF Jobs
  <2>3. t \in Tasks /\ t.do = "copy" /\ todo' = <<t>> \o Rest
    BY <1>4, <2>1, <2>2, MadeTask
  <2>4. WritesLast' /\ Flushing'
    BY <1>1, <1>2, <2>3, FlushPushOne DEF OrderInv, BoundsOK, FlushJobs
  <2>5. flush'.left \subseteq RuntimeEntries /\ ~flush'.err
    BY <1>4
  <2>6. ~Flushing /\ Pending = {}
    BY <1>1, <1>2, NotFlushing, AllFound DEF FlushJobs
  <2>7. BoundsOK'
    <3>1. LeftIds(RuntimeEntries) \subseteq Ids(disk, DOMAIN disk)
      BY EntriesListed
    <3>2. LeftIds(flush'.left) \subseteq LeftIds(RuntimeEntries)
      BY <2>5 DEF LeftIds
    <3> QED
      BY <1>1, <1>2, <2>4, <3>1, <3>2, BoundsKept DEF OrderInv
  <2>8. ASSUME Calm' PROVE OrderOK'
    <3>1. OrderOK
      BY <1>1, <1>2, <2>8 DEF OrderInv, Calm, NoCrash
    <3>2. /\ LeftInOrder(RuntimeEntries) /\ LeftIds(RuntimeEntries) \subseteq RuntimeIds(disk)
          /\ ~open.runtime => RuntimeEntries = {}
      BY <1>1, <1>2, <3>1, EntriesInOrder
    <3>3. HasEntries(disk) => open.runtime
      BY <1>1, <3>1, StartingHead DEF OrderOK
    <3>4. RuntimeInUse(disk, Pending', open.runtime)
      <4>1. Descends(disk, disk, "") /\ Succeeded(disk, {}, disk, {})
        BY DEF Descends, Succeeded
      <4> QED
        BY <2>6, <3>1, <3>3, <4>1, InUseKept, StillInUse DEF OrderOK
    <3>5. \A m \in VarIds(disk), k \in RuntimeIds(disk) : Follows(m, k)
      BY <2>6, <3>1 DEF OrderOK, CopyInOrder, ToCopy
    <3>6. CopyInOrder'
      <4>1. LeftInOrder(flush'.left)
        BY <2>5, <3>2 DEF LeftInOrder
      <4>2. LeftIds(flush'.left) \subseteq RuntimeIds(disk)
        BY <2>5, <3>2 DEF LeftIds
      <4>3. ~open.runtime => flush'.left = {}
        BY <2>5, <3>2
      <4> QED
        BY <1>1, <2>4, <3>5, <4>1, <4>2, <4>3 DEF CopyInOrder, ToCopy
    <3> QED
      BY <1>1, <2>5, <3>1, <3>3, <3>4, <3>6 DEF OrderOK
  <2> QED
    BY <2>7, <2>8
<1> QED
  BY <1>3, <1>4 DEF BeginFlush

\* The next entry has the least number.
LEMMA NextLeftLeast ==
    ASSUME flush.left \subseteq Left, LeftInOrder(flush.left), flush.left # {}
    PROVE  \A k \in LeftIds(flush.left) : Follows(NextLeft.id, k)
<1>1. PICK L : L = flush.left
  OBVIOUS
<1>2. PICK f \in L : TRUE
  BY <1>1
<1>3. \A x, y \in L : x.seqid = y.seqid /\ x.seqid \in Nat /\ x.seq \in Nat
  BY <1>1 DEF LeftInOrder, Left
<1>4. PICK U : U = {x.seq : x \in L}
  OBVIOUS
<1>5. U \subseteq Nat /\ U # {}
  BY <1>2, <1>3, <1>4
<1>6. PICK q \in U : \A y \in U : q <= y
  BY <1>5, LeastElement
<1>7. PICK c \in L : c.seq = q
  BY <1>4, <1>6
<1>8. \A x \in L : c.seqid < x.seqid \/ (c.seqid = x.seqid /\ c.seq <= x.seq)
  BY <1>3, <1>4, <1>6, <1>7
<1>9. PICK e : e = NextLeft
  OBVIOUS
<1>10. e \in L /\ \A x \in L : e.seqid < x.seqid \/ (e.seqid = x.seqid /\ e.seq <= x.seq)
  BY <1>1, <1>7, <1>8, <1>9 DEF NextLeft
<1>11. ASSUME NEW x \in L PROVE Follows(e.id, x.id)
  <2>1. e.seqid = x.seqid /\ e.seqid \in Nat
    BY <1>3, <1>10
  <2>2. e.seq <= x.seq
    BY <1>10, <2>1
  <2> QED
    BY <1>1, <1>10, <2>2 DEF LeftInOrder
<1> QED
  BY <1>1, <1>9, <1>11 DEF LeftIds

\* A step of the flush that copies nothing, and may pass over entries.
LEMMA QuietCopy ==
    ASSUME OrderInv, up, todo # <<>>, Head(todo).do \in {"copy", "recopy"},
           UNCHANGED <<disk, open, up, msgs, faults>>, NoCrash, WritesLast', Flushing',
           flush'.left \subseteq flush.left, flush'.err = flush.err
    PROVE  BoundsOK' /\ (Calm' => OrderOK')
<1>1. ServerInv /\ ~First("create") /\ Flushing
  <2>1. ServerInv /\ 1 \in DOMAIN todo /\ Head(todo) = todo[1]
    BY HeadOK DEF OrderInv
  <2> QED
    BY <2>1 DEF First, Flushing
<1>2. Descends(disk, disk, "") /\ Succeeded(disk, {}, disk, {}) /\ Pending = {}
  BY <1>1, AllFound DEF Descends, Succeeded
<1>3. Succeeded(disk, Pending, disk, Pending')
  BY <1>2, StillInUse
<1>4. LeftIds(flush'.left) \subseteq LeftIds(flush.left)
  BY DEF LeftIds
<1>5. BoundsOK'
  BY <1>4, BoundsKept DEF OrderInv
<1>6. ASSUME Calm' PROVE OrderOK'
  <2>1. OrderOK
    BY <1>6 DEF OrderInv, Calm, NoCrash
  <2>2. HasEntries(disk) => open.runtime
    BY <2>1, StartingHead DEF OrderOK
  <2>3. RuntimeInUse(disk, Pending', open.runtime)
    BY <1>2, <1>3, <2>1, <2>2, InUseKept DEF OrderOK
  <2>4. LeftInOrder(flush.left) /\ \A m \in VarIds(disk), k \in LeftIds(flush.left) : Follows(m, k)
    BY <1>1, <2>1 DEF OrderOK, CopyInOrder, ToCopy
  <2>5. LeftInOrder(flush'.left)
    BY <2>4 DEF LeftInOrder
  <2>6. ~open.runtime => flush'.left = {}
    BY <1>1, <2>1 DEF OrderOK, CopyInOrder
  <2>7. CopyInOrder'
    BY <1>4, <2>4, <2>5, <2>6 DEF CopyInOrder, ToCopy
  <2> QED
    BY <2>1, <2>2, <2>3, <2>7 DEF OrderOK
<1> QED
  BY <1>5, <1>6

\* The next entry is copied, or part of it.
LEMMA CopiedOrder ==
    ASSUME OrderInv, up, todo # <<>>, Head(todo).do \in {"copy", "recopy"}, IsOpen(System),
           flush.left # {}, NEW x, x = Active(System), NEW g, NEW b, b.id = NextLeft.id,
           b.seq \in Nat, b.seq > disk[x].tail, g.seqid = disk[x].seqid,
           Marks(g) \subseteq Marks(disk[x]) \cup {b}, disk' = [disk EXCEPT ![x] = g],
           UNCHANGED <<open, up, msgs>>, NoCrash, flush'.left \subseteq flush.left, WritesLast'
    PROVE  /\ BoundsOK'
           /\ Calm' /\ faults' = faults /\ flush'.err = flush.err /\ Flushing' => OrderOK'
<1>1. ServerInv /\ ~First("create") /\ Flushing
  <2>1. ServerInv /\ 1 \in DOMAIN todo /\ Head(todo) = todo[1]
    BY HeadOK DEF OrderInv
  <2> QED
    BY <2>1 DEF First, Flushing
<1>2. DiskOK(disk, ids, {}) /\ ids \in Nat /\ OpenFound /\ Pending = {}
  BY <1>1, AllFound
<1>3. x \in DOMAIN disk /\ x.kind = "active" /\ x.loc = System /\ System # Runtime
  BY <1>2, NamesOK DEF OpenFound, Locs, System, Runtime
<1>4. PICK c : c = NextLeft
  OBVIOUS
<1>5. flush.left \subseteq Left /\ c \in flush.left /\ b.id = c.id
  BY <1>1, <1>4, NextLeftListed DEF ServerInv, FlushOK, Flushes
<1>6. PICK e : e = disk'
  OBVIOUS
<1>7. InVar(x) /\ e = [disk EXCEPT ![x] = g]
  BY <1>3, <1>6 DEF InVar
<1>8. /\ Ids(e, DOMAIN e) \subseteq Ids(disk, DOMAIN disk) \cup {c.id}
      /\ VarIds(e) \subseteq VarIds(disk) \cup {c.id} /\ RuntimeSame(disk, e)
  BY <1>3, <1>5, <1>7, AppendIds
<1>9. LeftIds(flush'.left) \subseteq LeftIds(flush.left) /\ c.id \in LeftIds(flush.left)
  BY <1>5 DEF LeftIds
<1>10. BoundsOK'
  BY <1>6, <1>8, <1>9, BoundsKept DEF OrderInv
<1>11. ASSUME Calm', faults' = faults, flush'.err = flush.err, Flushing' PROVE OrderOK'
  <2>1. OrderOK
    BY <1>11 DEF OrderInv, Calm, NoCrash
  <2>2. LeftInOrder(flush.left) /\ \A m \in VarIds(disk), k \in LeftIds(flush.left) : Follows(m, k)
    BY <1>1, <2>1 DEF OrderOK, CopyInOrder, ToCopy
  <2>3. \A k \in LeftIds(flush.left) : Follows(c.id, k)
    BY <1>4, <1>5, <2>2, NextLeftLeast
  <2>4. CopyInOrder'
    <3>1. \A m \in VarIds(e), k \in LeftIds(flush'.left) : Follows(m, k)
      BY <1>8, <1>9, <2>2, <2>3
    <3>2. LeftInOrder(flush'.left)
      BY <2>2 DEF LeftInOrder
    <3>3. ~open.runtime => flush'.left = {}
      BY <1>1, <2>1 DEF OrderOK, CopyInOrder
    <3> QED
      BY <1>6, <1>11, <3>1, <3>2, <3>3 DEF CopyInOrder, ToCopy
  <2>5. DirInOrder(e)
    <3>1. ASSUME NEW y \in DOMAIN disk, disk[y].seqid = disk[x].seqid, NEW a \in Marks(disk[y])
          PROVE  Follows(a.id, b.id)
      <4>1. y.loc = x.loc
        BY <1>3, <2>1, <3>1 DEF OrderOK, DirInOrder
      <4>2. InVar(y)
        BY <1>3, <4>1 DEF InVar
      <4>3. a.id \in VarIds(disk)
        BY <4>2, VarIdsAll
      <4> QED
        BY <1>5, <1>9, <2>2, <4>3
    <3>2. DirInOrder(disk)
      BY <2>1 DEF OrderOK
    <3> QED
      BY <1>2, <1>3, <1>7, <3>1, <3>2, AppendOrder
  <2>6. /\ Succeeded(disk, {}, e, {}) /\ (HasEntries(e) => HasEntries(disk))
    BY <1>8, SameRuntime
  <2>7. HasEntries(e) => open.runtime
    BY <2>1, <2>6, StartingHead DEF OrderOK
  <2>8. RuntimeInUse(e, Pending', open.runtime)
    <3>1. ASSUME NEW y \in DOMAIN e, y.loc = Runtime, Marks(e[y]) # {}
          PROVE  \E k \in DOMAIN e : k.loc = Runtime /\ Grows(k, Pending') /\ e[k].seqid = e[y].seqid
      <4>1. y \in DOMAIN disk /\ e[y] = disk[y]
        BY <1>8, <3>1 DEF RuntimeSame
      <4>2. PICK h \in DOMAIN disk : h.loc = Runtime /\ Grows(h, {}) /\ disk[h].seqid = disk[y].seqid
        BY <1>2, <2>1, <3>1, <4>1 DEF OrderOK, RuntimeInUse
      <4>3. PICK k \in DOMAIN e : k.loc = Runtime /\ Grows(k, {}) /\ e[k].seqid = disk[h].seqid
        BY <2>6, <4>2 DEF Succeeded
      <4> QED
        BY <4>1, <4>2, <4>3 DEF Grows
    <3> QED
      BY <2>7, <3>1 DEF RuntimeInUse
  <2>9. ~flush'.err
    BY <1>11, <2>1 DEF OrderOK
  <2> QED
    BY <1>6, <2>4, <2>5, <2>7, <2>8, <2>9 DEF OrderOK
<1> QED
  BY <1>10, <1>11

\* journal_file_copy_entry(), whether it succeeds or not.
LEMMA CopyOrder ==
    ASSUME OrderInv, up, todo # <<>>, Head(todo).do \in {"copy", "recopy"}, IsOpen(System),
           flush.left # {}, UNCHANGED <<open, up, msgs>>, NEW again \in BOOLEAN, Copy(again)
    PROVE  BoundsOK' /\ (Calm' => OrderOK')
<1>1. ServerInv /\ ~First("create") /\ Head(todo).do \notin {"rotate", "vacuum", "rename", "create"}
  BY DEF OrderInv, First
<1>2. DiskOK(disk, ids, {}) /\ OpenFound
  BY <1>1, AllFound
<1>3. PICK x : x = Active(System)
  OBVIOUS
<1>4. x \in DOMAIN disk /\ x.kind = "active"
  BY <1>2, <1>3, NamesOK DEF OpenFound, Locs
<1>5. PICK f : f = disk[x]
  OBVIOUS
<1>6. FileOK(x, f) /\ f.tail \in Nat
  BY <1>2, <1>4, <1>5, Numbers DEF DiskOK
<1>7. flush \in Flushes
  BY <1>1 DEF ServerInv, FlushOK
<1>8. PICK e : e = NextLeft
  OBVIOUS
<1>9. e \in flush.left /\ e.id \in Nat /\ e.at \in Nat
  <2>1. e \in flush.left /\ e \in Left
    BY <1>7, <1>8, NextLeftListed DEF Flushes
  <2> QED
    BY <2>1 DEF Left
<1>10. PICK seq \in Nat : seq = f.tail + 1 /\ seq > f.tail
  <2>1. PICK n \in Nat : n = f.tail
    BY <1>6
  <2>2. n + 1 \in Nat /\ n + 1 > n
    OBVIOUS
  <2> QED
    BY <2>1, <2>2
<1>11. PICK g : g = Appended(f, e.id, e.at, seq)
  OBVIOUS
<1>12. PICK b : b = [seq |-> seq, id |-> e.id]
  OBVIOUS
<1>13. b.seq = seq /\ b.id = NextLeft.id
  BY <1>8, <1>12
<1>14. Marks(g) = Marks(f) \cup {b} /\ g.seqid = f.seqid
  BY <1>4, <1>6, <1>9, <1>11, <1>12, AppendedMarks
<1>15. PICK h : h = SetOnline(f)
  OBVIOUS
<1>16. Marks(h) = Marks(f) /\ h.seqid = f.seqid
  BY <1>6, <1>15, SetOnlineKeeps, KeptMarks
<1>17. PICK rest : rest = flush.left \ {e}
  OBVIOUS
<1>18. PICK finish, copy : finish = Task("finish") /\ copy = Task("copy")
  OBVIOUS
<1>19. finish \in Tasks /\ finish.do = "finish" /\ copy \in Tasks /\ copy.do = "copy"
  <2>1. "finish" \in Jobs /\ "copy" \in Jobs
    BY DEF Jobs
  <2> QED
    BY <1>18, <2>1, MadeTask
<1>20. ASSUME NEW k \in {g, h}, disk' = [disk EXCEPT ![x] = k], NoCrash, WritesLast',
              flush'.left \subseteq flush.left
       PROVE  /\ BoundsOK'
              /\ Calm' /\ faults' = faults /\ flush'.err = flush.err /\ Flushing' => OrderOK'
  <2>1. Marks(k) \subseteq Marks(disk[x]) \cup {b} /\ k.seqid = disk[x].seqid
    BY <1>5, <1>14, <1>16
  <2>2. b.seq \in Nat /\ b.seq > disk[x].tail
    BY <1>5, <1>10, <1>13
  <2> QED
    BY <1>3, <1>13, <1>20, <2>1, <2>2, CopiedOrder
<1>21. (used' = used \/ used' = Failed) => NoCrash
  BY NoCrashes DEF OrderInv, BoundsOK
<1>22. WritesLast
  BY DEF OrderInv, BoundsOK
<1>23. CASE /\ disk' = [disk EXCEPT ![x] = g] /\ flush' = [flush EXCEPT !.left = rest]
            /\ todo' = <<copy>> \o Rest /\ used' = used /\ faults' = faults
  <2>1. flush'.left \subseteq flush.left /\ flush'.err = flush.err
    BY <1>7, <1>17, <1>23
  <2>2. WritesLast' /\ Flushing'
    BY <1>1, <1>19, <1>22, <1>23, FlushPushOne DEF FlushJobs
  <2> QED
    BY <1>20, <1>21, <1>23, <2>1, <2>2
<1>24. CASE /\ disk' = disk \/ \E k \in {g, h} : disk' = [disk EXCEPT ![x] = k]
            /\ todo' = <<finish>> \o Rest
            /\ flush' = [[flush EXCEPT !.left = rest] EXCEPT !.err = TRUE]
            /\ faults' = faults \cup {"flush"} /\ (used' = used \/ used' = Failed)
  <2>1. flush'.left \subseteq flush.left /\ ~Calm' /\ NoCrash
    BY <1>7, <1>17, <1>21, <1>24 DEF Calm
  <2>2. WritesLast'
    BY <1>1, <1>19, <1>22, <1>24, FlushPushOne
  <2>3. CASE disk' = disk
    <3>1. LeftIds(flush'.left) \subseteq LeftIds(flush.left)
      BY <2>1 DEF LeftIds
    <3>2. BoundsOK'
      BY <2>1, <2>2, <2>3, <3>1, BoundsKept DEF OrderInv
    <3> QED
      BY <2>1, <3>2
  <2>4. CASE \E k \in {g, h} : disk' = [disk EXCEPT ![x] = k]
    BY <1>20, <2>1, <2>2, <2>4
  <2> QED
    BY <1>24, <2>3, <2>4
<1>25. CASE /\ disk' = disk \/ \E k \in {g, h} : disk' = [disk EXCEPT ![x] = k]
            /\ todo' = RotateAndVacuum \o <<Task("recopy")>> \o Rest
            /\ flush' = flush /\ faults' = faults /\ (used' = used \/ used' = Failed)
  <2>1. PICK r, v, c : r = Task("rotate") /\ v = Task("vacuum") /\ c = Task("recopy")
    OBVIOUS
  <2>2. "rotate" \in Jobs /\ "vacuum" \in Jobs /\ "recopy" \in Jobs
    BY DEF Jobs
  <2>3. /\ r \in Tasks /\ r.do = "rotate" /\ v \in Tasks /\ v.do = "vacuum"
        /\ c \in Tasks /\ c.do = "recopy"
    BY <2>1, <2>2, MadeTask
  <2>4. PICK a : a = <<r, v>> \o <<c>>
    OBVIOUS
  <2>5. a \in Seq(Tasks) /\ DOMAIN a = 1..3 /\ a[1] = r /\ a[2] = v /\ a[3] = c
    BY <2>3, <2>4, ThreeListed
  <2>6. todo' = a \o Rest
    BY <1>25, <2>1, <2>4 DEF RotateAndVacuum
  <2>7. \A i \in DOMAIN a : a[i].do \notin {"write", "retry"}
    <3>1. \A i \in 1..3 : i = 1 \/ i = 2 \/ i = 3
      OBVIOUS
    <3> QED
      BY <2>3, <2>5, <3>1
  <2>8. 3 \in DOMAIN a /\ a[3].do \in FlushJobs
    BY <2>3, <2>5 DEF FlushJobs
  <2>9. \A j \in DOMAIN todo : j # 1 => Ordinary(todo[j])
    BY <1>1, RestOrdinary DEF ServerInv
  <2>10. WritesLast' /\ Flushing'
    BY <1>1, <1>22, <2>5, <2>6, <2>7, <2>8, <2>9, FlushPush
  <2>11. CASE disk' = disk
    BY <1>21, <1>25, <2>10, <2>11, QuietCopy
  <2>12. CASE \E k \in {g, h} : disk' = [disk EXCEPT ![x] = k]
    BY <1>20, <1>21, <1>25, <2>10, <2>12
  <2> QED
    BY <1>25, <2>11, <2>12
<1>26. \/ /\ disk' = [disk EXCEPT ![x] = g] /\ flush' = [flush EXCEPT !.left = rest]
          /\ todo' = <<copy>> \o Rest /\ used' = used /\ faults' = faults
       \/ /\ disk' = disk \/ disk' = [disk EXCEPT ![x] = g] \/ disk' = [disk EXCEPT ![x] = h]
          /\ used' = used \/ used' = Failed
          /\ \/ /\ todo' = <<finish>> \o Rest
                /\ flush' = [[flush EXCEPT !.left = rest] EXCEPT !.err = TRUE]
                /\ faults' = faults \cup {"flush"}
             \/ /\ todo' = RotateAndVacuum \o <<Task("recopy")>> \o Rest
                /\ flush' = flush /\ faults' = faults
  BY <1>3, <1>5, <1>8, <1>10, <1>11, <1>15, <1>17, <1>18 DEF Copy
<1>27. disk' = [disk EXCEPT ![x] = g] \/ disk' = [disk EXCEPT ![x] = h] =>
         \E k \in {g, h} : disk' = [disk EXCEPT ![x] = k]
  OBVIOUS
<1> QED
  BY <1>23, <1>24, <1>25, <1>26, <1>27

\* The loop of server_flush_to_var().
LEMMA CopyEntryOrder ==
    ASSUME OrderInv, CopyEntry
    PROVE  BoundsOK' /\ (Calm' => OrderOK')
<1>1. /\ UNCHANGED <<up, open, msgs>>
      /\ todo # <<>> /\ up /\ Head(todo).do \in {"copy", "recopy"}
  BY DEF CopyEntry, Doing
<1>2. ServerInv /\ ~First("create") /\ WritesLast
      /\ Head(todo).do \notin {"rotate", "vacuum", "rename", "create"}
  BY <1>1 DEF OrderInv, BoundsOK, First
<1>3. OpenShape
  BY <1>2, AllFound
<1>4. 1 \in DOMAIN todo /\ Head(todo) = todo[1]
  BY <1>1, <1>2, HeadOK
<1>5. flush \in Flushes
  BY <1>2 DEF ServerInv, FlushOK
<1>6. ASSUME todo' = <<Task("finish")>> \o Rest PROVE WritesLast' /\ Flushing'
  <2>1. PICK t : t = Task("finish")
    OBVIOUS
  <2>2. "finish" \in Jobs
    BY DEF Jobs
  <2>3. t \in Tasks /\ t.do = "finish"
    BY <2>1, <2>2, MadeTask
  <2>4. todo' = <<t>> \o Rest
    BY <1>6, <2>1
  <2> QED
    BY <1>1, <1>2, <2>3, <2>4, FlushPushOne DEF FlushJobs
<1>7. used' = used => NoCrash
  BY NoCrashes DEF OrderInv, BoundsOK
<1>8. CASE /\ Doing("copy") /\ todo' = <<Task("finish")>> \o Rest
           /\ UNCHANGED <<disk, flush, faults, used>>
  <2>1. WritesLast' /\ Flushing' /\ NoCrash
    BY <1>6, <1>7, <1>8
  <2> QED
    BY <1>1, <1>8, <2>1, QuietCopy
<1>9. CASE Doing("copy") /\ flush.left # {} /\ Copy(TRUE)
  <2>1. First("copy")
    BY <1>9 DEF Doing, First
  <2>2. open.system
    BY <1>2, <2>1 DEF ServerInv, TodoOK, FirstOK
  <2>3. IsOpen(System)
    BY <1>3, <2>2, SystemOpen
  <2> QED
    BY <1>1, <1>9, <2>3, CopyOrder
<1>10. CASE Doing("recopy") /\ IsOpen(System)
  <2>1. Copy(FALSE)
    BY <1>10 DEF CopyEntry, Doing
  <2>2. flush.left # {}
    BY <1>2, <1>4, <1>10 DEF ServerInv, FlushOK, Doing
  <2> QED
    BY <1>1, <1>10, <2>1, <2>2, CopyOrder
<1>11. CASE Doing("recopy") /\ ~IsOpen(System)
  <2>1. /\ todo' = <<Task("finish")>> \o Rest /\ flush' = [flush EXCEPT !.err = TRUE]
        /\ faults' = faults \cup {"flush"} /\ UNCHANGED <<disk, used>>
    BY <1>11 DEF CopyEntry, Doing
  <2>2. ~Calm' /\ flush'.left = flush.left
    BY <1>5, <2>1 DEF Calm
  <2>3. WritesLast' /\ NoCrash
    BY <1>6, <1>7, <2>1
  <2>4. BoundsOK'
    BY <1>1, <2>1, <2>2, <2>3, BoundsKept DEF OrderInv
  <2> QED
    BY <2>2, <2>4
<1>12. CASE /\ todo' = <<Task("copy")>> \o Rest /\ used' = Failed
            /\ UNCHANGED <<disk, faults>>
            /\ \E missed : flush' = [flush EXCEPT !.left = @ \ missed,
                                                 !.unread = @ \cup {e.id : e \in missed}]
  <2>1. PICK missed : flush' = [flush EXCEPT !.left = @ \ missed,
                                             !.unread = @ \cup {e.id : e \in missed}]
    BY <1>12
  <2>2. flush'.left = flush.left \ missed /\ flush'.err = flush.err
    BY <1>5, <2>1 DEF Flushes
  <2>3. PICK t : t = Task("copy")
    OBVIOUS
  <2>4. "copy" \in Jobs
    BY DEF Jobs
  <2>5. t \in Tasks /\ t.do = "copy" /\ todo' = <<t>> \o Rest
    BY <1>12, <2>3, <2>4, MadeTask
  <2>6. WritesLast' /\ Flushing'
    BY <1>1, <1>2, <2>5, FlushPushOne DEF FlushJobs
  <2>7. NoCrash
    BY <1>12, NoCrashes DEF OrderInv, BoundsOK
  <2> QED
    BY <1>1, <1>12, <2>2, <2>6, <2>7, QuietCopy
<1> QED
  BY <1>8, <1>9, <1>10, <1>11, <1>12 DEF CopyEntry

\* The runtime journal is closed, and removed when all of it was copied.
LEMMA FinishFlushOrder ==
    ASSUME OrderInv, FinishFlush
    PROVE  BoundsOK' /\ (Calm' => OrderOK')
<1>1. /\ UNCHANGED <<up, msgs, faults, used>>
      /\ todo # <<>> /\ up /\ Head(todo).do = "finish"
      /\ todo' = <<Driver>> \o Rest /\ flush' = NoFlush
  BY DEF FinishFlush, Doing
<1>2. ServerInv /\ ~First("create") /\ WritesLast
      /\ Head(todo).do \notin {"rotate", "vacuum", "rename", "create"}
  BY <1>1 DEF OrderInv, BoundsOK, First
<1>3. DiskOK(disk, ids, {})
  BY <1>2, AllFound
<1>4. WritesLast' /\ ~Flushing'
  <2>1. PICK t : t = Driver
    OBVIOUS
  <2>2. "write" \in Jobs
    BY DEF Jobs
  <2>3. t \in Tasks /\ t.do = "write" /\ t.id = 0
    BY <2>1, <2>2, MadeTaskFor DEF Driver
  <2>4. todo' = <<t>> \o Rest
    BY <1>1, <2>1
  <2> QED
    BY <1>1, <1>2, <2>3, <2>4, FlushPushOne DEF FlushJobs
<1>5. flush'.left = {} /\ ~flush'.err
  BY <1>1 DEF NoFlush
<1>6. NoCrash
  BY <1>1, NoCrashes DEF OrderInv, BoundsOK
<1>7. PICK names : names = {x \in DOMAIN disk : ~InVar(x)}
  OBVIOUS
<1>8. PICK e : e = disk'
  OBVIOUS
<1>9. PICK h : h = Without(disk, names)
  OBVIOUS
<1>10. ~flush.err => e = h
  BY <1>7, <1>8, <1>9 DEF FinishFlush
<1>11. Descends(disk, h, "")
  BY <1>9, RemovedDescends
<1>12. Descends(disk, e, "")
  <2>1. CASE flush.err
    <3>1. PICK x : x = Active(Runtime)
      OBVIOUS
    <3>2. PICK g : g = SetOffline(disk[x])
      OBVIOUS
    <3>3. x \in DOMAIN disk => Keeps(disk[x], g)
      BY <1>3, <3>2, SetOfflineKeeps DEF DiskOK
    <3>4. e = [disk EXCEPT ![x] = g]
      BY <1>8, <2>1, <3>1, <3>2 DEF FinishFlush
    <3> QED
      BY <3>3, <3>4, ReplacedDescends
  <2>2. CASE ~flush.err
    BY <1>10, <1>11, <2>2
  <2> QED
    BY <2>1, <2>2
<1>13. Ids(e, DOMAIN e) \subseteq Ids(disk, DOMAIN disk) /\ (DirInOrder(disk) => DirInOrder(e))
  BY <1>12, Descent
<1>14. LeftIds(flush'.left) = {}
  BY <1>5 DEF LeftIds
<1>15. BoundsOK'
  BY <1>1, <1>4, <1>6, <1>8, <1>13, <1>14, BoundsKept DEF OrderInv
<1>16. ASSUME Calm' PROVE OrderOK'
  <2>1. OrderOK
    BY <1>1, <1>16 DEF OrderInv, Calm
  <2>2. ~flush.err /\ DirInOrder(e)
    BY <1>13, <2>1 DEF OrderOK
  <2>3. ~HasEntries(e)
    <3>1. DOMAIN h = DOMAIN disk \ names
      BY <1>9 DEF Without
    <3>2. \A x \in DOMAIN h : x.loc # Runtime
      BY <1>7, <3>1 DEF InVar
    <3> QED
      BY <1>10, <2>2, <3>2 DEF HasEntries
  <2>4. RuntimeIds(e) = {} /\ \A P, o : RuntimeInUse(e, P, o)
    BY <2>3, NoEntries
  <2>5. CopyInOrder'
    BY <1>4, <1>8, <2>4 DEF CopyInOrder, ToCopy
  <2> QED
    BY <1>5, <1>8, <2>2, <2>3, <2>4, <2>5 DEF OrderOK
<1> QED
  BY <1>15, <1>16

-----------------------------------------------------------------------------
(* The messages stay in order                                              *)

\* At first there are no files.
LEMMA InitOrder == ASSUME ServerInit PROVE OrderInv
<1>1. ServerInv
  BY InitOK
<1>2. PICK d : d = <<>>
  OBVIOUS
<1>3. disk = d /\ DOMAIN d = {} /\ ~up
  BY <1>2 DEF ServerInit
<1>4. DOMAIN todo = {} /\ flush.left = {} /\ ~flush.err
  BY DEF ServerInit, NoFlush
<1>5. ~Flushing
  BY <1>4 DEF Flushing
<1>6. Ids(d, DOMAIN d) = {} /\ LeftIds(flush.left) = {}
  BY <1>3, <1>4, IdsOf DEF LeftIds
<1>7. used \in Counts
  BY DEF ServerInit, Counts
<1>8. BoundsOK
  BY <1>3, <1>4, <1>6, <1>7 DEF BoundsOK, WritesLast
<1>9. ~HasEntries(d) /\ DirInOrder(d)
  BY <1>3 DEF HasEntries, DirInOrder
<1>10. RuntimeIds(d) = {} /\ \A P, o : RuntimeInUse(d, P, o)
  BY <1>9, NoEntries
<1>11. CopyInOrder
  BY <1>3, <1>5, <1>10 DEF CopyInOrder, ToCopy
<1>12. OrderOK
  BY <1>3, <1>4, <1>9, <1>10, <1>11 DEF OrderOK
<1> QED
  BY <1>1, <1>8, <1>12 DEF OrderInv

\* Every step keeps the order.
LEMMA NextOrder ==
    ASSUME OrderInv, ServerNext
    PROVE  OrderInv'
<1>1. ServerInv'
  BY NextKeeps DEF OrderInv
<1>2. CASE Write \/ WriteAgain
  BY <1>1, <1>2, WriteOrder DEF OrderInv
<1>3. CASE WriteReturns \/ Sync \/ Synced \/ Turn \/ Loop \/ Space \/ Flush
  BY <1>1, <1>3, PlainOrder DEF OrderInv
<1>4. CASE Rotate
  BY <1>1, <1>4, RotateOrder DEF OrderInv
<1>5. CASE RotateRename
  BY <1>1, <1>5, RenameOrder DEF OrderInv
<1>6. CASE RotateCreate
  BY <1>1, <1>6, CreateOrder DEF OrderInv
<1>7. CASE Vacuum
  BY <1>1, <1>7, VacuumOrder DEF OrderInv
<1>8. CASE SyncFile
  BY <1>1, <1>8, SyncFileOrder DEF OrderInv
<1>9. CASE OpenSystem
  BY <1>1, <1>9, OpenSystemOrder DEF OrderInv
<1>10. CASE OpenRuntime
  BY <1>1, <1>10, OpenRuntimeOrder DEF OrderInv
<1>11. CASE BeginFlush
  BY <1>1, <1>11, BeginFlushOrder DEF OrderInv
<1>12. CASE CopyEntry
  BY <1>1, <1>12, CopyEntryOrder DEF OrderInv
<1>13. CASE FinishFlush
  BY <1>1, <1>13, FinishFlushOrder DEF OrderInv
<1>14. CASE FlushFaults \/ Kill \/ PowerLoss
  BY <1>1, <1>14, CrashOrder DEF OrderInv
<1>15. CASE Done
  BY <1>1, <1>15, DoneOrder DEF OrderInv
<1>16. CASE Start \/ SIGUSR1 \/ SIGUSR2 \/ SIGTERM
  BY <1>1, <1>16, SignalOrder DEF OrderInv
<1>17. CASE \E uid \in scope.users \cup {"root"} : Receive(uid, scope.level)
  <2>1. PICK uid : Receive(uid, scope.level)
    BY <1>17
  <2>2. BoundsOK' /\ (Calm' => OrderOK')
    BY <2>1, ReceiveOrder
  <2> QED
    BY <1>1, <2>2 DEF OrderInv
<1>18. CASE Tick
  <2>1. UNCHANGED <<disk, todo, open, up, flush, msgs, used, faults>>
    BY <1>18 DEF Tick
  <2>2. BoundsOK' /\ (Calm' => OrderOK')
    BY <2>1, IdleOrder
  <2> QED
    BY <1>1, <2>2 DEF OrderInv
<1> QED
  BY <1>2, <1>3, <1>4, <1>5, <1>6, <1>7, <1>8, <1>9, <1>10, <1>11, <1>12, <1>13, <1>14,
     <1>15, <1>16, <1>17, <1>18
  DEF ServerNext, ServerStep

\* The invariant behind the order of the messages: while nothing crashes and
\* neither a flush nor the runtime journal is given up, what is left in /run is of
\* one source, younger than all of /var, and copied with the least number first,
\* whatever rotations and repeated calls of server_flush_to_var() come between.
THEOREM OrderInvariant == ServerSpec => []OrderInv
<1>1. ServerInit => OrderInv
  BY InitOrder
<1>2. OrderInv /\ [ServerNext]_serverVars => OrderInv'
  <2>1. ASSUME OrderInv, UNCHANGED serverVars PROVE OrderInv'
    <3>1. ServerInv'
      BY <2>1, StutterKeeps DEF OrderInv
    <3>2. UNCHANGED <<disk, todo, open, up, flush, msgs, used, faults>>
      BY <2>1 DEF serverVars
    <3>3. BoundsOK' /\ (Calm' => OrderOK')
      BY <2>1, <3>2, IdleOrder
    <3> QED
      BY <3>1, <3>3 DEF OrderInv
  <2> QED
    BY <2>1, NextOrder
<1> QED
  BY <1>1, <1>2, PTL DEF ServerSpec

\* Entries of one source, in any of its files, are in the order in which their
\* messages arrived, through rotations, flushes of /run to /var and orderly
\* restarts, as long as no crash happens, no flush ends half-way, no rotation gives
\* up the runtime journal and a start can open the runtime journal that it finds.
THEOREM OrderIsKept == ServerSpec => []OrderKept
<1>1. OrderInv => OrderKept
  <2> SUFFICES ASSUME OrderInv, Calm PROVE Ordered
    BY DEF OrderKept, Calm
  <2>1. DirInOrder(disk)
    BY DEF OrderInv, OrderOK
  <2> SUFFICES ASSUME NEW x \in DOMAIN disk, NEW y \in DOMAIN disk,
                      disk[x].seqid = disk[y].seqid, NEW i \in Entries(x), NEW j \in Entries(y),
                      disk[x].entries[i].seq < disk[y].entries[j].seq,
                      disk[x].entries[i].id # 0, disk[y].entries[j].id # 0
               PROVE  disk[x].entries[i].id <= disk[y].entries[j].id
    BY DEF Ordered
  <2>2. PICK a : a = [seq |-> disk[x].entries[i].seq, id |-> disk[x].entries[i].id]
    OBVIOUS
  <2>3. PICK b : b = [seq |-> disk[y].entries[j].seq, id |-> disk[y].entries[j].id]
    OBVIOUS
  <2>4. a \in Marks(disk[x]) /\ b \in Marks(disk[y])
    BY <2>2, <2>3 DEF Marks, Entries
  <2>5. /\ a.seq = disk[x].entries[i].seq /\ a.id = disk[x].entries[i].id
        /\ b.seq = disk[y].entries[j].seq /\ b.id = disk[y].entries[j].id
    BY <2>2, <2>3
  <2>6. a.seq < b.seq => Follows(a.id, b.id)
    BY <2>1, <2>4 DEF DirInOrder
  <2> QED
    BY <2>5, <2>6 DEF Follows
<1> QED
  BY <1>1, OrderInvariant, PTL
=============================================================================
