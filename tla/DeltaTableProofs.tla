-------------------------- MODULE DeltaTableProofs --------------------------
(***************************************************************************)
(* Proofs about DeltaTable: for any writers, partitions and any number of  *)
(* transactions and of replaced log entries, no interleaving of appends,   *)
(* rewrites, conflicts and failures misplaces a row or loses another batch *)
(* than one whose own log entry was replaced; and none repeats a row if no *)
(* entry was. The lemmas about the actions leave the number of output      *)
(* files and the times open, so that they serve every module that takes    *)
(* its table steps from DeltaTable.                                        *)
(***************************************************************************)
EXTENDS DeltaTable, FiniteSums, SequenceTheorems

Count == Nat \ {0}

(***************************************************************************)
(* The files a transaction writes                                          *)
(***************************************************************************)

\* The set of files that an append of batch b to the partitions P writes.
AppendFiles(b, P, now) == {AppendFile(b, p, now) : p \in P}

\* The files of an append are well formed and hold each row of the batch once,
\* in its partition.
LEMMA AppendFilesSound ==
  ASSUME NEW b \in Nat, NEW P \in SUBSET Partitions, NEW now \in Nat
  PROVE  /\ AppendFiles(b, P, now) \in SUBSET File
         /\ RowsOf(AppendFiles(b, P, now)) = {b} \X P
         /\ \A f, g \in AppendFiles(b, P, now) : f # g => f.rows \cap g.rows = {}
         /\ \A f \in AppendFiles(b, P, now) : \A r \in f.rows : r[2] = f.part
<1>1. \A p \in P : AppendFile(b, p, now) \in File
  BY DEF AppendFile, File, Rows
<1>2. \A p \in P : AppendFile(b, p, now).rows = {<<b, p>>}
                   /\ AppendFile(b, p, now).part = p
  BY DEF AppendFile
<1>3. RowsOf(AppendFiles(b, P, now)) = {b} \X P
  <2>1. ASSUME NEW r \in RowsOf(AppendFiles(b, P, now)) PROVE r \in {b} \X P
    BY <1>2 DEF RowsOf, AppendFiles
  <2>2. ASSUME NEW r \in {b} \X P PROVE r \in RowsOf(AppendFiles(b, P, now))
    <3>1. PICK p \in P : r = <<b, p>>
      OBVIOUS
    <3> QED BY <1>2, <3>1 DEF RowsOf, AppendFiles
  <2> QED BY <2>1, <2>2
<1> QED BY <1>1, <1>2, <1>3 DEF AppendFiles

\* The files a rewrite of p puts out are well formed and partition the rows
\* that p had among them.
LEMMA RewrittenSound ==
  ASSUME TypeOK, RowsExactlyOnce, NEW p \in Partitions, NEW n \in Count, NEW now \in Nat
  PROVE  /\ Rewritten(p, n, now) \in SUBSET File
         /\ RowsOf(Rewritten(p, n, now)) = RowsOf(LiveIn(p))
         /\ \A f, g \in Rewritten(p, n, now) : f # g => f.rows \cap g.rows = {}
         /\ \A f \in Rewritten(p, n, now) : \A r \in f.rows : r[2] = f.part
<1> DEFINE F(i) == RewrittenFile(p, n, i, now)
<1>1. \A f \in LiveIn(p) : f \in File /\ f.part = p /\ f \in live
  BY DEF LiveIn, TypeOK
<1>2. \A r \in RowsOf(LiveIn(p)) : r \in Rows /\ r[2] = p
  BY <1>1 DEF RowsOf, File, RowsExactlyOnce
<1>3. \A r \in Rows : r[1] % n \in 0..(n - 1)
  BY DEF Rows, Count
<1>4. \A i \in 0..(n - 1) :
         /\ F(i).part = p
         /\ F(i).rows = {r \in RowsOf(LiveIn(p)) : r[1] % n = i}
  BY DEF RewrittenFile
<1>5. \A i \in 0..(n - 1) : F(i) \in File
  BY <1>2 DEF RewrittenFile, File, TypeOK, Count
<1>6. \A f \in Rewritten(p, n, now) : \E i \in 0..(n - 1) : f = F(i)
  BY DEF Rewritten
<1>7. RowsOf(Rewritten(p, n, now)) = RowsOf(LiveIn(p))
  <2>1. ASSUME NEW r \in RowsOf(LiveIn(p)) PROVE r \in RowsOf(Rewritten(p, n, now))
    <3> DEFINE i == r[1] % n
    <3>1. i \in 0..(n - 1)
      BY <1>2, <1>3
    <3> HIDE DEF i
    <3>2. r[1] % n = i
      BY DEF i
    <3>3. r \in F(i).rows
      BY <1>4, <3>1, <3>2
    <3>4. F(i) \in Rewritten(p, n, now)
      BY <3>1, <3>3 DEF Rewritten
    <3> QED BY <3>3, <3>4 DEF RowsOf
  <2>2. ASSUME NEW r \in RowsOf(Rewritten(p, n, now)) PROVE r \in RowsOf(LiveIn(p))
    <3>1. PICK f \in Rewritten(p, n, now) : r \in f.rows
      BY DEF RowsOf
    <3>2. PICK i \in 0..(n - 1) : f = F(i)
      BY <1>6
    <3> QED BY <1>4, <3>1, <3>2
  <2> QED BY <2>1, <2>2
<1>8. ASSUME NEW f \in Rewritten(p, n, now), NEW g \in Rewritten(p, n, now), f # g
      PROVE  f.rows \cap g.rows = {}
  <2>1. PICK i \in 0..(n - 1) : f = F(i)
    BY <1>6
  <2>2. PICK j \in 0..(n - 1) : g = F(j)
    BY <1>6
  <2>3. i # j
    BY <1>8, <2>1, <2>2
  <2> QED BY <1>4, <2>1, <2>2, <2>3
<1>9. ASSUME NEW f \in Rewritten(p, n, now), NEW r \in f.rows PROVE r[2] = f.part
  <2>1. PICK i \in 0..(n - 1) : f = F(i)
    BY <1>6
  <2> QED BY <1>2, <1>4, <2>1, <1>9
<1> QED BY <1>5, <1>6, <1>7, <1>8, <1>9

(***************************************************************************)
(* The log                                                                 *)
(***************************************************************************)

LEMMA InSnapshot ==
  \A l, f : f \in Snapshot(l) <=>
      \E i \in DOMAIN l : /\ f \in l[i].out
                          /\ \A j \in (i + 1)..Len(l) : f \notin l[j].base
  BY DEF Snapshot

LEMMA Appended ==
  ASSUME NEW l \in Seq(Txn), NEW t \in Txn
  PROVE  /\ Append(l, t) \in Seq(Txn)
         /\ Len(l) \in Nat /\ Len(Append(l, t)) = Len(l) + 1
         /\ DOMAIN l = 1..Len(l) /\ DOMAIN Append(l, t) = 1..(Len(l) + 1)
         /\ \A i \in DOMAIN l : Append(l, t)[i] = l[i]
         /\ Append(l, t)[Len(l) + 1] = t
  BY AppendProperties

\* What an entry at the end of the log does to the snapshot.
LEMMA SnapshotAppend ==
  ASSUME NEW l \in Seq(Txn), NEW t \in Txn
  PROVE  Snapshot(Append(l, t)) = (Snapshot(l) \ t.base) \cup t.out
<1> DEFINE m == Append(l, t)
           n == Len(l)
<1>1. /\ n \in Nat /\ Len(m) = n + 1 /\ DOMAIN l = 1..n /\ DOMAIN m = 1..(n + 1)
      /\ \A i \in 1..n : m[i] = l[i]
      /\ m[n + 1] = t
  BY Appended
<1> HIDE DEF m, n
<1>2. ASSUME NEW f \in Snapshot(m) PROVE f \in (Snapshot(l) \ t.base) \cup t.out
  <2>1. PICK i \in DOMAIN m : f \in m[i].out /\ \A j \in (i + 1)..Len(m) : f \notin m[j].base
    BY <1>2, InSnapshot
  <2>2. CASE i = n + 1
    BY <1>1, <2>1, <2>2
  <2>3. CASE i \in 1..n
    <3>1. f \in l[i].out /\ f \notin t.base
      BY <1>1, <2>1, <2>3
    <3>2. \A j \in (i + 1)..n : f \notin l[j].base
      BY <1>1, <2>1, <2>3
    <3> QED BY <1>1, <2>3, <3>1, <3>2, InSnapshot DEF n
  <2> QED BY <1>1, <2>1, <2>2, <2>3
<1>3. ASSUME NEW f \in t.out PROVE f \in Snapshot(m)
  <2>1. n + 1 \in DOMAIN m /\ f \in m[n + 1].out /\ (n + 1 + 1)..Len(m) = {}
    BY <1>1, <1>3
  <2> QED BY <2>1, InSnapshot
<1>4. ASSUME NEW f \in Snapshot(l), f \notin t.base PROVE f \in Snapshot(m)
  <2>1. PICK i \in DOMAIN l : f \in l[i].out /\ \A j \in (i + 1)..Len(l) : f \notin l[j].base
    BY <1>4, InSnapshot
  <2>2. i \in DOMAIN m /\ f \in m[i].out
    BY <1>1, <2>1
  <2>3. \A j \in (i + 1)..Len(m) : f \notin m[j].base
    BY <1>1, <1>4, <2>1 DEF n
  <2> QED BY <2>2, <2>3, InSnapshot
<1> QED BY <1>2, <1>3, <1>4 DEF m

\* If no entry removes a row that it does not bring back, the latest snapshot has
\* every row that any entry brings: the last entry to bring it cannot have its
\* file removed.
LEMMA RowsOfLog ==
  ASSUME NEW l \in Seq(Txn),
         \A i \in DOMAIN l : RowsOf(l[i].base) \subseteq RowsOf(l[i].out)
  PROVE  \A r : r \in RowsOf(Snapshot(l)) <=> \E i \in DOMAIN l : r \in RowsOf(l[i].out)
<1>1. Len(l) \in Nat /\ DOMAIN l = 1..Len(l)
  BY LenProperties
<1>2. ASSUME NEW r \in RowsOf(Snapshot(l)) PROVE \E i \in DOMAIN l : r \in RowsOf(l[i].out)
  <2>1. PICK f \in Snapshot(l) : r \in f.rows
    BY <1>2 DEF RowsOf
  <2> QED BY <2>1, InSnapshot DEF RowsOf
<1>3. ASSUME NEW r, NEW i \in DOMAIN l, r \in RowsOf(l[i].out)
      PROVE  r \in RowsOf(Snapshot(l))
  <2> DEFINE S == {k \in 1..Len(l) : r \in RowsOf(l[k].out)}
  <2>1. i \in S /\ S \in SUBSET (1..Len(l))
    BY <1>1, <1>3
  <2>2. \A k \in 1..Len(l) : r \in RowsOf(l[k].out) => k \in S
    OBVIOUS
  <2>3. \A k \in S : r \in RowsOf(l[k].out)
    OBVIOUS
  <2> HIDE DEF S
  <2>4. PICK m \in S : \A k \in S : k <= m
    BY <1>1, <2>1, LastOf
  <2>5. PICK f \in l[m].out : r \in f.rows
    BY <2>3, <2>4 DEF RowsOf
  <2>6. ASSUME NEW j \in (m + 1)..Len(l), f \in l[j].base PROVE FALSE
    <3>1. m \in 1..Len(l) /\ j \in 1..Len(l) /\ ~(j <= m)
      BY <1>1, <2>1, <2>4
    <3>2. r \in RowsOf(l[j].out)
      BY <1>1, <2>5, <2>6, <3>1 DEF RowsOf
    <3> QED BY <2>2, <2>4, <3>1, <3>2
  <2>7. f \in Snapshot(l)
    BY <1>1, <2>1, <2>4, <2>5, <2>6, InSnapshot
  <2> QED BY <2>5, <2>7 DEF RowsOf
<1> QED BY <1>2, <1>3

(***************************************************************************)
(* The inductive invariant: what every entry of the log does to the table, *)
(* and every pending transaction will do if it commits.                    *)
(***************************************************************************)

\* The transaction t brings the rows of one batch, or exactly those it removes.
Formed(t) ==
    /\ t.base = {} => \E P \in SUBSET Partitions, now \in Nat :
                        t.out = AppendFiles(t.id, P, now)
    /\ t.base # {} => RowsOf(t.out) = RowsOf(t.base)
    /\ \A f, g \in t.out : f # g => f.rows \cap g.rows = {}
    /\ \A f \in t.out : \A r \in f.rows : r[2] = f.part

\* The row r belongs to an append in the log, or to a lost one.
Known(r) ==
    \/ r[1] \in Lost
    \/ \E i \in DOMAIN log : log[i].base = {} /\ r \in RowsOf(log[i].out)

Sound(t) ==
    /\ t.id < nextTxn
    /\ t.out \subseteq objects
    /\ Formed(t)
    /\ t.base # {} => \A r \in RowsOf(t.out) : Known(r)

LogSound == \A i \in DOMAIN log : Sound(log[i])

\* What t removes was in the snapshot it has read.
ReadFrom(t, l) ==
    \A f \in t.base : \E i \in 1..t.read :
        /\ f \in l[i].out
        /\ \A j \in (i + 1)..t.read : f \notin l[j].base

PendingSound ==
    \A w \in Writers : Writing(w) =>
        /\ Sound(txn[w])
        /\ txn[w].read <= Len(log)
        /\ overwritten = {} => ReadFrom(txn[w], log)

\* A transaction is pending, in the log or lost, and only one writer has it.
IdsDistinct ==
    /\ \A i, j \in DOMAIN log : log[i].id = log[j].id => i = j
    /\ \A v, w \in Writers :
          Writing(v) /\ Writing(w) /\ txn[v].id = txn[w].id => v = w
    /\ \A w \in Writers, i \in DOMAIN log : Writing(w) => txn[w].id # log[i].id
    /\ \A c \in Lost :
          /\ c < nextTxn
          /\ \A i \in DOMAIN log : log[i].id # c
          /\ \A w \in Writers : Writing(w) => txn[w].id # c

IInv == TypeOK /\ RowsExactlyOnce /\ LogSound /\ PendingSound /\ IdsDistinct

LEMMA InvInit == Init => IInv
<1> SUFFICES ASSUME Init PROVE IInv
  OBVIOUS
<1>1. /\ objects = {} /\ live = {} /\ overwritten = {} /\ nextTxn = 0
      /\ log = <<>> /\ DOMAIN log = {} /\ log \in Seq(Txn)
      /\ txn = [w \in Writers |-> NoTxn]
      /\ \A w \in Writers : ~Writing(w)
  BY DEF Init, Writing
<1>2. Snapshot(log) = {} /\ Lost = {}
  BY <1>1 DEF Snapshot, Lost
<1>3. TypeOK
  BY <1>1, <1>2, BoundsAssumption DEF TypeOK
<1> QED BY <1>1, <1>2, <1>3
        DEF IInv, RowsExactlyOnce, LogSound, PendingSound, IdsDistinct

\* Every row of the snapshot was brought by an entry of the log, and belongs to
\* an append or to a lost one.
LEMMA LiveRows ==
  ASSUME IInv
  PROVE  /\ \A r : r \in RowsOf(live) <=> \E i \in DOMAIN log : r \in RowsOf(log[i].out)
         /\ \A r \in RowsOf(live) : Known(r)
<1>1. \A i \in DOMAIN log : RowsOf(log[i].base) \subseteq RowsOf(log[i].out)
  <2>1. RowsOf({}) = {}
    BY DEF RowsOf
  <2> QED BY <2>1 DEF IInv, LogSound, Sound, Formed
<1>2. log \in Seq(Txn) /\ live = Snapshot(log)
  BY DEF IInv, TypeOK
<1>3. \A r : r \in RowsOf(live) <=> \E i \in DOMAIN log : r \in RowsOf(log[i].out)
  BY <1>1, <1>2, RowsOfLog
<1> QED BY <1>3 DEF IInv, LogSound, Sound, Known

\* What keeps a transaction sound.
Grows ==
    /\ objects \subseteq objects'
    /\ nextTxn \in Nat /\ nextTxn' \in Nat /\ nextTxn <= nextTxn'
    /\ \A r : Known(r) => Known(r)'

LEMMA SoundStays ==
  ASSUME Grows, NEW t \in Txn, Sound(t)
  PROVE  Sound(t)'
  BY DEF Grows, Sound, Txn

\* Beginning a transaction with sound output keeps the invariant.
LEMMA BeginStep ==
  ASSUME IInv, NEW w \in Writers,
         NEW base \in SUBSET live, NEW out \in SUBSET File,
         Begin(w, base, out), Formed(Transaction(base, out)),
         base # {} => \A r \in RowsOf(out) : Known(r)
  PROVE  IInv'
<1> DEFINE t == Transaction(base, out)
<1> USE DEF IInv
<1>0. /\ t.id = nextTxn /\ t.read = Len(log) /\ t.base = base /\ t.out = out
      /\ t \in Txn /\ Len(log) \in Nat /\ DOMAIN log = 1..Len(log)
  BY LenProperties DEF Transaction, Txn, TypeOK
<1>1. /\ txn' = [txn EXCEPT ![w] = t] /\ nextTxn' = nextTxn + 1
      /\ objects' = objects \cup out /\ nextTxn \in Nat
      /\ live' = live /\ log' = log /\ overwritten' = overwritten
      /\ nextTxn < MaxTxns /\ ~Writing(w)
  BY DEF Begin, TypeOK, logVars
<1>2. /\ txn'[w] = t
      /\ \A v \in Writers \ {w} : txn'[v] = txn[v]
      /\ \A v \in Writers \ {w} : Writing(v)' = Writing(v)
  BY <1>1 DEF TypeOK, Writing
<1>f. Formed(t)
  OBVIOUS
<1> HIDE DEF t
<1>3. TypeOK'
  BY <1>0, <1>1, BoundsAssumption DEF TypeOK
<1>4. RowsExactlyOnce'
  BY <1>1 DEF RowsExactlyOnce
<1>5. Lost' = Lost /\ \A r : Known(r) <=> Known(r)'
  BY <1>1 DEF Lost, Known
<1>6. Grows
  BY <1>1, <1>5 DEF Grows
<1>7. LogSound'
  BY <1>1, <1>6, SoundStays, ElementOfSeq, <1>0 DEF LogSound, TypeOK
<1>8. PendingSound'
  <2> SUFFICES ASSUME NEW v \in Writers, Writing(v)'
               PROVE  /\ Sound(txn[v])'
                      /\ txn'[v].read <= Len(log')
                      /\ overwritten' = {} => ReadFrom(txn'[v], log')
    BY DEF PendingSound
  <2>1. CASE v = w
    <3>1. /\ t.id < nextTxn' /\ t.out \subseteq objects' /\ Formed(t)
          /\ t.base # {} => \A r \in RowsOf(t.out) : Known(r)'
      BY <1>0, <1>1, <1>5, <1>f
    <3>2. ReadFrom(t, log)
      <4>1. \A f \in base : f \in Snapshot(log)
        BY DEF TypeOK
      <4>2. \A f \in base : \E i \in 1..Len(log) :
               f \in log[i].out /\ \A j \in (i + 1)..Len(log) : f \notin log[j].base
        BY <1>0, <4>1, InSnapshot
      <4> QED BY <1>0, <4>2 DEF ReadFrom
    <3>3. Sound(txn[v])'
      <4>1. txn'[v] = t
        BY <1>2, <2>1
      <4> QED BY <3>1, <4>1 DEF Sound
    <3> QED BY <1>0, <1>1, <1>2, <2>1, <3>2, <3>3
  <2>2. CASE v # w
    <3>1. /\ txn'[v] = txn[v] /\ txn[v] \in Txn /\ Sound(txn[v])
          /\ txn[v].read <= Len(log)
          /\ overwritten = {} => ReadFrom(txn[v], log)
      BY <1>2, <2>2 DEF PendingSound, TypeOK, Writing
    <3> QED BY <1>1, <1>6, <3>1, SoundStays DEF Sound
  <2> QED BY <2>1, <2>2
<1>9. IdsDistinct'
  <2>1. \A v \in Writers \ {w} : Writing(v) => txn[v].id < nextTxn /\ txn[v].id \in Nat
    BY DEF PendingSound, Sound, TypeOK, Txn, Writing
  <2>2. \A i \in DOMAIN log : log[i].id < nextTxn
    BY DEF LogSound, Sound
  <2>3. \A c \in Lost : c < nextTxn /\ c < nextTxn'
    <3>1. \A c \in Lost : c \in Nat
      BY DEF TypeOK, Lost, Txn
    <3> QED BY <1>1, <3>1 DEF IdsDistinct
  <2> QED BY <1>0, <1>1, <1>2, <1>5, <2>1, <2>2, <2>3 DEF IdsDistinct
<1> QED BY <1>3, <1>4, <1>7, <1>8, <1>9

LEMMA WriteAppendStep ==
  ASSUME IInv, NEW w \in Writers, NEW P \in SUBSET Partitions, NEW now \in Nat,
         WriteAppend(w, P, now)
  PROVE  IInv'
<1> DEFINE A == AppendFiles(nextTxn, P, now)
<1>1. nextTxn \in Nat
  BY DEF IInv, TypeOK
<1>2. /\ A \in SUBSET File
      /\ \A f, g \in A : f # g => f.rows \cap g.rows = {}
      /\ \A f \in A : \A r \in f.rows : r[2] = f.part
  BY <1>1, AppendFilesSound
<1>3. Begin(w, {}, A)
  BY DEF WriteAppend, AppendFiles
<1> HIDE DEF A
<1>4. Formed(Transaction({}, A))
  <2>1. Transaction({}, A).id = nextTxn /\ Transaction({}, A).out = A
        /\ Transaction({}, A).base = {}
    BY DEF Transaction
  <2>2. A = AppendFiles(nextTxn, P, now)
    BY DEF A
  <2> QED BY <1>2, <2>1, <2>2 DEF Formed
<1> QED BY <1>2, <1>3, <1>4, BeginStep

LEMMA WriteRewriteStep ==
  ASSUME IInv, NEW w \in Writers, NEW p \in Partitions, NEW n \in Count,
         NEW now \in Nat, WriteRewrite(w, p, n, now)
  PROVE  IInv'
<1> DEFINE R == Rewritten(p, n, now)
<1>1. LiveIn(p) \in SUBSET live /\ LiveIn(p) # {}
  BY DEF LiveIn, WriteRewrite
<1>2. /\ R \in SUBSET File
      /\ RowsOf(R) = RowsOf(LiveIn(p))
      /\ \A f, g \in R : f # g => f.rows \cap g.rows = {}
      /\ \A f \in R : \A r \in f.rows : r[2] = f.part
  BY RewrittenSound DEF IInv
<1>3. Begin(w, LiveIn(p), R)
  BY DEF WriteRewrite
<1> HIDE DEF R
<1>4. Formed(Transaction(LiveIn(p), R))
  BY <1>1, <1>2 DEF Formed, Transaction
<1>5. \A r \in RowsOf(R) : Known(r)
  <2>1. RowsOf(LiveIn(p)) \subseteq RowsOf(live)
    BY <1>1 DEF RowsOf
  <2> QED BY <1>2, <2>1, LiveRows
<1> QED BY <1>1, <1>2, <1>3, <1>4, <1>5, BeginStep

\* The end of a transaction that leaves the log alone.
LEMMA EndStep ==
  ASSUME IInv, NEW w \in Writers, End(w), UNCHANGED logVars
  PROVE  IInv'
<1> USE DEF IInv
<1>1. /\ objects' = objects /\ nextTxn' = nextTxn /\ live' = live
      /\ log' = log /\ overwritten' = overwritten
      /\ txn' \in [Writers -> Txn \cup {NoTxn}]
      /\ \A v \in Writers : Writing(v)' => Writing(v) /\ txn'[v] = txn[v]
  BY DEF End, TypeOK, Writing, logVars
<1>2. TypeOK'
  BY <1>1 DEF TypeOK
<1>3. RowsExactlyOnce'
  BY <1>1 DEF RowsExactlyOnce
<1>4. Lost' = Lost /\ \A r : Known(r) <=> Known(r)'
  BY <1>1 DEF Lost, Known
<1>5. LogSound'
  BY <1>1, <1>4 DEF LogSound, Sound
<1>6. PendingSound'
  BY <1>1, <1>4 DEF PendingSound, Sound
<1>7. IdsDistinct'
  BY <1>1, <1>4 DEF IdsDistinct
<1> QED BY <1>2, <1>3, <1>5, <1>6, <1>7

\* An append has the rows of one batch, in some partitions.
LEMMA AppendRows ==
  ASSUME NEW t \in Txn, Formed(t), t.base = {}
  PROVE  \E P \in SUBSET Partitions : RowsOf(t.out) = {t.id} \X P
<1>1. t.id \in Nat
  BY DEF Txn
<1>2. PICK P \in SUBSET Partitions, now \in Nat : t.out = AppendFiles(t.id, P, now)
  BY DEF Formed
<1>3. RowsOf(AppendFiles(t.id, P, now)) = {t.id} \X P
  BY <1>1, AppendFilesSound
<1> QED BY <1>2, <1>3

LEMMA AppendBatch ==
  ASSUME NEW t \in Txn, Formed(t), t.base = {}, NEW r \in RowsOf(t.out)
  PROVE  r[1] = t.id
  BY AppendRows

\* No row of the snapshot is of the batch of a pending append.
LEMMA PendingUnseen ==
  ASSUME IInv, NEW w \in Writers, Writing(w), NEW r \in RowsOf(live)
  PROVE  r[1] # txn[w].id
<1>1. CASE r[1] \in Lost
  BY <1>1 DEF IInv, IdsDistinct
<1>2. CASE \E i \in DOMAIN log : log[i].base = {} /\ r \in RowsOf(log[i].out)
  <2>1. PICK i \in DOMAIN log : log[i].base = {} /\ r \in RowsOf(log[i].out)
    BY <1>2
  <2>2. log[i] \in Txn /\ Formed(log[i])
    BY DEF IInv, TypeOK, LogSound, Sound
  <2>3. r[1] = log[i].id
    BY <2>1, <2>2, AppendBatch
  <2> QED BY <2>3 DEF IInv, IdsDistinct
<1> QED BY <1>1, <1>2, LiveRows DEF Known

\* Without a replaced entry, what CanCommit has checked is still live.
LEMMA BaseIsLive ==
  ASSUME IInv, overwritten = {}, NEW w \in Writers, CanCommit(w)
  PROVE  txn[w].base \subseteq live
<1> DEFINE t == txn[w]
<1>1. /\ t \in Txn /\ t.read \in Nat /\ t.read <= Len(log) /\ ReadFrom(t, log)
      /\ log \in Seq(Txn) /\ Len(log) \in Nat /\ DOMAIN log = 1..Len(log)
      /\ live = Snapshot(log)
  BY LenProperties DEF CanCommit, IInv, TypeOK, PendingSound, Writing, Txn
<1>2. \A j \in (t.read + 1)..Len(log) : log[j].base \cap t.base = {}
  BY <1>1 DEF CanCommit, Checked, Found
<1> HIDE DEF t
<1>3. ASSUME NEW f \in t.base PROVE f \in Snapshot(log)
  <2>1. PICK i \in 1..t.read : f \in log[i].out /\ \A j \in (i + 1)..t.read : f \notin log[j].base
    BY <1>1 DEF ReadFrom
  <2>2. i \in DOMAIN log /\ \A j \in (i + 1)..Len(log) : f \notin log[j].base
    <3> SUFFICES ASSUME NEW j \in (i + 1)..Len(log) PROVE i \in DOMAIN log /\ f \notin log[j].base
      BY <1>1
    <3>1. CASE j <= t.read
      BY <1>1, <2>1, <3>1
    <3>2. CASE j > t.read
      BY <1>1, <1>2, <3>2
    <3> QED BY <1>1, <3>1, <3>2
  <2> QED BY <2>1, <2>2, InSnapshot
<1> QED BY <1>1, <1>3 DEF t

LEMMA AddEntryStep ==
  ASSUME IInv, NEW w \in Writers, AddEntry(w)
  PROVE  IInv'
<1> DEFINE t == txn[w]
<1> USE DEF IInv
<1>1. /\ Writing(w) /\ t \in Txn /\ Sound(t) /\ Formed(t)
      /\ log' = Append(log, t) /\ live' = (live \ t.base) \cup t.out
      /\ overwritten' = overwritten /\ objects' = objects /\ nextTxn' = nextTxn
      /\ txn' = [txn EXCEPT ![w] = NoTxn]
  BY DEF AddEntry, CanCommit, End, TypeOK, Writing, PendingSound, Sound
<1>2. \A v \in Writers : Writing(v)' => v # w /\ Writing(v) /\ txn'[v] = txn[v]
                                        /\ txn[v] \in Txn
  BY <1>1 DEF TypeOK, Writing
<1>u. \A r \in RowsOf(live) : r[1] # t.id
  BY <1>1, PendingUnseen
<1>b. overwritten = {} => t.base \subseteq live
  BY BaseIsLive DEF AddEntry
<1>i. /\ \A i \in DOMAIN log : t.id # log[i].id
      /\ \A v \in Writers : Writing(v) /\ v # w => txn[v].id # t.id
      /\ t.id \notin Lost
  BY <1>1 DEF IdsDistinct
<1> HIDE DEF t
<1>3. /\ log \in Seq(Txn) /\ live = Snapshot(log)
      /\ log' \in Seq(Txn) /\ Len(log) \in Nat /\ Len(log') = Len(log) + 1
      /\ DOMAIN log = 1..Len(log) /\ DOMAIN log' = 1..(Len(log) + 1)
      /\ \A i \in DOMAIN log : log'[i] = log[i] /\ log[i] \in Txn
      /\ log'[Len(log) + 1] = t
  BY <1>1, Appended DEF TypeOK
<1>4. TypeOK'
  <2>1. live' = Snapshot(log')
    BY <1>1, <1>3, SnapshotAppend
  <2>2. live' \subseteq objects
    BY <1>1 DEF TypeOK, Sound
  <2>3. overwritten' \in SUBSET [version : DOMAIN log', entry : Txn]
    BY <1>1, <1>3 DEF TypeOK
  <2>4. txn' \in [Writers -> Txn \cup {NoTxn}]
    BY <1>1 DEF TypeOK
  <2> QED BY <1>1, <1>3, <2>1, <2>2, <2>3, <2>4 DEF TypeOK
<1>5. RowsExactlyOnce'
  <2>1. \A f \in live' : \A r \in f.rows : r[2] = f.part
    BY <1>1 DEF RowsExactlyOnce, Formed
  <2>2. ASSUME overwritten = {}, NEW f \in t.out, NEW g \in live \ t.base
        PROVE  f.rows \cap g.rows = {}
    <3>1. CASE t.base = {}
      <4>1. \A r \in f.rows : r[1] = t.id
        BY <1>1, <3>1, AppendBatch DEF RowsOf
      <4>2. \A r \in g.rows : r[1] # t.id
        BY <1>u DEF RowsOf
      <4> QED BY <4>1, <4>2
    <3>2. CASE t.base # {}
      <4>1. \A r \in f.rows : \E h \in t.base : r \in h.rows
        BY <1>1, <3>2 DEF Formed, RowsOf
      <4>2. \A h \in t.base : h.rows \cap g.rows = {}
        BY <1>b, <2>2 DEF RowsExactlyOnce
      <4> QED BY <4>1, <4>2
    <3> QED BY <3>1, <3>2
  <2>3. overwritten = {} => \A f, g \in live' : f # g => f.rows \cap g.rows = {}
    <3>1. \A f, g \in t.out : f # g => f.rows \cap g.rows = {}
      BY <1>1 DEF Formed
    <3> QED BY <1>1, <2>2, <3>1 DEF RowsExactlyOnce
  <2> QED BY <1>1, <2>1, <2>3 DEF RowsExactlyOnce
<1>6. Lost' = Lost
  BY <1>1 DEF Lost
<1>7. Grows
  <2>1. \A r : Known(r) => Known(r)'
    BY <1>3, <1>6 DEF Known
  <2> QED BY <1>1, <2>1 DEF Grows, TypeOK
<1>8. LogSound'
  <2>1. ASSUME NEW i \in DOMAIN log' PROVE log'[i] \in Txn /\ Sound(log'[i])
    <3>1. CASE i \in DOMAIN log
      BY <1>3, <3>1 DEF LogSound
    <3>2. CASE i = Len(log) + 1
      BY <1>1, <1>3, <3>2
    <3> QED BY <1>3, <3>1, <3>2
  <2> QED BY <1>7, <2>1, SoundStays DEF LogSound, Sound
<1>9. PendingSound'
  <2> SUFFICES ASSUME NEW v \in Writers, Writing(v)'
               PROVE  /\ Sound(txn[v])'
                      /\ txn'[v].read <= Len(log')
                      /\ overwritten' = {} => ReadFrom(txn'[v], log')
    BY DEF PendingSound
  <2>1. /\ txn'[v] = txn[v] /\ txn[v] \in Txn /\ Sound(txn[v])
        /\ txn[v].read \in Nat /\ txn[v].read <= Len(log)
        /\ overwritten = {} => ReadFrom(txn[v], log)
    BY <1>2 DEF PendingSound, Txn
  <2>2. ReadFrom(txn[v], log) => ReadFrom(txn[v], log')
    BY <1>3, <2>1 DEF ReadFrom
  <2>3. Sound(txn[v])'
    BY <1>7, <2>1, SoundStays DEF Sound
  <2> QED BY <1>1, <1>3, <2>1, <2>2, <2>3
<1>10. IdsDistinct'
  <2>1. \A i, j \in DOMAIN log' : log'[i].id = log'[j].id => i = j
    BY <1>3, <1>i DEF IdsDistinct
  <2>2. \A v \in Writers, i \in DOMAIN log' : Writing(v)' => txn'[v].id # log'[i].id
    BY <1>2, <1>3, <1>i DEF IdsDistinct
  <2>3. \A u, v \in Writers :
           Writing(u)' /\ Writing(v)' /\ txn'[u].id = txn'[v].id => u = v
    BY <1>2 DEF IdsDistinct
  <2>4. \A c \in Lost' : /\ c < nextTxn'
                         /\ \A i \in DOMAIN log' : log'[i].id # c
                         /\ \A v \in Writers : Writing(v)' => txn'[v].id # c
    BY <1>1, <1>2, <1>3, <1>6, <1>i DEF IdsDistinct
  <2> QED BY <2>1, <2>2, <2>3, <2>4 DEF IdsDistinct
<1> QED BY <1>4, <1>5, <1>8, <1>9, <1>10

\* An overwrite replaces one entry, whose transaction is lost.
LEMMA EntryLost ==
  ASSUME IInv, NEW w \in Writers, OverwriteEntry(w)
  PROVE  \E k \in DOMAIN log :
            /\ log' = [log EXCEPT ![k] = txn[w]]
            /\ overwritten' = overwritten \cup {[version |-> k, entry |-> log[k]]}
            /\ Lost' = Lost \cup {log[k].id}
<1>1. \A k \in (txn[w].read + 1)..Len(log) : k \in DOMAIN log
  <2>1. txn[w].read \in Nat /\ DOMAIN log = 1..Len(log) /\ Len(log) \in Nat
    BY LenProperties DEF OverwriteEntry, IInv, TypeOK, Writing, Txn
  <2> QED BY <2>1
<1>2. PICK k \in (txn[w].read + 1)..Len(log) :
         /\ log' = [log EXCEPT ![k] = txn[w]]
         /\ overwritten' = overwritten \cup {[version |-> k, entry |-> log[k]]}
  BY DEF OverwriteEntry
<1> DEFINE o == [version |-> k, entry |-> log[k]]
<1>3. o.entry.id = log[k].id
  OBVIOUS
<1>4. overwritten' = overwritten \cup {o}
  BY <1>2
<1> HIDE DEF o
<1>5. Lost' = Lost \cup {log[k].id}
  BY <1>3, <1>4 DEF Lost
<1> QED BY <1>1, <1>2, <1>5

LEMMA OverwriteEntryStep ==
  ASSUME IInv, NEW w \in Writers, OverwriteEntry(w)
  PROVE  IInv'
<1> DEFINE t == txn[w]
<1> USE DEF IInv
<1>0. /\ Writing(w) /\ t \in Txn /\ Sound(t) /\ Formed(t) /\ t.read \in Nat
      /\ log \in Seq(Txn) /\ Len(log) \in Nat /\ DOMAIN log = 1..Len(log)
  BY LenProperties DEF OverwriteEntry, TypeOK, Writing, PendingSound, Sound, Txn
<1>1. PICK k \in DOMAIN log :
         /\ log' = [log EXCEPT ![k] = t]
         /\ overwritten' = overwritten \cup {[version |-> k, entry |-> log[k]]}
         /\ Lost' = Lost \cup {log[k].id}
  BY EntryLost
<1>2. /\ live' = Snapshot(log') /\ objects' = objects /\ nextTxn' = nextTxn
      /\ txn' = [txn EXCEPT ![w] = NoTxn]
      /\ \A v \in Writers : Writing(v)' => v # w /\ Writing(v) /\ txn'[v] = txn[v]
                                        /\ txn[v] \in Txn
  BY DEF OverwriteEntry, End, TypeOK, Writing
<1>i. /\ \A i \in DOMAIN log : t.id # log[i].id
      /\ \A v \in Writers : Writing(v) /\ v # w => txn[v].id # t.id
      /\ t.id \notin Lost
  BY <1>0 DEF IdsDistinct
<1> HIDE DEF t
<1>3. /\ log' \in Seq(Txn) /\ Len(log') = Len(log) /\ DOMAIN log' = DOMAIN log
      /\ log'[k] = t
      /\ \A i \in DOMAIN log : i # k => log'[i] = log[i]
      /\ \A i \in DOMAIN log : log[i] \in Txn
  BY <1>0, <1>1, ExceptSeq
<1>4. Lost' = Lost \cup {log[k].id}
  BY <1>1
<1>5. Grows
  <2>1. ASSUME NEW r, Known(r) PROVE Known(r)'
    <3>1. CASE r[1] \in Lost
      BY <1>4, <3>1 DEF Known
    <3>2. CASE \E i \in DOMAIN log : log[i].base = {} /\ r \in RowsOf(log[i].out)
      <4>1. PICK i \in DOMAIN log : log[i].base = {} /\ r \in RowsOf(log[i].out)
        BY <3>2
      <4>2. CASE i = k
        <5>1. log[i] \in Txn /\ Formed(log[i])
          BY <1>3 DEF LogSound, Sound
        <5>2. r[1] = log[i].id
          BY <4>1, <5>1, AppendBatch
        <5> QED BY <1>4, <4>2, <5>2 DEF Known
      <4>3. CASE i # k
        BY <1>3, <4>1, <4>3 DEF Known
      <4> QED BY <4>2, <4>3
    <3> QED BY <2>1, <3>1, <3>2 DEF Known
  <2> QED BY <1>2, <2>1 DEF Grows, TypeOK
<1>6. LogSound'
  <2>1. ASSUME NEW i \in DOMAIN log' PROVE log'[i] \in Txn /\ Sound(log'[i])
    <3>1. CASE i = k
      BY <1>0, <1>3, <3>1
    <3>2. CASE i # k
      BY <1>3, <3>2 DEF LogSound
    <3> QED BY <3>1, <3>2
  <2> QED BY <1>5, <2>1, SoundStays DEF LogSound, Sound
<1>7. TypeOK'
  <2>1. live' \subseteq objects
    <3>1. \A i \in DOMAIN log' : log'[i].out \subseteq objects
      BY <1>2, <1>6 DEF LogSound, Sound
    <3> QED BY <1>2, <3>1, InSnapshot
  <2>2. overwritten' \in SUBSET [version : DOMAIN log', entry : Txn]
    BY <1>1, <1>3 DEF TypeOK
  <2>3. txn' \in [Writers -> Txn \cup {NoTxn}]
    BY <1>2 DEF TypeOK
  <2> QED BY <1>2, <1>3, <2>1, <2>2, <2>3 DEF TypeOK
<1>8. RowsExactlyOnce'
  <2>1. overwritten' # {}
    BY <1>1
  <2>2. \A i \in DOMAIN log' : \A f \in log'[i].out : \A r \in f.rows : r[2] = f.part
    BY <1>6 DEF LogSound, Sound, Formed
  <2>3. \A f \in live' : \A r \in f.rows : r[2] = f.part
    BY <1>2, <2>2, InSnapshot
  <2> QED BY <2>1, <2>3 DEF RowsExactlyOnce
<1>9. PendingSound'
  <2> SUFFICES ASSUME NEW v \in Writers, Writing(v)'
               PROVE  /\ Sound(txn[v])'
                      /\ txn'[v].read <= Len(log')
                      /\ overwritten' = {} => ReadFrom(txn'[v], log')
    BY DEF PendingSound
  <2>1. /\ txn'[v] = txn[v] /\ txn[v] \in Txn /\ Sound(txn[v])
        /\ txn[v].read <= Len(log)
    BY <1>2 DEF PendingSound
  <2>2. Sound(txn[v])'
    BY <1>5, <2>1, SoundStays DEF Sound
  <2>3. overwritten' # {}
    BY <1>1
  <2> QED BY <1>3, <2>1, <2>2, <2>3
<1>10. IdsDistinct'
  <2>1. \A i, j \in DOMAIN log' : log'[i].id = log'[j].id => i = j
    BY <1>3, <1>i DEF IdsDistinct
  <2>2. \A v \in Writers, i \in DOMAIN log' : Writing(v)' => txn'[v].id # log'[i].id
    BY <1>2, <1>3, <1>i DEF IdsDistinct
  <2>3. \A u, v \in Writers :
           Writing(u)' /\ Writing(v)' /\ txn'[u].id = txn'[v].id => u = v
    BY <1>2 DEF IdsDistinct
  <2>4. \A c \in Lost : /\ c < nextTxn'
                        /\ \A i \in DOMAIN log' : log'[i].id # c
                        /\ \A v \in Writers : Writing(v)' => txn'[v].id # c
    BY <1>2, <1>3, <1>i DEF IdsDistinct
  <2>5. /\ log[k].id < nextTxn'
        /\ \A i \in DOMAIN log' : log'[i].id # log[k].id
        /\ \A v \in Writers : Writing(v)' => txn'[v].id # log[k].id
    <3>1. log[k].id < nextTxn'
      BY <1>2 DEF LogSound, Sound
    <3> QED BY <1>2, <1>3, <1>i, <3>1 DEF IdsDistinct
  <2>6. \A c \in Lost' : /\ c < nextTxn'
                         /\ \A i \in DOMAIN log' : log'[i].id # c
                         /\ \A v \in Writers : Writing(v)' => txn'[v].id # c
    BY <1>4, <2>4, <2>5
  <2> QED BY <2>1, <2>2, <2>3, <2>6 DEF IdsDistinct
<1> QED BY <1>6, <1>7, <1>8, <1>9, <1>10

LEMMA CommitStep ==
  ASSUME IInv, NEW w \in Writers, Commit(w)
  PROVE  IInv'
  BY AddEntryStep, OverwriteEntryStep DEF Commit

(***************************************************************************)
(* The theorems                                                            *)
(***************************************************************************)

LEMMA InvStep == IInv /\ [Next]_tableVars => IInv'
<1> SUFFICES ASSUME IInv, [Next]_tableVars PROVE IInv'
  OBVIOUS
<1>1. ASSUME NEW w \in Writers, NEW P \in SUBSET Partitions, NEW now \in Times,
             WriteAppend(w, P, now)
      PROVE  IInv'
  BY <1>1, WriteAppendStep, TimesAssumption
<1>2. ASSUME NEW w \in Writers, NEW p \in Partitions, NEW n \in 1..MaxFiles,
             NEW now \in Times, WriteRewrite(w, p, n, now)
      PROVE  IInv'
  BY <1>2, WriteRewriteStep, BoundsAssumption, TimesAssumption DEF Count
<1>3. ASSUME NEW w \in Writers, Commit(w) PROVE IInv'
  BY <1>3, CommitStep
<1>4. ASSUME NEW w \in Writers, Conflict(w) \/ Abandon(w) PROVE IInv'
  BY <1>4, EndStep DEF Conflict, Abandon
<1>5. CASE UNCHANGED tableVars
  <2>1. /\ objects' = objects /\ live' = live /\ txn' = txn /\ nextTxn' = nextTxn
        /\ log' = log /\ overwritten' = overwritten
        /\ \A w \in Writers : Writing(w)' = Writing(w)
    BY <1>5 DEF tableVars, Writing
  <2>2. Lost' = Lost /\ \A r : Known(r) <=> Known(r)'
    BY <2>1 DEF Lost, Known
  <2>3. TypeOK' /\ RowsExactlyOnce'
    BY <2>1 DEF IInv, TypeOK, RowsExactlyOnce
  <2>4. LogSound' /\ PendingSound' /\ IdsDistinct'
    BY <2>1, <2>2 DEF IInv, LogSound, PendingSound, IdsDistinct, Sound
  <2> QED BY <2>3, <2>4 DEF IInv
<1> QED BY <1>1, <1>2, <1>3, <1>4, <1>5 DEF Next

LEMMA InvHolds == Spec => []IInv
  BY InvInit, InvStep, PTL DEF Spec

\* The table's state keeps its form: every file of the snapshot is in the bucket,
\* and the snapshot is what the log replays to.
THEOREM TypeCorrect == Spec => []TypeOK
<1>1. IInv => TypeOK
  BY DEF IInv
<1> QED BY <1>1, InvHolds, PTL

\* However appends and rewrites of any number of writers interleave, conflict
\* and fail, a reader finds every row in its partition and, as long as no driver
\* has replaced the log entry of another one, no row twice.
THEOREM RowsExactlyOnceHolds == Spec => []RowsExactlyOnce
<1>1. IInv => RowsExactlyOnce
  BY DEF IInv
<1> QED BY <1>1, InvHolds, PTL

(***************************************************************************)
(* Names of files                                                          *)
(***************************************************************************)

\* The name of a file says which transaction wrote it, and no two files of the
\* bucket have the same name.
NamesUnique ==
    \A f \in objects :
        /\ f.txn < nextTxn
        /\ \A g \in objects :
              f.txn = g.txn /\ f.idx = g.idx /\ f.part = g.part => f = g

LEMMA NamesBegin ==
  ASSUME TypeOK, NamesUnique, NEW w \in Writers, NEW base, NEW out,
         Begin(w, base, out),
         \A f, g \in out : /\ f.txn = nextTxn
                           /\ f.idx = g.idx /\ f.part = g.part => f = g
  PROVE  NamesUnique'
<1>1. objects' = objects \cup out /\ nextTxn' = nextTxn + 1 /\ nextTxn \in Nat
  BY DEF Begin, TypeOK
<1>2. \A f \in objects : f.txn \in Nat /\ f.txn < nextTxn
  BY DEF TypeOK, File, NamesUnique
<1> QED BY <1>1, <1>2 DEF NamesUnique

LEMMA NamesStep == TypeOK /\ NamesUnique /\ [Next]_tableVars => NamesUnique'
<1> SUFFICES ASSUME TypeOK, NamesUnique, [Next]_tableVars PROVE NamesUnique'
  OBVIOUS
<1>1. ASSUME NEW w \in Writers, NEW P \in SUBSET Partitions, NEW now \in Times,
             WriteAppend(w, P, now)
      PROVE  NamesUnique'
  <2>1. \A f, g \in {AppendFile(nextTxn, p, now) : p \in P} :
           /\ f.txn = nextTxn
           /\ f.idx = g.idx /\ f.part = g.part => f = g
    BY DEF AppendFile
  <2> QED BY <1>1, <2>1, NamesBegin DEF WriteAppend
<1>2. ASSUME NEW w \in Writers, NEW p \in Partitions, NEW n \in 1..MaxFiles,
             NEW now \in Times, WriteRewrite(w, p, n, now)
      PROVE  NamesUnique'
  <2>1. \A f, g \in Rewritten(p, n, now) :
           /\ f.txn = nextTxn
           /\ f.idx = g.idx /\ f.part = g.part => f = g
    <3>1. ASSUME NEW f \in Rewritten(p, n, now)
          PROVE  f = RewrittenFile(p, n, f.idx, now) /\ f.txn = nextTxn
      <4>1. PICK i \in 0..(n - 1) : f = RewrittenFile(p, n, i, now)
        BY DEF Rewritten
      <4>2. f.idx = i /\ f.txn = nextTxn
        BY <4>1 DEF RewrittenFile
      <4> QED BY <4>1, <4>2
    <3>2. \A f, g \in Rewritten(p, n, now) : f.idx = g.idx => f = g
      BY <3>1
    <3> QED BY <3>1, <3>2
  <2> QED BY <1>2, <2>1, NamesBegin DEF WriteRewrite
<1>3. ASSUME NEW w \in Writers, Commit(w) \/ Conflict(w) \/ Abandon(w)
      PROVE  NamesUnique'
  BY <1>3 DEF Commit, AddEntry, OverwriteEntry, Conflict, Abandon, End, NamesUnique
<1>4. CASE UNCHANGED tableVars
  BY <1>4 DEF tableVars, NamesUnique
<1> QED BY <1>1, <1>2, <1>3, <1>4 DEF Next

\* A file of the bucket is never replaced by another one of the same name: what
\* a listing says of a name stays true of it.
THEOREM NamesUniqueHolds == Spec => []NamesUnique
<1>1. Init => NamesUnique
  BY DEF Init, NamesUnique
<1> QED BY <1>1, NamesStep, TypeCorrect, PTL DEF Spec

(***************************************************************************)
(* What readers see                                                        *)
(***************************************************************************)

Content == {r \in RowsOf(live) : r[1] \notin Lost}

\* A reader sees exactly the rows of the appends in the log, and rows of lost
\* batches that a rewrite has kept.
ContentIsAppended ==
    \A r : r \in Content <=>
        \E i \in DOMAIN log : log[i].base = {} /\ r \in RowsOf(log[i].out)

LEMMA ContentRows == IInv => ContentIsAppended
<1> SUFFICES ASSUME IInv, NEW r
             PROVE  r \in Content <=>
                    \E i \in DOMAIN log : log[i].base = {} /\ r \in RowsOf(log[i].out)
  BY DEF ContentIsAppended
<1>1. r \in Content => \E i \in DOMAIN log : log[i].base = {} /\ r \in RowsOf(log[i].out)
  BY LiveRows DEF Content, Known
<1>2. ASSUME NEW i \in DOMAIN log, log[i].base = {}, r \in RowsOf(log[i].out)
      PROVE  r \in Content
  <2>1. log[i] \in Txn /\ Formed(log[i])
    BY DEF IInv, TypeOK, LogSound, Sound
  <2>2. r[1] = log[i].id
    BY <1>2, <2>1, AppendBatch
  <2> QED BY <1>2, <2>2, LiveRows DEF Content, IInv, IdsDistinct
<1> QED BY <1>1, <1>2

\* What a commit adds to the content: one new batch, or nothing.
LEMMA CommitBrings ==
  ASSUME IInv, NEW w \in Writers, Writing(w)
  PROVE  /\ txn[w].id \in 0..MaxTxns
         /\ txn[w].id \notin Lost
         /\ \A r \in Content : r[1] # txn[w].id
         /\ \E P \in SUBSET Partitions :
               \A r : (txn[w].base = {} /\ r \in RowsOf(txn[w].out)) <=> r \in {txn[w].id} \X P
<1>1. /\ txn[w] \in Txn /\ txn[w].id \in Nat /\ txn[w].id < nextTxn
      /\ nextTxn \in 0..MaxTxns /\ Formed(txn[w])
  BY DEF IInv, TypeOK, PendingSound, Sound, Writing, Txn
<1>2. txn[w].id \in 0..MaxTxns
  BY <1>1, BoundsAssumption
<1>3. txn[w].id \notin Lost
  BY DEF IInv, IdsDistinct
<1>4. \A r \in Content : r[1] # txn[w].id
  BY PendingUnseen DEF Content
<1>5. CASE txn[w].base = {}
  BY <1>1, <1>2, <1>3, <1>4, <1>5, AppendRows
<1>6. CASE txn[w].base # {}
  <2>1. \A r : (txn[w].base = {} /\ r \in RowsOf(txn[w].out)) <=> r \in {txn[w].id} \X {}
    BY <1>6
  <2> QED BY <1>2, <1>3, <1>4, <2>1
<1> QED BY <1>5, <1>6

LEMMA AddEntryAppends ==
  ASSUME IInv, IInv', NEW w \in Writers, AddEntry(w)
  PROVE  Events!Next
<1> DEFINE t == txn[w]
<1>1. /\ Writing(w) /\ log' = Append(log, t) /\ overwritten' = overwritten
      /\ t \in Txn /\ log \in Seq(Txn)
  BY DEF AddEntry, CanCommit, IInv, TypeOK, Writing
<1>2. PICK P \in SUBSET Partitions :
         \A r : (t.base = {} /\ r \in RowsOf(t.out)) <=> r \in {t.id} \X P
  BY <1>1, CommitBrings
<1>3. /\ t.id \in 0..MaxTxns /\ t.id \notin Lost /\ \A r \in Content : r[1] # t.id
  BY <1>1, CommitBrings
<1> HIDE DEF t
<1>4. /\ DOMAIN log = 1..Len(log) /\ DOMAIN log' = 1..(Len(log) + 1) /\ Len(log) \in Nat
      /\ \A i \in DOMAIN log : log'[i] = log[i]
      /\ log'[Len(log) + 1] = t
  BY <1>1, Appended
<1>5. ContentIsAppended /\ ContentIsAppended'
  BY ContentRows, PTL
<1>6. Content' = Content \cup ({t.id} \X P)
  <2>1. \A r : r \in Content' <=> r \in Content \/ (t.base = {} /\ r \in RowsOf(t.out))
    <3>1. \A r : (\E i \in DOMAIN log' : log'[i].base = {} /\ r \in RowsOf(log'[i].out))
             <=> \/ \E i \in DOMAIN log : log[i].base = {} /\ r \in RowsOf(log[i].out)
                 \/ t.base = {} /\ r \in RowsOf(t.out)
      <4>1. \A i : i \in DOMAIN log' <=> i \in DOMAIN log \/ i = Len(log) + 1
        BY <1>4
      <4> QED BY <1>4, <4>1
    <3> QED BY <1>5, <3>1 DEF ContentIsAppended
  <2> QED BY <1>2, <2>1
<1>7. Lost' = Lost
  BY <1>1 DEF Lost
<1>8. Events!Append(t.id, P)
  BY <1>3, <1>6, <1>7 DEF Events!Append, Events!New, Content
<1> QED BY <1>3, <1>8 DEF Events!Next

LEMMA OverwriteEntryReplaces ==
  ASSUME IInv, IInv', NEW w \in Writers, OverwriteEntry(w)
  PROVE  Events!Next
<1> DEFINE t == txn[w]
<1>1. Writing(w) /\ log \in Seq(Txn) /\ t \in Txn
      /\ t.read \in Nat /\ DOMAIN log = 1..Len(log) /\ Len(log) \in Nat
  BY LenProperties DEF OverwriteEntry, IInv, TypeOK, Writing, Txn
<1>2. PICK k \in DOMAIN log :
         /\ log' = [log EXCEPT ![k] = t]
         /\ Lost' = Lost \cup {log[k].id}
  BY EntryLost
<1>3. PICK P \in SUBSET Partitions :
         \A r : (t.base = {} /\ r \in RowsOf(t.out)) <=> r \in {t.id} \X P
  BY <1>1, CommitBrings
<1>4. /\ t.id \in 0..MaxTxns /\ t.id \notin Lost /\ \A r \in Content : r[1] # t.id
      /\ \A i \in DOMAIN log : t.id # log[i].id
  BY <1>1, CommitBrings DEF IInv, IdsDistinct
<1> HIDE DEF t
<1> DEFINE c == log[k].id
<1>5. /\ DOMAIN log' = DOMAIN log /\ log'[k] = t
      /\ \A i \in DOMAIN log : i # k => log'[i] = log[i]
      /\ \A i \in DOMAIN log : log[i] \in Txn
  BY <1>1, <1>2, ExceptSeq
<1>6. c \in 0..MaxTxns /\ c \notin Lost /\ c # t.id
      /\ \A i \in DOMAIN log : i # k => log[i].id # c
  BY <1>4, <1>5, BoundsAssumption DEF IInv, IdsDistinct, LogSound, Sound, TypeOK, Txn
<1>7. \A i \in DOMAIN log : \A r :
         log[i].base = {} /\ r \in RowsOf(log[i].out) => r[1] = log[i].id
  BY <1>5, AppendBatch DEF IInv, LogSound, Sound
<1>8. ContentIsAppended /\ ContentIsAppended'
  BY ContentRows, PTL
<1>9. Lost' = Lost \cup {c}
  BY <1>2
<1> HIDE DEF c
<1>10. Content' = {r \in Content : r[1] # c} \cup ({t.id} \X P)
  <2>1. \A r : r \in Content /\ r[1] # c <=>
          \E i \in DOMAIN log : i # k /\ log[i].base = {} /\ r \in RowsOf(log[i].out)
    BY <1>6, <1>7, <1>8 DEF c, ContentIsAppended
  <2>2. \A r : r \in Content' <=>
          \/ \E i \in DOMAIN log : i # k /\ log[i].base = {} /\ r \in RowsOf(log[i].out)
          \/ t.base = {} /\ r \in RowsOf(t.out)
    BY <1>5, <1>8 DEF ContentIsAppended
  <2> QED BY <1>3, <2>1, <2>2
<1>11. PICK d \in 0..MaxTxns : d = c
  BY <1>6
<1>12. Events!Replace(t.id, P, d)
  BY <1>4, <1>6, <1>9, <1>10, <1>11 DEF Events!Replace, Events!New, Content
<1> QED BY <1>4, <1>12 DEF Events!Next

\* To a reader the table gains whole batches and loses none but those whose own
\* log entries were replaced: compaction, conflicts and failures are stuttering
\* steps of EventTable.
THEOREM TableImplementsEventTable == Spec => ImplementsEventTable
<1>1. Init => Events!Init
  <2>1. Init => live = {} /\ Lost = {}
    BY DEF Init, Lost
  <2> QED BY <2>1 DEF Events!Init, RowsOf
<1>2. IInv /\ IInv' /\ [Next]_tableVars => [Events!Next]_(Events!eventVars)
  <2> SUFFICES ASSUME IInv, IInv', [Next]_tableVars
               PROVE  Events!Next \/ UNCHANGED Events!eventVars
    OBVIOUS
  <2>1. CASE UNCHANGED logVars
    BY <2>1 DEF logVars, Events!eventVars, Lost, RowsOf
  <2>2. ASSUME NEW w \in Writers, Commit(w) PROVE Events!Next
    BY <2>2, AddEntryAppends, OverwriteEntryReplaces DEF Commit
  <2>3. UNCHANGED logVars \/ \E w \in Writers : Commit(w)
    BY DEF Next, WriteAppend, WriteRewrite, Begin, Conflict, Abandon, tableVars, logVars
  <2> QED BY <2>1, <2>2, <2>3
<1> QED BY <1>1, <1>2, InvHolds, PTL DEF Spec, ImplementsEventTable, Events!Spec
=============================================================================
