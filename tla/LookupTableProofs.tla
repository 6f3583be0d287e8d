--------------------------- MODULE LookupTableProofs ---------------------------
(***************************************************************************)
(* Proofs about the hash table, for every set of threads, keys and values, *)
(* every number of buckets and every hash function: its types, that only a *)
(* removal can race, that no bucket has a key twice, and that up to the    *)
(* first race the table implements the abstract map.                       *)
(***************************************************************************)
EXTENDS LookupTable, TLAPS, SequenceTheorems

Entries == [key : Keys, value : Values]

\* The operations that work on the bucket of one key.
OnKey == {"value_for", "add_or_update", "remove"}

\* What a thread carries at each label.
ArgsOK == \A t \in Threads :
    /\ call[t] = "none" <=> pc[t] = "idle"
    /\ pc[t] = "lock_shared" => call[t] = "value_for"
    /\ pc[t] = "lock" => call[t] = "add_or_update"
    /\ pc[t] \in {"lock_all", "copy", "unlock_all"} <=> call[t] = "get_map"
    /\ call[t] \in OnKey => key[t] \in Keys
    /\ call[t] = "add_or_update" => val[t] \in Values

\* The locks a thread has at each label.
LocksOK ==
    /\ \A b \in Buckets : exclusive[b] # NoThread => shared[b] = {}
    /\ \A t \in Threads :
          /\ pc[t] \in {"find", "use"} /\ call[t] = "value_for" => t \in shared[Mine(t)]
          /\ pc[t] \in {"find", "use"} /\ call[t] = "add_or_update" => exclusive[Mine(t)] = t
          /\ \A b \in Buckets : b < locked[t] => exclusive[b] = t
          /\ call[t] # "get_map" => locked[t] = 0
          /\ pc[t] = "copy" => locked[t] = NumBuckets
          /\ pc[t] = "lock_all" => locked[t] < NumBuckets
          /\ pc[t] = "unlock_all" => locked[t] > 0

\* What a search found is still there when it is used.
FoundOK == \A t \in Threads : pc[t] = "use" =>
    \/ found[t] = 0 /\ At(data[Mine(t)], key[t]) = {}
    \/ found[t] \in At(data[Mine(t)], key[t])

\* The inductive invariant.
IInv == TypeOK /\ ArgsOK /\ LocksOK /\ FoundOK /\ KeysUnique
-------------------------------------------------------------------------------
(* Buckets and their contents. *)

\* Every key has a bucket.
LEMMA BucketExists == \A k \in Keys : Bucket(k) \in Buckets
  BY LookupTableAssumption DEF Bucket, Buckets

\* No key is twice in bucket contents s.
Unique(s) == \A i, j \in DOMAIN s : s[i].key = s[j].key => i = j

\* The value bucket contents s store for k.
Value(s, k) == IF At(s, k) = {} THEN NoValue
               ELSE s[CHOOSE i \in At(s, k) : \A j \in At(s, k) : i <= j].value

\* Contents r and s differ only in that r stores v for key k, NoValue for none.
Updated(r, s, k, v) == /\ Value(r, k) = v
                       /\ \A l \in Keys \ {k} : Value(r, l) = Value(s, l)

\* The first entry with a key is the only one.
LEMMA ValueAt ==
  ASSUME NEW s \in Seq(Entries), Unique(s), NEW k \in Keys, NEW i \in At(s, k)
  PROVE  Value(s, k) = s[i].value
<1>1. Len(s) \in Nat /\ DOMAIN s = 1 .. Len(s)
  BY LenProperties
<1>2. At(s, k) = {i} /\ i <= i
  BY <1>1 DEF At, Unique
<1>3. (CHOOSE n \in At(s, k) : \A j \in At(s, k) : n <= j) = i
  BY <1>2
<1> QED
  BY <1>2, <1>3 DEF Value

\* Contents with the same entries for a key store the same value.
LEMMA ValueSame ==
  ASSUME NEW r \in Seq(Entries), Unique(r), NEW s \in Seq(Entries), Unique(s), NEW k \in Keys,
         At(r, k) = {} <=> At(s, k) = {},
         \A i \in At(r, k) : \E j \in At(s, k) : r[i].value = s[j].value
  PROVE  Value(r, k) = Value(s, k)
<1>1. CASE At(r, k) = {}
  BY <1>1 DEF Value
<1>2. CASE At(r, k) # {}
  <2>1. PICK i \in At(r, k), j \in At(s, k) : r[i].value = s[j].value
    BY <1>2
  <2> QED
    BY <2>1, ValueAt
<1> QED
  BY <1>1, <1>2

\* An entry with a new key may be appended.
LEMMA AppendUnique ==
  ASSUME NEW s \in Seq(Entries), Unique(s), NEW e \in Entries, At(s, e.key) = {}
  PROVE  /\ Append(s, e) \in Seq(Entries) /\ Unique(Append(s, e))
         /\ Updated(Append(s, e), s, e.key, e.value)
<1>1. /\ Len(s) \in Nat /\ DOMAIN s = 1 .. Len(s)
      /\ Append(s, e) \in Seq(Entries)
  BY LenProperties
<1>2. /\ DOMAIN Append(s, e) = 1 .. Len(s) + 1
      /\ \A i \in 1 .. Len(s) : Append(s, e)[i] = s[i]
      /\ Append(s, e)[Len(s) + 1] = e
  BY <1>1
<1>3. \A i \in 1 .. Len(s) : s[i].key # e.key
  BY <1>1 DEF At
<1>4. Unique(Append(s, e))
  BY <1>1, <1>2, <1>3 DEF Unique
<1>5. Value(Append(s, e), e.key) = e.value
  <2>1. Len(s) + 1 \in At(Append(s, e), e.key) /\ e.key \in Keys
    BY <1>1, <1>2 DEF At, Entries
  <2> QED
    BY <2>1, <1>1, <1>2, <1>4, ValueAt
<1>6. ASSUME NEW l \in Keys \ {e.key} PROVE Value(Append(s, e), l) = Value(s, l)
  <2>1. At(Append(s, e), l) = At(s, l)
    BY <1>1, <1>2 DEF At
  <2>2. \A i \in At(s, l) : Append(s, e)[i] = s[i]
    BY <1>1, <1>2 DEF At
  <2>3. \A i \in At(Append(s, e), l) : \E j \in At(s, l) : Append(s, e)[i].value = s[j].value
    BY <2>1, <2>2
  <2> QED
    BY <2>1, <2>3, <1>1, <1>4, ValueSame
<1> QED
  BY <1>1, <1>4, <1>5, <1>6 DEF Updated

\* The value of an entry may be replaced.
LEMMA SetUnique ==
  ASSUME NEW s \in Seq(Entries), Unique(s), NEW i \in DOMAIN s, NEW v \in Values
  PROVE  LET r == [s EXCEPT ![i].value = v]
         IN  r \in Seq(Entries) /\ Unique(r) /\ Updated(r, s, s[i].key, v)
<1> DEFINE e == [s[i] EXCEPT !.value = v]
           r == [s EXCEPT ![i] = e]
<1>1. Len(s) \in Nat /\ DOMAIN s = 1 .. Len(s) /\ i \in 1 .. Len(s)
  BY LenProperties
<1>2. s[i] \in Entries
  BY <1>1, ElementOfSeq
<1>3. e \in Entries /\ e.key = s[i].key
  BY <1>2 DEF Entries
<1>4. r \in Seq(Entries) /\ Len(r) = Len(s)
      /\ \A j \in 1 .. Len(s) : r[j] = IF j = i THEN e ELSE s[j]
  BY <1>1, <1>3, ExceptSeq
<1>5. DOMAIN r = 1 .. Len(s)
  BY <1>4, LenProperties
<1>6. Unique(r)
  <2> SUFFICES ASSUME NEW j \in DOMAIN r, NEW k \in DOMAIN r, r[j].key = r[k].key
               PROVE  j = k
    BY DEF Unique
  <2>1. r[j].key = s[j].key /\ r[k].key = s[k].key
    BY <1>3, <1>4, <1>5
  <2> QED
    BY <2>1, <1>1, <1>5 DEF Unique
<1>7. Value(r, s[i].key) = v
  <2>1. i \in At(r, s[i].key) /\ r[i].value = v /\ s[i].key \in Keys
    BY <1>1, <1>2, <1>3, <1>4, <1>5 DEF At, Entries
  <2> QED
    BY <2>1, <1>4, <1>6, ValueAt
<1>8. ASSUME NEW l \in Keys \ {s[i].key} PROVE Value(r, l) = Value(s, l)
  <2>1. At(r, l) = At(s, l) /\ i \notin At(s, l) /\ At(s, l) \subseteq 1 .. Len(s)
    BY <1>1, <1>3, <1>4, <1>5 DEF At
  <2>2. \A j \in At(s, l) : r[j] = s[j]
    BY <2>1, <1>4
  <2>3. \A j \in At(r, l) : \E k \in At(s, l) : r[j].value = s[k].value
    BY <2>1, <2>2
  <2> HIDE DEF r
  <2> QED
    BY <2>1, <2>3, <1>4, <1>6, ValueSame
<1> QED
  BY <1>4, <1>6, <1>7, <1>8 DEF Updated

\* An entry may be removed.
LEMMA RemoveUnique ==
  ASSUME NEW s \in Seq(Entries), Unique(s), NEW i \in DOMAIN s
  PROVE  LET r == Lists!RemoveAt(s, i)
         IN  r \in Seq(Entries) /\ Unique(r) /\ Updated(r, s, s[i].key, NoValue)
<1> DEFINE before == SubSeq(s, 1, i - 1)
           after == SubSeq(s, i + 1, Len(s))
           r == before \o after
<1>1. Len(s) \in Nat /\ DOMAIN s = 1 .. Len(s) /\ i \in 1 .. Len(s)
  BY LenProperties
<1>2. \A j \in 1 .. Len(s) : s[j] \in Entries
  BY ElementOfSeq
<1>3. /\ before \in Seq(Entries) /\ Len(before) = i - 1
      /\ \A j \in 1 .. i - 1 : before[j] = s[j]
  <2>1. \A j \in 1 .. i - 1 : s[j] \in Entries
    BY <1>1, <1>2
  <2>2. /\ before \in Seq(Entries)
        /\ Len(before) = IF 1 <= i - 1 THEN (i - 1) - 1 + 1 ELSE 0
        /\ \A j \in 1 .. (i - 1) - 1 + 1 : before[j] = s[1 + j - 1]
    BY <1>1, <2>1, SubSeqProperties
  <2> QED
    BY <1>1, <2>2
<1>4. /\ after \in Seq(Entries) /\ Len(after) = Len(s) - i
      /\ \A j \in 1 .. Len(s) - i : after[j] = s[i + j]
  <2>1. \A j \in i + 1 .. Len(s) : s[j] \in Entries
    BY <1>1, <1>2
  <2>2. /\ after \in Seq(Entries)
        /\ Len(after) = IF i + 1 <= Len(s) THEN Len(s) - (i + 1) + 1 ELSE 0
        /\ \A j \in 1 .. Len(s) - (i + 1) + 1 : after[j] = s[(i + 1) + j - 1]
    BY <1>1, <2>1, SubSeqProperties
  <2> QED
    BY <1>1, <2>2
<1>5. /\ r \in Seq(Entries) /\ Len(r) = Len(s) - 1
      /\ \A j \in 1 .. Len(s) - 1 : r[j] = IF j < i THEN s[j] ELSE s[j + 1]
  <2>1. /\ r \in Seq(Entries) /\ Len(r) = (i - 1) + (Len(s) - i)
        /\ \A j \in 1 .. (i - 1) + (Len(s) - i) :
              r[j] = IF j <= i - 1 THEN before[j] ELSE after[j - (i - 1)]
    <3> HIDE DEF before, after
    <3>1. /\ r \in Seq(Entries) /\ Len(r) = Len(before) + Len(after)
          /\ \A j \in 1 .. Len(before) + Len(after) :
                r[j] = IF j <= Len(before) THEN before[j] ELSE after[j - Len(before)]
      BY <1>3, <1>4, ConcatProperties
    <3> QED
      BY <3>1, <1>3, <1>4
  <2>2. /\ (i - 1) + (Len(s) - i) = Len(s) - 1
        /\ \A j \in Nat : j <= i - 1 <=> j < i
    BY <1>1
  <2>3. ASSUME NEW j \in 1 .. Len(s) - 1 PROVE r[j] = IF j < i THEN s[j] ELSE s[j + 1]
    <3>1. CASE j < i
      BY <3>1, <1>1, <1>3, <2>1, <2>2
    <3>2. CASE ~(j < i)
      <4>1. /\ j - (i - 1) \in 1 .. Len(s) - i
            /\ i + (j - (i - 1)) = j + 1
            /\ ~(j <= i - 1)
        BY <3>2, <1>1
      <4>2. r[j] = after[j - (i - 1)]
        BY <4>1, <2>1, <2>2
      <4> QED
        BY <3>2, <4>1, <4>2, <1>4
    <3> QED
      BY <3>1, <3>2
  <2> QED
    BY <2>1, <2>2, <2>3
<1>6. DOMAIN r = 1 .. Len(s) - 1
  BY <1>5, LenProperties
<1> DEFINE old(n) == IF n < i THEN n ELSE n + 1
<1>7. \A n \in DOMAIN r : r[n] = s[old(n)] /\ old(n) \in DOMAIN s /\ old(n) # i
  <2> SUFFICES ASSUME NEW n \in 1 .. Len(s) - 1
               PROVE  r[n] = s[old(n)] /\ old(n) \in 1 .. Len(s) /\ old(n) # i
    BY <1>1, <1>6
  <2>1. r[n] = s[old(n)]
    BY <1>5
  <2>2. old(n) \in 1 .. Len(s) /\ old(n) # i
    BY <1>1
  <2> QED
    BY <2>1, <2>2
<1>8. Unique(r)
  <2> SUFFICES ASSUME NEW j \in DOMAIN r, NEW k \in DOMAIN r, r[j].key = r[k].key
               PROVE  j = k
    BY DEF Unique
  <2>1. j \in 1 .. Len(s) - 1 /\ k \in 1 .. Len(s) - 1
    BY <1>6
  <2>2. old(j) = old(k)
    BY <1>7 DEF Unique
  <2> QED
    BY <1>1, <2>1, <2>2
<1>9. Value(r, s[i].key) = NoValue
  <2>1. \A n \in DOMAIN r : r[n].key # s[i].key
    BY <1>1, <1>7 DEF Unique
  <2> QED
    BY <2>1 DEF Value, At
<1>10. ASSUME NEW l \in Keys \ {s[i].key} PROVE Value(r, l) = Value(s, l)
  <2>1. \A n \in At(r, l) : old(n) \in At(s, l) /\ r[n].value = s[old(n)].value
    BY <1>7 DEF At
  <2>2. ASSUME NEW m \in At(s, l) PROVE At(r, l) # {}
    <3>1. m \in 1 .. Len(s) /\ m # i /\ s[m].key = l
      BY <1>1 DEF At
    <3>2. PICK n \in 1 .. Len(s) - 1 : old(n) = m
      <4>1. CASE m < i
        BY <3>1, <4>1, <1>1
      <4>2. CASE m > i
        <5>1. m - 1 \in 1 .. Len(s) - 1 /\ old(m - 1) = m
          BY <3>1, <4>2, <1>1
        <5> QED
          BY <5>1
      <4> QED
        BY <3>1, <4>1, <4>2, <1>1
    <3>3. n \in At(r, l)
      BY <3>1, <3>2, <1>6, <1>7 DEF At
    <3> QED
      BY <3>3
  <2> QED
    BY <2>1, <2>2, <1>5, <1>8, ValueSame
<1> QED
  BY <1>5, <1>8, <1>9, <1>10 DEF Lists!RemoveAt, Updated
-------------------------------------------------------------------------------
(* The invariant. *)

\* An empty table without calls satisfies the invariant.
LEMMA InitIInv == Init => IInv
<1> SUFFICES ASSUME Init PROVE IInv
  OBVIOUS
<1> USE LookupTableAssumption
<1>1. TypeOK
  BY EmptySeq DEF Init, TypeOK, Labels, Buckets
<1>2. ArgsOK
  BY DEF Init, ArgsOK, OnKey
<1>3. LocksOK
  BY DEF Init, LocksOK, Buckets
<1>4. FoundOK /\ KeysUnique
  BY DEF Init, FoundOK, KeysUnique
<1> QED
  BY <1>1, <1>2, <1>3, <1>4 DEF IInv

\* The bucket of a thread that is in a call on a key.
LEMMA MineExists ==
  ASSUME IInv, NEW t \in Threads, call[t] \in OnKey
  PROVE  key[t] \in Keys /\ Mine(t) \in Buckets
  BY BucketExists DEF IInv, ArgsOK, Mine

\* A call is entered.
LEMMA CallIInv ==
  ASSUME IInv, NEW t \in Threads, CallAny(t) PROVE IInv'
<1> USE LookupTableAssumption DEF Goto
<1>1. PICK op \in Operations, k \in Keys \cup {NoKey}, v \in Values \cup {NoValue},
           l \in {"lock_shared", "lock", "lock_all", "find"} :
        /\ Call(t, op, k, v, l)
        /\ op \in OnKey => k \in Keys
        /\ op = "add_or_update" => v \in Values
        /\ l = "lock_shared" <=> op = "value_for"
        /\ l = "lock" <=> op = "add_or_update"
        /\ l = "lock_all" <=> op = "get_map"
        /\ l = "find" <=> op = "remove"
  BY DEF CallAny, CallValueFor, CallAddOrUpdate, CallRemove, CallGetMap, Operations, OnKey
<1> USE <1>1 DEF Call, locks, results
<1>2. TypeOK'
  <2>1. budget' \in 0 .. MaxCalls
    BY DEF IInv, TypeOK
  <2> QED
    BY <2>1 DEF IInv, TypeOK, Labels
<1>3. ArgsOK'
  BY DEF IInv, TypeOK, ArgsOK, OnKey, Operations
<1>4. LocksOK'
  BY DEF IInv, TypeOK, ArgsOK, LocksOK, Mine, Buckets, OnKey, Operations
<1>5. FoundOK' /\ KeysUnique'
  BY DEF IInv, TypeOK, FoundOK, KeysUnique, Mine, At
<1> QED
  BY <1>2, <1>3, <1>4, <1>5 DEF IInv
\* The steps that take or release locks.
LEMMA LockIInv ==
  ASSUME IInv, NEW t \in Threads,
         LockShared(t) \/ LockAlone(t) \/ LockNext(t) \/ Unlock(t) \/ UnlockNext(t)
  PROVE  IInv'
<1> USE LookupTableAssumption DEF Goto
<1>1. CASE LockShared(t)
  <2>0. Mine(t) \in Buckets
    BY <1>1, MineExists DEF LockShared, IInv, ArgsOK, OnKey
  <2> USE <1>1, <2>0 DEF LockShared, args, results
  <2>1. TypeOK'
    BY DEF IInv, TypeOK, Labels
  <2>2. ArgsOK'
    BY DEF IInv, TypeOK, ArgsOK, OnKey
  <2>3. LocksOK'
    BY DEF IInv, TypeOK, ArgsOK, LocksOK, Mine
  <2>4. FoundOK' /\ KeysUnique'
    BY DEF IInv, TypeOK, FoundOK, KeysUnique, Mine, At
  <2> QED
    BY <2>1, <2>2, <2>3, <2>4 DEF IInv
<1>2. CASE LockAlone(t)
  <2>0. Mine(t) \in Buckets
    BY <1>2, MineExists DEF LockAlone, IInv, ArgsOK, OnKey
  <2> USE <1>2, <2>0 DEF LockAlone, Free, args, results
  <2>1. TypeOK'
    BY DEF IInv, TypeOK, Labels
  <2>2. ArgsOK'
    BY DEF IInv, TypeOK, ArgsOK, OnKey
  <2>3. LocksOK'
    BY DEF IInv, TypeOK, ArgsOK, LocksOK, Mine
  <2>4. FoundOK' /\ KeysUnique'
    BY DEF IInv, TypeOK, FoundOK, KeysUnique, Mine, At
  <2> QED
    BY <2>1, <2>2, <2>3, <2>4 DEF IInv
<1>3. CASE LockNext(t)
  <2>0. /\ locked[t] \in Buckets /\ locked[t] + 1 \in 0 .. NumBuckets
        /\ call[t] = "get_map"
    BY <1>3 DEF LockNext, IInv, TypeOK, ArgsOK, LocksOK, Buckets
  <2> USE <1>3, <2>0 DEF LockNext, Free, args, results
  <2>1. TypeOK'
    BY DEF IInv, TypeOK, Labels
  <2>2. ArgsOK'
    BY DEF IInv, TypeOK, ArgsOK, OnKey
  <2>3. LocksOK'
    BY DEF IInv, TypeOK, ArgsOK, LocksOK, Mine, Buckets
  <2>4. FoundOK' /\ KeysUnique'
    BY DEF IInv, TypeOK, FoundOK, KeysUnique, Mine, At
  <2> QED
    BY <2>1, <2>2, <2>3, <2>4 DEF IInv
<1>4. CASE Unlock(t)
  <2>0. Mine(t) \in Buckets /\ call[t] \in OnKey
    BY <1>4, MineExists DEF Unlock, IInv, TypeOK, ArgsOK, Operations, OnKey
  <2> USE <1>4, <2>0 DEF Unlock, Return
  <2>1. TypeOK'
    BY DEF IInv, TypeOK, Labels
  <2>2. ArgsOK'
    BY DEF IInv, TypeOK, ArgsOK, OnKey
  <2>3. LocksOK'
    <3>1. \A b \in Buckets : exclusive'[b] # NoThread => shared'[b] = {}
      BY DEF IInv, TypeOK, LocksOK
    <3>2. locked'[t] = 0 /\ pc'[t] = "idle" /\ call'[t] = "none"
      BY DEF IInv, TypeOK, LocksOK, OnKey
    <3>3. \A b \in Buckets : \A u \in Threads \ {t} :
             /\ u \in shared[b] => u \in shared'[b]
             /\ exclusive[b] = u => exclusive'[b] = u
      BY DEF IInv, TypeOK
    <3>4. \A u \in Threads \ {t} : /\ pc'[u] = pc[u] /\ call'[u] = call[u] /\ locked'[u] = locked[u]
                                   /\ Mine(u)' = Mine(u)
      BY DEF IInv, TypeOK, Mine
    <3>5. \A u \in Threads : call[u] \in OnKey => Mine(u) \in Buckets
      BY MineExists
    <3> HIDE <1>4, <2>0 DEF Unlock
    <3> QED
      BY <3>1, <3>2, <3>3, <3>4, <3>5 DEF IInv, TypeOK, LocksOK, OnKey, Buckets
  <2>4. FoundOK' /\ KeysUnique'
    BY DEF IInv, TypeOK, FoundOK, KeysUnique, Mine, At
  <2> QED
    BY <2>1, <2>2, <2>3, <2>4 DEF IInv
<1>5. CASE UnlockNext(t)
  <2>0. /\ locked[t] - 1 \in Buckets /\ locked[t] - 1 \in 0 .. NumBuckets
        /\ call[t] = "get_map"
    BY <1>5 DEF UnlockNext, IInv, TypeOK, ArgsOK, LocksOK, Buckets
  <2> USE <1>5, <2>0 DEF UnlockNext, Return, args, results
  <2>1. TypeOK'
    <3>1. exclusive' \in [Buckets -> Threads \cup {NoThread}] /\ locked' \in [Threads -> 0 .. NumBuckets]
      BY DEF IInv, TypeOK
    <3>2. CASE locked[t] = 1
      <4>1. Return(t)
        BY <3>2
      <4> HIDE <1>5, <2>0 DEF UnlockNext
      <4>2. pc' \in [Threads -> Labels] /\ call' \in [Threads -> Operations \cup {"none"}]
        BY <4>1 DEF IInv, TypeOK, Labels
      <4>3. /\ key' \in [Threads -> Keys \cup {NoKey}]
            /\ val' \in [Threads -> Values \cup {NoValue}]
            /\ found' \in [Threads -> Nat]
            /\ answer' \in [Threads -> Answers \cup {NoAnswer}]
        BY <4>1 DEF IInv, TypeOK
      <4>4. UNCHANGED <<data, shared, budget>>
        BY <1>5 DEF UnlockNext
      <4> QED
        BY <3>1, <4>2, <4>3, <4>4 DEF IInv, TypeOK
    <3>3. CASE locked[t] # 1
      BY <3>1, <3>3 DEF IInv, TypeOK
    <3> QED
      BY <3>2, <3>3
  <2>2. ArgsOK'
    BY DEF IInv, TypeOK, ArgsOK, OnKey
  <2>3. LocksOK'
    <3>1. \A b \in Buckets : exclusive'[b] # NoThread => shared'[b] = {}
      BY DEF IInv, TypeOK, LocksOK
    <3>2. \A b \in Buckets : /\ shared'[b] = shared[b]
                             /\ exclusive'[b] = IF b = locked[t] - 1 THEN NoThread ELSE exclusive[b]
      BY DEF IInv, TypeOK
    <3>3. /\ \A u \in Threads \ {t} : /\ pc'[u] = pc[u] /\ call'[u] = call[u]
                                      /\ locked'[u] = locked[u] /\ Mine(u)' = Mine(u)
          /\ locked'[t] = locked[t] - 1
          /\ \/ locked[t] = 1 /\ pc'[t] = "idle" /\ call'[t] = "none"
             \/ locked[t] # 1 /\ pc'[t] = "unlock_all" /\ call'[t] = "get_map"
      BY DEF IInv, TypeOK, Mine
    <3>4. exclusive[locked[t] - 1] = t
      BY DEF IInv, TypeOK, LocksOK
    <3>5. \A u \in Threads : call[u] \in OnKey => Mine(u) \in Buckets
      BY MineExists
    <3> HIDE <1>5, <2>0 DEF UnlockNext
    <3>6. \A u \in Threads \ {t} : \A b \in Buckets : exclusive[b] = u => exclusive'[b] = u
      BY <3>2, <3>4
    <3>7. \A b \in Buckets : b < locked'[t] => exclusive'[b] = t
      <4>1. locked[t] \in Nat /\ \A b \in Buckets : b \in Nat
        BY DEF IInv, TypeOK, Buckets
      <4>2. \A b \in Buckets : b < locked[t] => exclusive[b] = t
        BY DEF IInv, LocksOK
      <4> QED
        BY <4>1, <4>2, <3>2, <3>3
    <3>8. /\ call'[t] # "get_map" => locked'[t] = 0
          /\ pc'[t] = "unlock_all" => locked'[t] > 0
          /\ pc'[t] \in {"idle", "unlock_all"}
      BY <2>0, <3>3 DEF IInv, TypeOK, Buckets
    <3>9. \A u \in Threads \ {t} :
             /\ pc'[u] \in {"find", "use"} /\ call'[u] = "value_for" => u \in shared'[Mine(u)']
             /\ pc'[u] \in {"find", "use"} /\ call'[u] = "add_or_update"
                  => exclusive'[Mine(u)'] = u
             /\ \A b \in Buckets : b < locked'[u] => exclusive'[b] = u
             /\ call'[u] # "get_map" => locked'[u] = 0
             /\ pc'[u] = "copy" => locked'[u] = NumBuckets
             /\ pc'[u] = "lock_all" => locked'[u] < NumBuckets
             /\ pc'[u] = "unlock_all" => locked'[u] > 0
      BY <3>2, <3>3, <3>5, <3>6 DEF IInv, LocksOK, OnKey
    <3> QED
      BY <3>1, <3>7, <3>8, <3>9 DEF LocksOK
  <2>4. FoundOK' /\ KeysUnique'
    BY DEF IInv, TypeOK, FoundOK, KeysUnique, Mine, At
  <2> QED
    BY <2>1, <2>2, <2>3, <2>4 DEF IInv
<1> QED
  BY <1>1, <1>2, <1>3, <1>4, <1>5
\* The table stores a value or none for every key.
LEMMA StoredValue == IInv => \A k \in Keys : Stored(k) \in Values \cup {NoValue}
<1> SUFFICES ASSUME IInv, NEW k \in Keys PROVE Stored(k) \in Values \cup {NoValue}
  OBVIOUS
<1> DEFINE s == data[Bucket(k)]
<1>1. s \in Seq(Entries) /\ Unique(s) /\ Stored(k) = Value(s, k)
  BY BucketExists DEF IInv, TypeOK, KeysUnique, Unique, Entries, Stored, Value
<1>2. CASE At(s, k) = {}
  BY <1>1, <1>2 DEF Value
<1>3. ASSUME NEW i \in At(s, k) PROVE Stored(k) \in Values
  <2>1. i \in 1 .. Len(s)
    BY <1>1, LenProperties DEF At
  <2>2. s[i] \in Entries
    BY <1>1, <2>1, ElementOfSeq
  <2>3. Stored(k) = s[i].value
    BY <1>1, ValueAt
  <2> QED
    BY <2>2, <2>3 DEF Entries
<1> QED
  BY <1>2, <1>3

\* The answer a call gets is one it may return.
LEMMA AnswerGiven ==
  ASSUME IInv, NEW t \in Threads,
         \/ ReadValue(t) \/ NothingToErase(t) \/ CopyAll(t)
         \/ PushBack(t) \/ SetValue(t) \/ Erase(t)
  PROVE  \E a \in Answers : answer' = [answer EXCEPT ![t] = a]
<1>1. CASE ReadValue(t)
  <2>1. /\ call[t] = "value_for" /\ pc[t] = "use" /\ Mine(t) \in Buckets
    BY <1>1, MineExists DEF ReadValue, OnKey
  <2>2. data[Mine(t)] \in Seq(Entries)
    BY <2>1 DEF IInv, TypeOK, Entries
  <2>3. found[t] # 0 => found[t] \in 1 .. Len(data[Mine(t)])
    BY <2>1, <2>2, LenProperties DEF IInv, FoundOK, At
  <2>4. found[t] # 0 => data[Mine(t)][found[t]] \in Entries
    BY <2>2, <2>3, ElementOfSeq
  <2>5. found[t] # 0 => data[Mine(t)][found[t]].value \in Values
    BY <2>4 DEF Entries
  <2> QED
    BY <1>1, <2>5 DEF ReadValue, Answers
<1>2. CASE CopyAll(t)
  <2>1. Contents \in [Keys -> Values \cup {NoValue}]
    BY StoredValue DEF Contents
  <2> QED
    BY <1>2, <2>1 DEF CopyAll, Answers
<1>3. CASE PushBack(t) \/ SetValue(t) \/ Erase(t) \/ NothingToErase(t)
  BY <1>3 DEF PushBack, SetValue, Erase, NothingToErase, Finish, Answers
<1> QED
  BY <1>1, <1>2, <1>3

\* The steps that look at a bucket and change nothing in it.
LEMMA LookIInv ==
  ASSUME IInv, NEW t \in Threads, Find(t) \/ ReadValue(t) \/ NothingToErase(t) \/ CopyAll(t)
  PROVE  IInv'
<1> USE LookupTableAssumption DEF Goto, args, locks
<1>1. CASE Find(t)
  <2>0. call[t] \in OnKey /\ Mine(t) \in Buckets
    BY <1>1, MineExists DEF Find, IInv, TypeOK, ArgsOK, Operations, OnKey
  <2>1. \/ found' = [found EXCEPT ![t] = 0] /\ At(data[Mine(t)], key[t]) = {}
        \/ \E i \in At(data[Mine(t)], key[t]) : found' = [found EXCEPT ![t] = i]
    BY <1>1 DEF Find
  <2>2. data[Mine(t)] \in Seq(Entries)
    BY <2>0 DEF IInv, TypeOK, Entries
  <2>3. At(data[Mine(t)], key[t]) \subseteq Nat
    BY <2>2, LenProperties DEF At
  <2>4. /\ pc[t] = "find" /\ pc' = [pc EXCEPT ![t] = "use"]
        /\ UNCHANGED <<data, locks, args, answer, locked, budget>>
    BY <1>1 DEF Find
  <2>5. found' \in [Threads -> Nat]
    <3>1. PICK i \in Nat : found' = [found EXCEPT ![t] = i]
      BY <2>1, <2>3
    <3> QED
      BY <3>1 DEF IInv, TypeOK
  <2>6. TypeOK'
    BY <2>4, <2>5 DEF IInv, TypeOK, Labels
  <2>7. ArgsOK'
    BY <2>4, <2>0 DEF IInv, TypeOK, ArgsOK, OnKey
  <2>8. LocksOK'
    BY <2>4, <2>0 DEF IInv, TypeOK, LocksOK, Mine, OnKey
  <2>9. FoundOK' /\ KeysUnique'
    BY <2>1, <2>4 DEF IInv, TypeOK, FoundOK, KeysUnique, Mine, At
  <2> QED
    BY <2>6, <2>7, <2>8, <2>9 DEF IInv
<1>2. CASE ReadValue(t) \/ NothingToErase(t) \/ CopyAll(t)
  <2>1. PICK l \in {"unlock", "unlock_all"} :
          /\ pc[t] \in {"use", "copy"} /\ (l = "unlock_all" <=> pc[t] = "copy")
          /\ pc' = [pc EXCEPT ![t] = l]
          /\ UNCHANGED <<data, locks, args, found, locked, budget>>
    BY <1>2 DEF ReadValue, NothingToErase, Finish, CopyAll
  <2>2. TypeOK'
    <3>1. answer' \in [Threads -> Answers \cup {NoAnswer}]
      BY <1>2, AnswerGiven DEF IInv, TypeOK
    <3> QED
      BY <2>1, <3>1 DEF IInv, TypeOK, Labels
  <2>3. ArgsOK'
    BY <2>1 DEF IInv, TypeOK, ArgsOK, OnKey
  <2>4. LocksOK'
    BY <2>1 DEF IInv, TypeOK, LocksOK, Mine
  <2>5. FoundOK' /\ KeysUnique'
    BY <2>1 DEF IInv, TypeOK, FoundOK, KeysUnique, Mine, At
  <2> QED
    BY <2>2, <2>3, <2>4, <2>5 DEF IInv
<1> QED
  BY <1>1, <1>2

\* A thread that changes its bucket shares it with nobody who has looked into it.
LEMMA Undisturbed ==
  ASSUME ~Race, NEW t \in Threads, Changes(t), NEW u \in Threads \ {t}, pc[u] = "use"
  PROVE  Mine(u) # Mine(t)
  BY DEF Race, Races, Writes, Reads

\* What a change makes of the bucket.
LEMMA BucketUpdated ==
  ASSUME IInv, NEW t \in Threads, PushBack(t) \/ SetValue(t) \/ Erase(t)
  PROVE  \E r \in Seq(Entries) :
            /\ data' = [data EXCEPT ![Mine(t)] = r]
            /\ Unique(r)
            /\ Updated(r, data[Mine(t)], key[t], IF call[t] = "remove" THEN NoValue ELSE val[t])
<1> DEFINE s == data[Mine(t)]
<1>0. /\ key[t] \in Keys /\ Mine(t) \in Buckets
      /\ call[t] = "add_or_update" => val[t] \in Values
      /\ pc[t] = "use"
  BY MineExists DEF PushBack, SetValue, Erase, IInv, ArgsOK, OnKey
<1>1. s \in Seq(Entries) /\ Unique(s) /\ DOMAIN s = 1 .. Len(s)
  BY <1>0, LenProperties DEF IInv, TypeOK, KeysUnique, Unique, Entries
<1>2. found[t] # 0 => found[t] \in DOMAIN s /\ s[found[t]].key = key[t]
  BY <1>0 DEF IInv, FoundOK, At
<1>3. CASE PushBack(t)
  <2> DEFINE e == [key |-> key[t], value |-> val[t]]
             r == Append(s, e)
  <2>1. e \in Entries /\ At(s, e.key) = {} /\ e.key = key[t] /\ e.value = val[t]
    BY <1>3, <1>0, <1>1, LookupTableAssumption DEF PushBack, Entries, IInv, FoundOK, At
  <2> HIDE DEF e
  <2>2. r \in Seq(Entries) /\ Unique(r) /\ Updated(r, s, key[t], val[t])
    BY <2>1, <1>1, AppendUnique
  <2>3. data' = [data EXCEPT ![Mine(t)] = r] /\ call[t] # "remove"
    BY <1>3, <1>0 DEF PushBack, IInv, TypeOK, e
  <2> QED
    BY <2>2, <2>3
<1>4. CASE SetValue(t)
  <2> DEFINE r == [s EXCEPT ![found[t]].value = val[t]]
  <2>1. r \in Seq(Entries) /\ Unique(r) /\ Updated(r, s, key[t], val[t])
    BY <1>4, <1>0, <1>1, <1>2, SetUnique DEF SetValue
  <2>2. data' = [data EXCEPT ![Mine(t)] = r] /\ call[t] # "remove"
    BY <1>4, <1>0 DEF SetValue, IInv, TypeOK
  <2> QED
    BY <2>1, <2>2
<1>5. CASE Erase(t)
  <2> DEFINE r == Lists!RemoveAt(s, found[t])
  <2>1. r \in Seq(Entries) /\ Unique(r) /\ Updated(r, s, key[t], NoValue)
    BY <1>5, <1>1, <1>2, RemoveUnique DEF Erase
  <2>2. data' = [data EXCEPT ![Mine(t)] = r] /\ call[t] = "remove"
    BY <1>5, <1>0 DEF Erase, IInv, TypeOK
  <2> QED
    BY <2>1, <2>2
<1> QED
  BY <1>3, <1>4, <1>5

\* The steps that change a bucket.
LEMMA ChangeIInv ==
  ASSUME IInv, ~Race, NEW t \in Threads, PushBack(t) \/ SetValue(t) \/ Erase(t)
  PROVE  IInv'
<1> USE LookupTableAssumption DEF Goto, args, locks
<1>0. /\ call[t] \in OnKey /\ Mine(t) \in Buckets
      /\ pc[t] = "use" /\ Changes(t)
  BY MineExists DEF PushBack, SetValue, Erase, Changes, IInv, ArgsOK, OnKey
<1>3. /\ pc' = [pc EXCEPT ![t] = "unlock"]
      /\ UNCHANGED <<locks, args, found, locked, budget>>
  BY DEF PushBack, SetValue, Erase, Finish
<1>4. PICK r \in Seq(Entries) : Unique(r) /\ data' = [data EXCEPT ![Mine(t)] = r]
  BY BucketUpdated
<1>5. TypeOK'
  <2>1. answer' \in [Threads -> Answers \cup {NoAnswer}]
    BY AnswerGiven DEF IInv, TypeOK
  <2> QED
    BY <2>1, <1>3, <1>4, <1>0 DEF IInv, TypeOK, Labels, Entries
<1>6. ArgsOK'
  BY <1>3, <1>0 DEF IInv, TypeOK, ArgsOK, OnKey
<1>7. LocksOK'
  BY <1>3, <1>0 DEF IInv, TypeOK, LocksOK, Mine
<1>8. KeysUnique'
  BY <1>4, <1>0 DEF IInv, TypeOK, KeysUnique, Unique
<1>9. FoundOK'
  <2> SUFFICES ASSUME NEW u \in Threads, pc'[u] = "use"
               PROVE  FoundOK!(u)'
    BY DEF FoundOK
  <2>1. u # t /\ pc[u] = "use"
    BY <1>3 DEF IInv, TypeOK
  <2>2. Mine(u) # Mine(t) /\ Mine(u)' = Mine(u)
    BY <2>1, <1>0, <1>3, Undisturbed DEF Mine
  <2>3. Mine(u) \in Buckets
    BY <2>1, MineExists DEF IInv, TypeOK, ArgsOK, Operations, OnKey
  <2>4. data'[Mine(u)] = data[Mine(u)]
    BY <2>2, <2>3, <1>4 DEF IInv, TypeOK
  <2> QED
    BY <2>1, <2>2, <2>4, <1>3 DEF IInv, FoundOK
<1> QED
  BY <1>5, <1>6, <1>7, <1>8, <1>9 DEF IInv

\* Every step preserves the invariant.
LEMMA NextIInv == IInv /\ [Next]_vars => IInv'
<1> SUFFICES ASSUME IInv, [Next]_vars PROVE IInv'
  OBVIOUS
<1>1. ASSUME ~Race, NEW t \in Threads, CallAny(t) \/ Step(t) PROVE IInv'
  BY <1>1, CallIInv, LockIInv, LookIInv, ChangeIInv DEF Step
<1>2. CASE UNCHANGED vars
  <2> USE <1>2 DEF vars, locks, args, results, IInv
  <2>1. TypeOK'
    BY DEF TypeOK
  <2>2. ArgsOK' /\ LocksOK'
    BY DEF ArgsOK, LocksOK, Mine
  <2>3. FoundOK' /\ KeysUnique'
    BY DEF FoundOK, KeysUnique, Mine, At
  <2> QED
    BY <2>1, <2>2, <2>3
<1> QED
  BY <1>1, <1>2 DEF Next

\* The invariant holds up to the first race, and no step is taken after one.
THEOREM Invariance == Spec => []IInv
  BY InitIInv, NextIInv, PTL DEF Spec

\* Every variable has its type, for any number of buckets and any hash function
\* (p249:79): what a search found is an entry of its bucket when it is used.
THEOREM TypeCorrect == Spec => []TypeOK
  BY Invariance, PTL DEF IInv

\* No bucket has two entries for one key: nobody adds the key between the
\* search (p249:48) and the push_back (p249:51) of an update.
THEOREM KeysStayUnique == Spec => []KeysUnique
  BY Invariance, PTL DEF IInv

\* The locks of lookups, updates and copies (p249:39, p249:47, p249:106) keep
\* them apart: every race is of a removal.
THEOREM OnlyRemoveRaces == Spec => []RacesOnlyByRemove
<1>1. IInv => RacesOnlyByRemove
  <2> SUFFICES ASSUME IInv, NEW t \in Threads, NEW u \in Threads, t # u, Races(t, u),
                      "remove" \notin {call[t], call[u]}
               PROVE  FALSE
    BY DEF RacesOnlyByRemove
  <2> DEFINE b == Mine(t)
  <2>1. pc[t] = "use" /\ call[t] = "add_or_update" /\ b \in Reads(u) \cup Writes(u)
    BY DEF Races, Writes, Changes
  <2>2. b \in Buckets /\ exclusive[b] = t /\ shared[b] = {}
    BY <2>1, MineExists, LookupTableAssumption DEF IInv, ArgsOK, LocksOK, OnKey
  <2>3. CASE pc[u] = "copy"
    <3>1. b < locked[u]
      BY <2>2, <2>3, LookupTableAssumption DEF IInv, LocksOK, Buckets
    <3> QED
      BY <3>1, <2>2 DEF IInv, LocksOK
  <2>4. CASE pc[u] \in {"find", "use"}
    <3>1. b = Mine(u) /\ call[u] \in {"value_for", "add_or_update"}
      BY <2>1, <2>4 DEF Reads, Writes, IInv, TypeOK, ArgsOK, Operations
    <3> QED
      BY <3>1, <2>2, <2>4 DEF IInv, LocksOK
  <2> QED
    BY <2>1, <2>3, <2>4 DEF Reads, Writes, Changes
<1> QED
  BY <1>1, Invariance, PTL
-------------------------------------------------------------------------------
(* The map. *)

\* What a thread carries outside of its call, and when it knows its answer.
AnswersOK == \A t \in Threads :
    /\ call[t] \in {"none", "get_map"} => key[t] = NoKey
    /\ call[t] # "add_or_update" => val[t] = NoValue
    /\ answer[t] = NoAnswer <=> pc[t] \notin {"unlock", "unlock_all"}

\* A change updates the value of the key the thread works on, and nothing else.
LEMMA ContentsUpdated ==
  ASSUME IInv, NEW t \in Threads, PushBack(t) \/ SetValue(t) \/ Erase(t)
  PROVE  Contents' = [Contents EXCEPT ![key[t]] = IF call[t] = "remove" THEN NoValue ELSE val[t]]
<1> DEFINE v == IF call[t] = "remove" THEN NoValue ELSE val[t]
<1>1. key[t] \in Keys /\ Mine(t) \in Buckets
  BY MineExists DEF PushBack, SetValue, Erase, IInv, ArgsOK, OnKey
<1>2. PICK r : /\ data' = [data EXCEPT ![Mine(t)] = r]
               /\ Updated(r, data[Mine(t)], key[t], v)
  BY BucketUpdated
<1>3. ASSUME NEW k \in Keys PROVE Stored(k)' = IF k = key[t] THEN v ELSE Stored(k)
  <2>1. data'[Bucket(k)] = IF Bucket(k) = Mine(t) THEN r ELSE data[Bucket(k)]
    BY <1>2, BucketExists DEF IInv, TypeOK
  <2>2. Stored(k) = Value(data[Bucket(k)], k) /\ Stored(k)' = Value(data'[Bucket(k)], k)
    BY DEF Stored, Value
  <2>3. CASE k = key[t]
    BY <2>1, <2>2, <2>3, <1>2 DEF Updated, Mine
  <2>4. CASE k # key[t]
    BY <2>1, <2>2, <2>4, <1>2 DEF Updated
  <2> QED
    BY <2>3, <2>4
<1> HIDE DEF v
<1> QED
  BY <1>3, <1>1 DEF Contents, v
\* A step leaves its thread with the answer it should have, and no other.
LEMMA AnswersStep == IInv /\ AnswersOK /\ [Next]_vars => AnswersOK'
<1> SUFFICES ASSUME IInv, AnswersOK, [Next]_vars PROVE AnswersOK'
  OBVIOUS
<1> USE LookupTableAssumption DEF Goto, args, locks, results
<1>1. ASSUME NEW t \in Threads, CallAny(t) PROVE AnswersOK'
  <2>1. PICK op \in Operations, k \in Keys \cup {NoKey}, v \in Values \cup {NoValue},
             l \in {"lock_shared", "lock", "lock_all", "find"} :
          /\ Call(t, op, k, v, l)
          /\ op = "get_map" => k = NoKey
          /\ op # "add_or_update" => v = NoValue
    BY <1>1 DEF CallAny, CallValueFor, CallAddOrUpdate, CallRemove, CallGetMap, Operations
  <2>2. pc[t] = "idle"
    BY <2>1 DEF Call
  <2> QED
    BY <2>1, <2>2 DEF Call, IInv, TypeOK, AnswersOK, Operations
<1>2. ASSUME NEW t \in Threads,
             \/ LockShared(t) \/ LockAlone(t) \/ LockNext(t) \/ Find(t)
             \/ (UnlockNext(t) /\ locked[t] # 1)
      PROVE  AnswersOK'
  <2>1. PICK l \in {"find", "lock_all", "copy", "use", pc[t]} :
          /\ pc' = [pc EXCEPT ![t] = l]
          /\ UNCHANGED <<args, answer>>
          /\ pc[t] \in {"unlock", "unlock_all"} <=> l \in {"unlock", "unlock_all"}
    BY <1>2 DEF LockShared, LockAlone, LockNext, Find, UnlockNext, IInv, TypeOK
  <2> QED
    BY <2>1 DEF IInv, TypeOK, AnswersOK
<1>3. ASSUME NEW t \in Threads, Return(t) PROVE AnswersOK'
  BY <1>3 DEF Return, IInv, TypeOK, AnswersOK
<1>4. ASSUME NEW t \in Threads,
             ReadValue(t) \/ PushBack(t) \/ SetValue(t) \/ Erase(t) \/ NothingToErase(t)
             \/ CopyAll(t)
      PROVE  AnswersOK'
  <2>1. PICK a \in Answers : answer' = [answer EXCEPT ![t] = a]
    BY <1>4, AnswerGiven
  <2>2. PICK l \in {"unlock", "unlock_all"} : pc' = [pc EXCEPT ![t] = l] /\ UNCHANGED args
    BY <1>4 DEF ReadValue, CopyAll, PushBack, SetValue, Erase, NothingToErase, Finish
  <2>3. a # NoAnswer
    BY <2>1
  <2> QED
    BY <2>1, <2>2, <2>3 DEF IInv, TypeOK, AnswersOK
<1>5. CASE UNCHANGED vars
  BY <1>5 DEF vars, AnswersOK
<1>6. ASSUME NEW t \in Threads, Unlock(t) \/ (UnlockNext(t) /\ locked[t] = 1) PROVE Return(t)
  BY <1>6 DEF Unlock, UnlockNext
<1> QED
  BY <1>1, <1>2, <1>3, <1>4, <1>5, <1>6 DEF Next, Step
\* The steps of the map: a lookup, an update, a removal and a copy take effect
\* when the bucket is worked on.
LEMMA MapStep ==
  IInv /\ AnswersOK /\ [Next]_vars =>
     [Map!Next]_<<Contents, [t \in Threads |-> Request(t)], answer>>
<1> SUFFICES ASSUME IInv, AnswersOK, [Next]_vars
             PROVE  [Map!Next]_<<Contents, [t \in Threads |-> Request(t)], answer>>
  OBVIOUS
<1> USE LookupTableAssumption DEF Goto, args, locks, results
<1> DEFINE request == [t \in Threads |-> Request(t)]
<1>0. /\ data' = data => Contents' = Contents
      /\ UNCHANGED args => request' = request
      /\ \A t \in Threads : request[t] = [op |-> call[t], key |-> key[t], val |-> val[t]]
  <2>1. data' = data => Contents' = Contents
    BY DEF Contents, Stored, At
  <2>2. UNCHANGED args => request' = request
    BY DEF Request
  <2>3. \A t \in Threads : request[t] = [op |-> call[t], key |-> key[t], val |-> val[t]]
    BY DEF Request
  <2> QED
    BY <2>1, <2>2, <2>3
<1>1. ASSUME NEW t \in Threads, CallAny(t) PROVE \E r \in Map!Requests : Map!Call(t, r)
  <2>1. PICK op \in Operations, k \in Keys \cup {NoKey}, v \in Values \cup {NoValue},
              l \in Labels :
          /\ Call(t, op, k, v, l)
          /\ [op |-> op, key |-> k, val |-> v] \in Map!Requests
    BY <1>1 DEF CallAny, CallValueFor, CallAddOrUpdate, CallRemove, CallGetMap, Operations,
                Labels, Map!Requests
  <2> DEFINE r == [op |-> op, key |-> k, val |-> v]
  <2>2. request[t] = Map!None
    BY <2>1, <1>0 DEF Call, IInv, ArgsOK, AnswersOK, Map!None
  <2>3. request' = [request EXCEPT ![t] = r]
    BY <2>1 DEF Call, IInv, TypeOK, Request
  <2>4. UNCHANGED <<Contents, answer>>
    BY <2>1, <1>0 DEF Call
  <2> QED
    BY <2>1, <2>2, <2>3, <2>4 DEF Map!Call
<1>2. ASSUME NEW t \in Threads, Return(t), data' = data, pc[t] \in {"unlock", "unlock_all"}
      PROVE  Map!Return(t)
  <2>1. answer[t] # NoAnswer
    BY <1>2 DEF AnswersOK
  <2>2. request' = [request EXCEPT ![t] = Map!None]
    BY <1>2 DEF Return, IInv, TypeOK, Request, Map!None
  <2>3. answer' = [answer EXCEPT ![t] = NoAnswer] /\ UNCHANGED Contents
    BY <1>2, <1>0 DEF Return
  <2> QED
    BY <2>1, <2>2, <2>3 DEF Map!Return
<1>3. ASSUME NEW t \in Threads,
             \/ ReadValue(t) \/ PushBack(t) \/ SetValue(t) \/ Erase(t) \/ NothingToErase(t)
             \/ CopyAll(t)
      PROVE  \/ Map!ValueFor(t) \/ Map!AddOrUpdate(t) \/ Map!Remove(t) \/ Map!Copy(t)
  <2>1. answer[t] = NoAnswer /\ request' = request
    BY <1>3, <1>0 DEF AnswersOK, ReadValue, PushBack, SetValue, Erase, NothingToErase, Finish,
                      CopyAll
  <2>0. request[t].op = call[t] /\ request[t].key = key[t] /\ request[t].val = val[t]
    BY <1>0
  <2>2. \A k \in Keys : Stored(k) = Contents[k]
    BY DEF Contents
  <2>3. CASE ReadValue(t)
    <3>1. call[t] = "value_for" /\ key[t] \in Keys /\ Mine(t) \in Buckets /\ pc[t] = "use"
      BY <2>3, MineExists DEF ReadValue, OnKey
    <3>2. data[Mine(t)] \in Seq(Entries) /\ Unique(data[Mine(t)])
      BY <3>1 DEF IInv, TypeOK, KeysUnique, Unique, Entries
    <3>3. Stored(key[t]) = Value(data[Mine(t)], key[t])
      BY DEF Stored, Value, Mine
    <3>4. CASE found[t] = 0
      <4>1. At(data[Mine(t)], key[t]) = {}
        BY <3>1, <3>2, <3>4, LenProperties DEF IInv, FoundOK, At
      <4>2. answer' = [answer EXCEPT ![t] = Contents[key[t]]]
        BY <4>1, <3>1, <3>3, <3>4, <2>2, <2>3 DEF ReadValue, Value
      <4>3. Contents' = Contents
        BY <2>3, <1>0 DEF ReadValue
      <4> QED
        BY <4>2, <4>3, <3>1, <2>0, <2>1 DEF Map!ValueFor, Map!TakesEffect
    <3>5. CASE found[t] # 0
      <4>1. found[t] \in At(data[Mine(t)], key[t])
        BY <3>1, <3>5 DEF IInv, FoundOK
      <4>2. Stored(key[t]) = data[Mine(t)][found[t]].value
        BY <4>1, <3>1, <3>2, <3>3, ValueAt
      <4>3. answer' = [answer EXCEPT ![t] = Contents[key[t]]]
        BY <4>2, <3>1, <3>5, <2>2, <2>3 DEF ReadValue
      <4>4. Contents' = Contents
        BY <2>3, <1>0 DEF ReadValue
      <4> QED
        BY <4>3, <4>4, <3>1, <2>0, <2>1 DEF Map!ValueFor, Map!TakesEffect
    <3> QED
      BY <3>4, <3>5
  <2>4. CASE PushBack(t) \/ SetValue(t)
    <3>1. call[t] = "add_or_update" /\ answer' = [answer EXCEPT ![t] = Done]
      BY <2>4 DEF PushBack, SetValue, Finish
    <3>2. Contents' = [Contents EXCEPT ![key[t]] = val[t]]
      BY <2>4, <3>1, ContentsUpdated
    <3> QED
      BY <3>1, <3>2, <2>0, <2>1 DEF Map!AddOrUpdate, Map!TakesEffect
  <2>5. CASE Erase(t)
    <3>1. call[t] = "remove" /\ answer' = [answer EXCEPT ![t] = Done]
      BY <2>5 DEF Erase, Finish
    <3>2. Contents' = [Contents EXCEPT ![key[t]] = NoValue]
      BY <2>5, <3>1, ContentsUpdated
    <3> QED
      BY <3>1, <3>2, <2>0, <2>1 DEF Map!Remove, Map!TakesEffect
  <2>6. CASE NothingToErase(t)
    <3>1. /\ call[t] = "remove" /\ pc[t] = "use" /\ found[t] = 0
          /\ answer' = [answer EXCEPT ![t] = Done] /\ data' = data
      BY <2>6 DEF NothingToErase, Finish
    <3>2. key[t] \in Keys /\ Mine(t) \in Buckets
      BY <3>1, MineExists DEF OnKey
    <3>3. At(data[Mine(t)], key[t]) = {}
      <4>1. data[Mine(t)] \in Seq(Entries)
        BY <3>2 DEF IInv, TypeOK, Entries
      <4> QED
        BY <3>1, <4>1, LenProperties DEF IInv, FoundOK, At
    <3>4. Contents[key[t]] = NoValue
      BY <3>2, <3>3 DEF Contents, Stored, Mine
    <3>5. Contents' = [Contents EXCEPT ![key[t]] = NoValue]
      <4>1. Contents = [Contents EXCEPT ![key[t]] = NoValue]
        BY <3>4 DEF Contents
      <4> QED
        BY <4>1, <3>1, <1>0
    <3> QED
      BY <3>1, <3>5, <2>0, <2>1 DEF Map!Remove, Map!TakesEffect
  <2>7. CASE CopyAll(t)
    <3>1. call[t] = "get_map" /\ answer' = [answer EXCEPT ![t] = Contents] /\ data' = data
      BY <2>7 DEF CopyAll, IInv, ArgsOK
    <3>2. Contents' = Contents
      BY <3>1, <1>0
    <3> QED
      BY <3>1, <3>2, <2>0, <2>1 DEF Map!Copy, Map!TakesEffect
  <2> QED
    BY <1>3, <2>3, <2>4, <2>5, <2>6, <2>7
<1>4. ASSUME NEW t \in Threads,
             \/ LockShared(t) \/ LockAlone(t) \/ LockNext(t) \/ Find(t)
             \/ (UnlockNext(t) /\ locked[t] # 1)
      PROVE  UNCHANGED <<Contents, request, answer>>
  <2>1. UNCHANGED <<data, args, answer>>
    BY <1>4 DEF LockShared, LockAlone, LockNext, Find, UnlockNext
  <2> QED
    BY <2>1, <1>0
<1>5. ASSUME NEW t \in Threads, Unlock(t) \/ (UnlockNext(t) /\ locked[t] = 1)
      PROVE  Map!Return(t)
  <2>1. Return(t) /\ data' = data /\ pc[t] \in {"unlock", "unlock_all"}
    BY <1>5 DEF Unlock, UnlockNext
  <2> QED
    BY <2>1, <1>2
<1>6. CASE UNCHANGED vars
  BY <1>6, <1>0 DEF vars
<1> QED
  BY <1>1, <1>3, <1>4, <1>5, <1>6 DEF Next, Step, Map!Next

\* Whatever the number of threads, keys and buckets, the operations of the table
\* take effect one at a time up to the first race, and get_map returns all
\* entries of one moment (p249:103).
THEOREM TableIsAMap == Spec => TableImplementsMap
<1>1. Init => Map!Init
  <2> SUFFICES ASSUME Init PROVE Map!Init
    OBVIOUS
  <2>1. \A k \in Keys : At(data[Bucket(k)], k) = {}
    BY BucketExists, EmptySeq DEF Init, At
  <2>2. Contents = [k \in Keys |-> NoValue]
    BY <2>1 DEF Contents, Stored
  <2>3. \A t \in Threads : Request(t) = Map!None
    BY DEF Init, Request, Map!None
  <2> QED
    BY <2>2, <2>3 DEF Init, Map!Init
<1>2. Init => AnswersOK
  BY DEF Init, AnswersOK
<1>3. Spec => []AnswersOK
  BY <1>2, Invariance, AnswersStep, PTL DEF Spec
<1> QED
  BY <1>1, <1>3, Invariance, MapStep, PTL DEF Spec, Map!Spec, TableImplementsMap
===============================================================================
