-------------------------- MODULE AuditChainProofs --------------------------
(***************************************************************************)
(* Proofs about AuditChain, for every number of writes and tenants, every  *)
(* maxChainAttempts and every maxRecords.                                  *)
(***************************************************************************)
EXTENDS AuditChain, SequenceTheorems, WellFoundedInduction, TLAPS

-----------------------------------------------------------------------------
(* The inductive invariant *)

HashAt(s, n) == IF n = 0 THEN Null ELSE s[n].hash

(* Record n of a trail s is the n-th, and sealed behind the one before it. *)
Linked(s, n) ==
  /\ s[n].sequence = n
  /\ s[n].previousHash = HashAt(s, n - 1)
  /\ s[n].hash = Hash(s[n].format, s[n].event, n, s[n].previousHash)

(* The array holds what was not pushed out, each tenant's records in the   *)
(* order of its trail.                                                     *)
InOrder(array, trails, pushed) ==
  /\ \A t \in Tenants : pushed[t] <= Len(trails[t])
  /\ \A i \in 1..Len(array) :
       /\ pushed[array[i][1]] < array[i][2]
       /\ array[i][2] <= Len(trails[array[i][1]])
  /\ \A i, j \in 1..Len(array) :
       i < j /\ array[i][1] = array[j][1] => array[i][2] < array[j][2]

ArrayOK ==
  /\ InOrder(records, trail, gone)
  /\ strategy = "optimistic" => (\A t \in Tenants : gone[t] = 0) /\ restarted = {}

(* A write that has read a head holds one that was its tenant's, and has   *)
(* attempts left.                                                          *)
WriteOK ==
  \A w \in Writers :
    /\ pc[w] # "idle" => tenant[w] \in Tenants
    /\ pc[w] = "idle" => attempts[w] = 0
    /\ pc[w] \in {"append", "insert"} => attempts[w] < MaxAttempts
    /\ pc[w] = "insert" =>
         /\ strategy = "optimistic"
         /\ head[w].sequence <= Len(trail[tenant[w]])
         /\ head[w].hash = HashAt(trail[tenant[w]], head[w].sequence)

(* Every trail that did not start again is one chain from record 1. *)
ChainOK ==
  \A t \in Tenants \ restarted : \A n \in 1..Len(trail[t]) : Linked(trail[t], n)

IInv == TypeOK /\ ArrayOK /\ WriteOK /\ ChainOK

-----------------------------------------------------------------------------
(* Digests and heads *)

Hashed == Formats \X (Writers \cup {Forged}) \X Nat

(* A digest is never the null head's and tells what was hashed. *)
LEMMA HashTells ==
  ASSUME NEW f \in Formats, NEW e \in Writers \cup {Forged}, NEW n \in Nat,
         NEW p \in Digest
  PROVE  /\ Hash(f, e, n, p) \in Digest
         /\ Hash(f, e, n, p) # Null
         /\ \A d \in Writers \cup {Forged} : Hash(f, d, n, p) = Hash(f, e, n, p) => d = e
<1>1. Digest = Seq(Hashed)
  BY DEF Digest, Hashed
<1>2. <<f, e, n>> \in Hashed
  BY DEF Hashed
<1>3. Hash(f, e, n, p) \in Digest /\ Hash(f, e, n, p) # Null
  BY <1>1, <1>2, AppendProperties DEF Hash, Null
<1>4. ASSUME NEW d \in Writers \cup {Forged}, Hash(f, d, n, p) = Hash(f, e, n, p)
      PROVE  d = e
  <2>1. <<f, d, n>> \in Hashed
    BY DEF Hashed
  <2>2. <<f, d, n>> = <<f, e, n>>
    BY <1>1, <1>2, <1>4, <2>1, AppendInjective DEF Hash
  <2>3. QED
    BY <2>2
<1>5. QED
  BY <1>3, <1>4

(* The records in the array are the end of the trail. *)
LEMMA ChainIsEnd ==
  ASSUME TypeOK, ArrayOK, NEW t \in Tenants
  PROVE  /\ Chain(t) \in Seq(Record)
         /\ Len(trail[t]) \in Nat /\ gone[t] \in 0..Len(trail[t])
         /\ Len(Chain(t)) = Len(trail[t]) - gone[t]
         /\ \A i \in 1..Len(Chain(t)) : Chain(t)[i] = trail[t][gone[t] + i]
<1>1. /\ trail[t] \in Seq(Record) /\ Len(trail[t]) \in Nat
      /\ gone[t] \in Nat /\ gone[t] <= Len(trail[t])
  BY DEF TypeOK, ArrayOK, InOrder
<1> DEFINE s == trail[t]  m == gone[t] + 1  n == Len(trail[t])
<1>2. \A i \in m..n : s[i] \in Record
  BY <1>1, ElementOfSeq
<1>3. m \in Int /\ n \in Int
  BY <1>1
<1> HIDE DEF s, m, n
<1>4. /\ SubSeq(s, m, n) \in Seq(Record)
      /\ Len(SubSeq(s, m, n)) = IF m <= n THEN n - m + 1 ELSE 0
      /\ \A i \in 1..n - m + 1 : SubSeq(s, m, n)[i] = s[m + i - 1]
  BY <1>2, <1>3, SubSeqProperties
<1>5. Len(SubSeq(s, m, n)) = n - m + 1
  BY <1>1, <1>3, <1>4 DEF m, n
<1>6. \A i \in 1..n - m + 1 : SubSeq(s, m, n)[i] = s[gone[t] + i]
  BY <1>1, <1>4 DEF m
<1>7. n - m + 1 = Len(trail[t]) - gone[t]
  BY <1>1 DEF m, n
<1>8. QED
  BY <1>1, <1>4, <1>5, <1>6, <1>7 DEF Chain, s, m, n

(* The head of a tenant is the end of its trail, unless all of it is gone. *)
LEMMA HeadIsEnd ==
  ASSUME TypeOK, ArrayOK, NEW t \in Tenants
  PROVE  /\ HeadOf(t) \in ChainHead
         /\ gone[t] = Len(trail[t]) => HeadOf(t) = NoHead
         /\ gone[t] # Len(trail[t]) =>
              /\ Len(trail[t]) \in 1..Len(trail[t])
              /\ HeadOf(t) = HeadAt(trail[t][Len(trail[t])])
<1>1. /\ Chain(t) \in Seq(Record)
      /\ Len(trail[t]) \in Nat /\ gone[t] \in 0..Len(trail[t])
      /\ Len(Chain(t)) = Len(trail[t]) - gone[t]
      /\ \A i \in 1..Len(Chain(t)) : Chain(t)[i] = trail[t][gone[t] + i]
  BY ChainIsEnd
<1>2. Chain(t) = <<>> <=> gone[t] = Len(trail[t])
  BY <1>1, EmptySeq
<1>3. CASE gone[t] = Len(trail[t])
  BY <1>2, <1>3, EmptySeq DEF HeadOf, NoHead, ChainHead, Null, Digest
<1>4. CASE gone[t] # Len(trail[t])
  <2>1. Len(Chain(t)) \in 1..Len(Chain(t)) /\ Len(trail[t]) \in 1..Len(trail[t])
    BY <1>1, <1>4
  <2>2. Last(Chain(t)) = trail[t][Len(trail[t])]
    BY <1>1, <2>1 DEF Last
  <2>3. Last(Chain(t)) \in Record
    BY <1>1, <2>1, ElementOfSeq DEF Last
  <2>4. HeadAt(Last(Chain(t))) \in ChainHead
    BY <2>3 DEF HeadAt, ChainHead, Record
  <2>5. QED
    BY <1>2, <1>4, <2>1, <2>2, <2>4 DEF HeadOf
<1>5. QED
  BY <1>3, <1>4

(* What is sealed behind a head. *)
LEMMA SealedIsRecord ==
  ASSUME NEW w \in Writers, NEW t \in Tenants, NEW h \in ChainHead
  PROVE  /\ Sealed(w, t, h) \in Record
         /\ Sealed(w, t, h).tenant = t /\ Sealed(w, t, h).event = w
         /\ Sealed(w, t, h).sequence = h.sequence + 1
         /\ Sealed(w, t, h).previousHash = h.hash
         /\ Sealed(w, t, h).hash =
              Hash(Sealed(w, t, h).format, w, h.sequence + 1, h.hash)
<1>1. FormatOf(w) \in Formats
  BY DEF FormatOf, Formats
<1>2. h.sequence + 1 \in Nat /\ h.hash \in Digest
  BY DEF ChainHead
<1>3. Hash(FormatOf(w), w, h.sequence + 1, h.hash) \in Digest
  BY <1>1, <1>2, HashTells
<1>4. QED
  BY <1>1, <1>2, <1>3 DEF Sealed, Record

-----------------------------------------------------------------------------
(* What storing a record does *)

(* The trail of its tenant ends with it, the array stays in order. *)
LEMMA StoreAppends ==
  ASSUME TypeOK, ArrayOK, NEW r \in Record, Store(r), strategy' = strategy
  PROVE  /\ trail' \in [Tenants -> Seq(Record)]
         /\ records' \in Seq(Tenants \X Nat) /\ gone' \in [Tenants -> Nat]
         /\ restarted' \subseteq Tenants
         /\ Len(trail'[r.tenant]) = Len(trail[r.tenant]) + 1
         /\ trail'[r.tenant][Len(trail[r.tenant]) + 1] = r
         /\ \A n \in 1..Len(trail[r.tenant]) :
              trail'[r.tenant][n] = trail[r.tenant][n]
         /\ \A t \in Tenants : t # r.tenant => trail'[t] = trail[t]
         /\ InOrder(records', trail', gone')
<1> DEFINE t == r.tenant  p == <<t, Len(trail[t]) + 1>>  all == Append(records, p)
<1>1. /\ t \in Tenants /\ trail[t] \in Seq(Record) /\ Len(trail[t]) \in Nat
      /\ records \in Seq(Tenants \X Nat) /\ Len(records) \in Nat
      /\ trail \in [Tenants -> Seq(Record)] /\ gone \in [Tenants -> Nat]
      /\ restarted \subseteq Tenants
  <2>1. t \in Tenants
    BY DEF Record
  <2>2. QED
    BY <2>1, LenProperties DEF TypeOK
<1>2. trail' = [trail EXCEPT ![t] = Append(@, r)]
  BY DEF Store
<1>3. /\ Append(trail[t], r) \in Seq(Record)
      /\ Len(Append(trail[t], r)) = Len(trail[t]) + 1
      /\ \A n \in 1..Len(trail[t]) : Append(trail[t], r)[n] = trail[t][n]
      /\ Append(trail[t], r)[Len(trail[t]) + 1] = r
  BY <1>1, AppendProperties
<1>4. trail'[t] = Append(trail[t], r) /\ \A u \in Tenants : u # t => trail'[u] = trail[u]
  BY <1>1, <1>2
<1>5. trail' \in [Tenants -> Seq(Record)]
  BY <1>1, <1>2, <1>3
<1>6. ASSUME NEW u \in Tenants
      PROVE  Len(trail[u]) \in Nat /\ Len(trail[u]) <= Len(trail'[u])
             /\ Len(trail'[u]) \in Nat
  <2>1. Len(trail[u]) \in Nat
    BY <1>1, LenProperties
  <2>2. CASE u = t
    BY <1>1, <1>3, <1>4, <2>2
  <2>3. CASE u # t
    BY <1>4, <2>1, <2>3
  <2>4. QED
    BY <2>1, <2>2, <2>3
<1>7. /\ p \in Tenants \X Nat /\ all \in Seq(Tenants \X Nat)
      /\ Len(all) = Len(records) + 1
      /\ \A i \in 1..Len(records) : all[i] = records[i]
      /\ all[Len(records) + 1] = p
  <2>1. p \in Tenants \X Nat
    BY <1>1
  <2>2. QED
    BY <1>1, <2>1, AppendProperties
<1>8. \A i \in 1..Len(all) : all[i][1] \in Tenants /\ all[i][2] \in Nat
  <2>1. \A i \in 1..Len(all) : all[i] \in Tenants \X Nat
    BY <1>7, ElementOfSeq
  <2>2. QED
    BY <2>1
<1>9. p[1] = t /\ p[2] = Len(trail[t]) + 1
  OBVIOUS
<1> HIDE DEF p, all
<1>10. InOrder(all, trail', gone)
  <2>1. \A u \in Tenants : gone[u] <= Len(trail[u])
    BY DEF ArrayOK, InOrder
  <2>2. \A u \in Tenants : gone[u] <= Len(trail'[u])
    BY <1>1, <1>6, <2>1
  <2>3. ASSUME NEW i \in 1..Len(all)
        PROVE  gone[all[i][1]] < all[i][2] /\ all[i][2] <= Len(trail'[all[i][1]])
    <3>1. CASE i \in 1..Len(records)
      <4>1. all[i] = records[i] /\ all[i][1] \in Tenants /\ all[i][2] \in Nat
        BY <1>7, <1>8, <3>1
      <4>2. gone[all[i][1]] < all[i][2] /\ all[i][2] <= Len(trail[all[i][1]])
        BY <3>1, <4>1 DEF ArrayOK, InOrder
      <4>3. QED
        BY <1>6, <4>1, <4>2
    <3>2. CASE i = Len(records) + 1
      <4>1. all[i][1] = t /\ all[i][2] = Len(trail[t]) + 1
        BY <1>7, <1>9, <3>2
      <4>2. QED
        BY <1>1, <1>3, <1>4, <2>1, <4>1
    <3>3. QED
      BY <1>1, <1>7, <3>1, <3>2
  <2>4. ASSUME NEW i \in 1..Len(all), NEW j \in 1..Len(all),
               i < j, all[i][1] = all[j][1]
        PROVE  all[i][2] < all[j][2]
    <3>0. i \in 1..Len(records)
      BY <1>1, <1>7, <2>4
    <3>1. i \in 1..Len(records) /\ all[i] = records[i]
      BY <1>7, <3>0
    <3>2. CASE j \in 1..Len(records)
      BY <1>7, <2>4, <3>1, <3>2 DEF ArrayOK, InOrder
    <3>3. CASE j = Len(records) + 1
      <4>1. all[i][1] = t /\ all[j][2] = Len(trail[t]) + 1
        BY <1>7, <1>9, <2>4, <3>3
      <4>2. all[i][2] <= Len(trail[t])
        BY <3>1, <4>1 DEF ArrayOK, InOrder
      <4>3. QED
        BY <1>1, <1>8, <4>1, <4>2
    <3>4. QED
      BY <1>1, <1>7, <3>2, <3>3
  <2>5. QED
    BY <2>2, <2>3, <2>4 DEF InOrder
<1>11. CASE strategy = "serialised" /\ Len(all) > MaxRecords
  <2>1. records' = Tail(all) /\ gone' = [gone EXCEPT ![all[1][1]] = all[1][2]]
    BY <1>11 DEF Store, all, p
  <2>2. Len(all) >= 1 /\ all # <<>> /\ 1 \in 1..Len(all)
    BY <1>1, <1>7, EmptySeq
  <2>3. /\ records' \in Seq(Tenants \X Nat) /\ Len(records') = Len(all) - 1
        /\ \A i \in 1..Len(records') : records'[i] = all[i + 1]
    BY <1>7, <2>1, <2>2, HeadTailProperties
  <2>4. gone' \in [Tenants -> Nat] /\ gone'[all[1][1]] = all[1][2]
        /\ \A u \in Tenants : u # all[1][1] => gone'[u] = gone[u]
    BY <1>1, <1>8, <2>1, <2>2
  <2>5. InOrder(records', trail', gone')
    <3>1. \A u \in Tenants : gone'[u] <= Len(trail'[u])
      BY <1>8, <1>10, <2>2, <2>4 DEF InOrder
    <3>2. ASSUME NEW i \in 1..Len(records')
          PROVE  /\ gone'[records'[i][1]] < records'[i][2]
                 /\ records'[i][2] <= Len(trail'[records'[i][1]])
      <4>1. i + 1 \in 1..Len(all) /\ 1 < i + 1 /\ records'[i] = all[i + 1]
        BY <1>1, <1>7, <2>3
      <4>2. CASE all[i + 1][1] = all[1][1]
        BY <1>8, <1>10, <2>2, <2>4, <4>1, <4>2 DEF InOrder
      <4>3. CASE all[i + 1][1] # all[1][1]
        BY <1>8, <1>10, <2>4, <4>1, <4>3 DEF InOrder
      <4>4. QED
        BY <4>2, <4>3
    <3>3. ASSUME NEW i \in 1..Len(records'), NEW j \in 1..Len(records'),
                 i < j, records'[i][1] = records'[j][1]
          PROVE  records'[i][2] < records'[j][2]
      <4>1. /\ i + 1 \in 1..Len(all) /\ j + 1 \in 1..Len(all) /\ i + 1 < j + 1
            /\ records'[i] = all[i + 1] /\ records'[j] = all[j + 1]
        BY <1>1, <1>7, <2>3, <3>3
      <4>2. QED
        BY <1>10, <3>3, <4>1 DEF InOrder
    <3>4. QED
      BY <3>1, <3>2, <3>3 DEF InOrder
  <2>6. QED
    BY <1>1, <1>3, <1>4, <1>5, <2>3, <2>4, <2>5 DEF Store
<1>12. CASE ~(strategy = "serialised" /\ Len(all) > MaxRecords)
  <2>1. records' = all /\ gone' = gone
    BY <1>12 DEF Store, all, p
  <2>2. QED
    BY <1>1, <1>3, <1>4, <1>5, <1>7, <1>10, <2>1 DEF Store
<1>13. QED
  BY <1>11, <1>12

-----------------------------------------------------------------------------
(* A step keeps the invariant *)

(* What an append stores. *)
Stored(w) ==
  Sealed(w, tenant[w], IF pc[w] = "insert" THEN head[w] ELSE HeadOf(tenant[w]))

(* Both kinds of append store one record of the write, and commit it. *)
LEMMA WriteStores ==
  ASSUME IInv, NEW w \in Writers, Append1(w) \/ Insert(w)
  PROVE  /\ tenant[w] \in Tenants /\ Stored(w) \in Record
         /\ Stored(w).tenant = tenant[w] /\ Stored(w).event = w
         /\ pc[w] \in {"append", "insert"} /\ pc' = [pc EXCEPT ![w] = "committed"]
         /\ UNCHANGED <<strategy, tenant, head, attempts>>
         /\ Store(Stored(w))
<1>1. CASE Append1(w)
  <2>1. pc[w] = "append" /\ tenant[w] \in Tenants
    BY <1>1 DEF Append1, Step, IInv, WriteOK
  <2>2. HeadOf(tenant[w]) \in ChainHead
    BY <2>1, HeadIsEnd DEF IInv
  <2>3. Stored(w) = Sealed(w, tenant[w], HeadOf(tenant[w]))
    BY <2>1 DEF Stored
  <2>4. QED
    BY <1>1, <2>1, <2>2, <2>3, SealedIsRecord DEF Append1, Step
<1>2. CASE Insert(w)
  <2>1. pc[w] = "insert" /\ tenant[w] \in Tenants /\ head[w] \in ChainHead
    BY <1>2 DEF Insert, Step, IInv, WriteOK, TypeOK
  <2>2. Stored(w) = Sealed(w, tenant[w], head[w])
    BY <2>1 DEF Stored
  <2>3. QED
    BY <1>2, <2>1, <2>2, SealedIsRecord DEF Insert, Step
<1>3. QED
  BY <1>1, <1>2

(* It is sealed behind the end of the trail, unless the trail starts again. *)
LEMMA StoredFollows ==
  ASSUME IInv, NEW w \in Writers, Append1(w) \/ Insert(w), tenant[w] \notin restarted'
  PROVE  /\ Stored(w).sequence = Len(trail[tenant[w]]) + 1
         /\ Stored(w).previousHash = HashAt(trail[tenant[w]], Len(trail[tenant[w]]))
         /\ Stored(w).hash = Hash(Stored(w).format, w, Stored(w).sequence,
                                  Stored(w).previousHash)
<1> DEFINE t == tenant[w]  n == Len(trail[t])
<1>1. t \in Tenants /\ Store(Stored(w)) /\ Stored(w).tenant = t
  BY WriteStores
<1>2. t \notin restarted /\ ~(Stored(w).sequence = 1 /\ gone[t] # 0)
  BY <1>1 DEF Store
<1>3. n \in Nat /\ gone[t] \in 0..n
  BY <1>1, ChainIsEnd DEF IInv
<1>4. CASE Append1(w)
  <2>1. pc[w] = "append"
    BY <1>4 DEF Append1, Step
  <2>2. HeadOf(t) \in ChainHead /\ Stored(w) = Sealed(w, t, HeadOf(t))
    BY <1>1, <2>1, HeadIsEnd DEF IInv, Stored
  <2>3. /\ Stored(w).sequence = HeadOf(t).sequence + 1
        /\ Stored(w).previousHash = HeadOf(t).hash
        /\ Stored(w).hash = Hash(Stored(w).format, w, HeadOf(t).sequence + 1,
                                 HeadOf(t).hash)
    BY <1>1, <2>2, SealedIsRecord
  <2>4. CASE gone[t] = n
    <3>1. HeadOf(t).sequence = 0 /\ HeadOf(t).hash = Null
      BY <1>1, <2>4, HeadIsEnd DEF IInv, NoHead
    <3>2. n = 0
      BY <1>2, <1>3, <2>3, <2>4, <3>1
    <3>3. QED
      BY <2>3, <3>1, <3>2 DEF HashAt
  <2>5. CASE gone[t] # n
    <3>1. n \in 1..n /\ HeadOf(t) = HeadAt(trail[t][n])
      BY <1>1, <2>5, HeadIsEnd DEF IInv
    <3>2. trail[t][n].sequence = n
      BY <1>1, <1>2, <3>1 DEF IInv, ChainOK, Linked
    <3>3. HeadOf(t).sequence = n /\ HeadOf(t).hash = trail[t][n].hash
      BY <3>1, <3>2 DEF HeadAt
    <3>4. QED
      BY <1>3, <2>3, <3>1, <3>3 DEF HashAt
  <2>6. QED
    BY <2>4, <2>5
<1>5. CASE Insert(w)
  <2>1. pc[w] = "insert" /\ ~Taken(t, head[w].sequence + 1)
    BY <1>5 DEF Insert, Step
  <2>2. /\ head[w] \in ChainHead /\ Stored(w) = Sealed(w, t, head[w])
        /\ head[w].sequence \in 0..n /\ head[w].hash = HashAt(trail[t], head[w].sequence)
        /\ gone[t] = 0
    BY <1>1, <1>3, <2>1 DEF IInv, TypeOK, WriteOK, ArrayOK, Stored, ChainHead
  <2>3. /\ Stored(w).sequence = head[w].sequence + 1
        /\ Stored(w).previousHash = head[w].hash
        /\ Stored(w).hash = Hash(Stored(w).format, w, head[w].sequence + 1, head[w].hash)
    BY <1>1, <2>2, SealedIsRecord
  <2>4. head[w].sequence = n
    <3>1. SUFFICES ASSUME head[w].sequence < n
                   PROVE  FALSE
      BY <1>3, <2>2
    <3>2. head[w].sequence + 1 \in 1..n
      BY <1>3, <2>2, <3>1
    <3>3. trail[t][head[w].sequence + 1].sequence = head[w].sequence + 1
      BY <1>1, <1>2, <3>2 DEF IInv, ChainOK, Linked
    <3>4. /\ Chain(t) \in Seq(Record) /\ Len(Chain(t)) = n
          /\ \A i \in 1..n : Chain(t)[i] = trail[t][i]
      <4>1. /\ Chain(t) \in Seq(Record) /\ Len(Chain(t)) = n - gone[t]
            /\ \A i \in 1..Len(Chain(t)) : Chain(t)[i] = trail[t][gone[t] + i]
        BY <1>1, ChainIsEnd DEF IInv
      <4>2. QED
        BY <1>3, <2>2, <4>1
    <3>5. Chain(t)[head[w].sequence + 1] \in Range(Chain(t))
      BY <3>2, <3>4, LenProperties DEF Range
    <3>6. QED
      BY <2>1, <3>2, <3>3, <3>4, <3>5 DEF Taken
  <2>5. QED
    BY <2>2, <2>3, <2>4
<1>6. QED
  BY <1>4, <1>5

(* A record stays linked when records are appended behind it. *)
LEMMA LinkedStays ==
  ASSUME NEW s, NEW u, NEW n \in Nat \ {0}, \A i \in 1..n : u[i] = s[i], Linked(s, n)
  PROVE  Linked(u, n)
<1>1. u[n] = s[n]
  OBVIOUS
<1>2. HashAt(u, n - 1) = HashAt(s, n - 1)
  <2>1. CASE n = 1
    BY <2>1 DEF HashAt
  <2>2. CASE n # 1
    <3>1. n - 1 \in 1..n
      BY <2>2
    <3>2. QED
      BY <3>1 DEF HashAt
  <2>3. QED
    BY <2>1, <2>2
<1>3. QED
  BY <1>1, <1>2 DEF Linked

(* An append keeps the invariant. *)
LEMMA StoreKeeps ==
  ASSUME IInv, NEW w \in Writers, Append1(w) \/ Insert(w)
  PROVE  IInv'
<1> DEFINE t == tenant[w]  r == Stored(w)  n == Len(trail[t])
<1>1. /\ t \in Tenants /\ r \in Record /\ r.tenant = t /\ r.event = w
      /\ pc[w] \in {"append", "insert"} /\ pc' = [pc EXCEPT ![w] = "committed"]
      /\ strategy' = strategy /\ tenant' = tenant /\ head' = head
      /\ attempts' = attempts /\ Store(r)
  BY WriteStores
<1> HIDE DEF t, r
<1>2. /\ trail' \in [Tenants -> Seq(Record)]
      /\ records' \in Seq(Tenants \X Nat) /\ gone' \in [Tenants -> Nat]
      /\ restarted' \subseteq Tenants
      /\ Len(trail'[t]) = n + 1 /\ trail'[t][n + 1] = r
      /\ \A i \in 1..n : trail'[t][i] = trail[t][i]
      /\ \A u \in Tenants : u # t => trail'[u] = trail[u]
      /\ InOrder(records', trail', gone')
  BY <1>1, StoreAppends DEF IInv
<1>3. n \in Nat /\ \A u \in Tenants : Len(trail[u]) \in Nat
  BY <1>1, LenProperties DEF IInv, TypeOK
<1>4. TypeOK'
  <2>1. pc' \in [Writers -> Stages]
    BY <1>1 DEF IInv, TypeOK, Stages, Finished
  <2>2. QED
    BY <1>1, <1>2, <2>1 DEF IInv, TypeOK
<1>5. ArrayOK'
  <2>1. ASSUME strategy = "optimistic"
        PROVE  gone' = gone /\ restarted' = restarted
    BY <1>1, <2>1 DEF Store, IInv, ArrayOK
  <2>2. QED
    BY <1>1, <1>2, <2>1 DEF IInv, ArrayOK
<1>6. WriteOK'
  <2>1. ASSUME NEW v \in Writers, pc'[v] = "insert"
        PROVE  /\ strategy' = "optimistic" /\ head'[v].sequence <= Len(trail'[tenant'[v]])
               /\ head'[v].hash = HashAt(trail'[tenant'[v]], head'[v].sequence)
    <3>1. /\ v # w /\ pc[v] = "insert" /\ tenant[v] \in Tenants
          /\ strategy = "optimistic" /\ head[v].sequence <= Len(trail[tenant[v]])
          /\ head[v].hash = HashAt(trail[tenant[v]], head[v].sequence)
          /\ head[v].sequence \in Nat
      BY <1>1, <2>1 DEF IInv, WriteOK, TypeOK, ChainHead
    <3>2. CASE tenant[v] = t
      <4>1. head[v].sequence <= Len(trail'[t])
        BY <1>2, <1>3, <3>1, <3>2
      <4>2. CASE head[v].sequence = 0
        BY <1>1, <3>1, <3>2, <4>1, <4>2 DEF HashAt
      <4>3. CASE head[v].sequence # 0
        <5>1. head[v].sequence \in 1..n
          BY <1>3, <3>1, <3>2, <4>3
        <5>2. QED
          BY <1>1, <1>2, <3>1, <3>2, <4>1, <5>1 DEF HashAt
      <4>4. QED
        BY <4>2, <4>3
    <3>3. CASE tenant[v] # t
      BY <1>1, <1>2, <3>1, <3>3 DEF HashAt
    <3>4. QED
      BY <3>2, <3>3
  <2>2. ASSUME NEW v \in Writers
        PROVE  /\ pc'[v] # "idle" => tenant'[v] \in Tenants
               /\ pc'[v] = "idle" => attempts'[v] = 0
               /\ pc'[v] \in {"append", "insert"} => attempts'[v] < MaxAttempts
    <3>1. pc'[v] = pc[v] \/ (v = w /\ pc'[v] = "committed")
      BY <1>1 DEF IInv, TypeOK
    <3>2. QED
      BY <1>1, <3>1 DEF IInv, WriteOK, t
  <2>3. QED
    BY <2>1, <2>2 DEF WriteOK
<1>7. ChainOK'
  <2> SUFFICES ASSUME NEW u \in Tenants, u \notin restarted', NEW m \in 1..Len(trail'[u])
               PROVE  Linked(trail'[u], m)
    BY DEF ChainOK
  <2>1. u \notin restarted
    BY <1>1 DEF Store
  <2>2. CASE u # t
    BY <1>2, <2>1, <2>2 DEF IInv, ChainOK
  <2>3. CASE u = t /\ m \in 1..n
    <3>1. Linked(trail[t], m)
      BY <2>1, <2>3 DEF IInv, ChainOK
    <3>2. \A i \in 1..m : trail'[t][i] = trail[t][i]
      BY <1>2, <1>3, <2>3
    <3>3. QED
      BY <1>3, <2>3, <3>1, <3>2, LinkedStays
  <2>4. CASE u = t /\ m = n + 1
    <3>1. /\ r.sequence = m /\ r.previousHash = HashAt(trail[t], n)
          /\ r.hash = Hash(r.format, w, r.sequence, r.previousHash)
      BY <2>4, StoredFollows DEF t, r
    <3>2. HashAt(trail'[t], n) = HashAt(trail[t], n)
      <4>1. CASE n = 0
        BY <4>1 DEF HashAt
      <4>2. CASE n # 0
        <5>1. n \in 1..n
          BY <1>3, <4>2
        <5>2. QED
          BY <1>2, <5>1 DEF HashAt
      <4>3. QED
        BY <4>1, <4>2
    <3>3. m - 1 = n /\ trail'[t][m] = r
      BY <1>2, <1>3, <2>4
    <3>4. QED
      BY <1>1, <2>4, <3>1, <3>2, <3>3 DEF Linked
  <2>5. QED
    BY <1>1, <1>2, <1>3, <2>2, <2>3, <2>4
<1>8. QED
  BY <1>4, <1>5, <1>6, <1>7 DEF IInv

(* Where nothing is pushed out, the head of a tenant counts its trail. *)
LEMMA HeadTells ==
  ASSUME IInv, NEW t \in Tenants, strategy = "optimistic"
  PROVE  /\ HeadOf(t).sequence = Len(trail[t])
         /\ HeadOf(t).hash = HashAt(trail[t], Len(trail[t]))
<1> DEFINE n == Len(trail[t])
<1>1. gone[t] = 0 /\ t \notin restarted /\ TypeOK /\ ArrayOK
  BY DEF IInv, ArrayOK
<1>2. CASE n = 0
  BY <1>1, <1>2, HeadIsEnd DEF NoHead, HashAt
<1>3. CASE n # 0
  <2>1. n \in 1..n /\ HeadOf(t) = HeadAt(trail[t][n])
    BY <1>1, <1>3, HeadIsEnd
  <2>2. trail[t][n].sequence = n
    BY <1>1, <2>1 DEF Linked, IInv, ChainOK
  <2>3. QED
    BY <1>3, <2>1, <2>2 DEF HeadAt, HashAt
<1>4. QED
  BY <1>2, <1>3

(* So does every other step. *)
LEMMA InvStep ==
  ASSUME IInv, [Next]_vars
  PROVE  IInv'
<1> USE AuditAssumption DEF IInv, TypeOK, ArrayOK, WriteOK, ChainOK, Stages, Finished
<1>1. ASSUME NEW w \in Writers, NEW t \in Tenants, Begin(w, t) PROVE IInv'
  BY <1>1 DEF Begin, Step
<1>2. ASSUME NEW w \in Writers, Append1(w) PROVE IInv'
  BY <1>2, StoreKeeps
<1>3. ASSUME NEW w \in Writers, ReadHead(w) PROVE IInv'
  <2> DEFINE t == tenant[w]  n == Len(trail[t])
  <2>1. /\ t \in Tenants /\ strategy = "optimistic" /\ gone[t] = 0 /\ t \notin restarted
        /\ pc[w] = "append"
    BY <1>3 DEF ReadHead, Step
  <2>2. n \in Nat /\ HeadOf(t) \in ChainHead
    BY <2>1, HeadIsEnd, ChainIsEnd
  <2>3. HeadOf(t).sequence = n /\ HeadOf(t).hash = HashAt(trail[t], n)
    BY <2>1, HeadTells
  <2> HIDE DEF n
  <2>4. /\ head' = [head EXCEPT ![w] = HeadOf(t)] /\ pc' = [pc EXCEPT ![w] = "insert"]
        /\ UNCHANGED <<strategy, trail, records, tenant, attempts, gone, restarted>>
    BY <1>3 DEF ReadHead, Step
  <2>5. TypeOK' /\ ArrayOK' /\ ChainOK'
    BY <2>2, <2>4
  <2>6. WriteOK'
    BY <2>1, <2>2, <2>3, <2>4 DEF n
  <2>7. QED
    BY <2>5, <2>6
<1>4. ASSUME NEW w \in Writers, Insert(w) PROVE IInv'
  BY <1>4, StoreKeeps
<1>5. ASSUME NEW w \in Writers, Conflict(w) PROVE IInv'
  BY <1>5 DEF Conflict, Step
<1>6. ASSUME NEW w \in Writers, Deliver(w) PROVE IInv'
  BY <1>6 DEF Deliver, Step
<1>7. ASSUME NEW w \in Writers, Fail(w) PROVE IInv'
  BY <1>7 DEF Fail, Step
<1>8. CASE UNCHANGED vars
  BY <1>8 DEF vars
<1> HIDE DEF IInv
<1>9. QED
  BY <1>1, <1>2, <1>3, <1>4, <1>5, <1>6, <1>7, <1>8 DEF Next, Proceed

(* The invariant holds of the empty store, *)
LEMMA InvInit ==
  ASSUME Init
  PROVE  IInv
<1>1. \A t \in Tenants : trail[t] = <<>> /\ Len(trail[t]) = 0 /\ gone[t] = 0
  BY EmptySeq DEF Init
<1>2. records = <<>> /\ Len(records) = 0 /\ restarted = {}
  BY EmptySeq DEF Init
<1>3. NoHead \in ChainHead
  BY EmptySeq DEF NoHead, ChainHead, Null, Digest
<1>4. trail \in [Tenants -> Seq(Record)] /\ records \in Seq(Tenants \X Nat)
  BY EmptySeq DEF Init
<1>5. TypeOK
  BY AuditAssumption, <1>3, <1>4 DEF Init, TypeOK, Stages
<1>6. ArrayOK
  BY <1>1, <1>2 DEF ArrayOK, InOrder
<1>7. WriteOK
  BY AuditAssumption DEF Init, WriteOK
<1>8. ChainOK
  BY <1>1 DEF ChainOK
<1>9. QED
  BY <1>5, <1>6, <1>7, <1>8 DEF IInv

(* and so always. *)
LEMMA Inductive == Spec => []IInv
BY InvInit, InvStep, PTL DEF Spec

(* The type invariant: every write is at one of the stages of write and    *)
(* every tenant's trail holds sealed records only.                         *)
THEOREM TypeCorrect == Spec => []TypeOK
<1>1. IInv => TypeOK
  BY DEF IInv
<1>2. QED
  BY <1>1, Inductive, PTL

-----------------------------------------------------------------------------
(* verifyChain finds nothing wrong with a trail *)

(* What a walk of the array resumes from. *)
LEMMA CheckpointTells ==
  ASSUME IInv, NEW t \in Tenants \ restarted
  PROVE  /\ Checkpoint(t).sequence = gone[t]
         /\ Checkpoint(t).hash = HashAt(trail[t], gone[t])
         /\ Checkpoint(t) = NoHead <=> gone[t] = 0
<1>1. gone[t] \in 0..Len(trail[t]) /\ Len(trail[t]) \in Nat
  BY ChainIsEnd DEF IInv
<1>2. CASE gone[t] = 0
  BY <1>2 DEF Checkpoint, NoHead, HashAt
<1>3. CASE gone[t] # 0
  <2>1. gone[t] \in 1..Len(trail[t])
    BY <1>1, <1>3
  <2>2. Linked(trail[t], gone[t])
    BY <2>1 DEF IInv, ChainOK
  <2>3. Checkpoint(t) = HeadAt(trail[t][gone[t]])
    BY <1>3 DEF Checkpoint
  <2>4. Checkpoint(t).sequence = gone[t] /\ Checkpoint(t).hash = trail[t][gone[t]].hash
    BY <2>2, <2>3 DEF HeadAt, Linked
  <2>5. QED
    BY <1>3, <2>4 DEF NoHead, HashAt
<1>4. QED
  BY <1>2, <1>3

(* Record i of the array is the one after record i - 1 or the checkpoint. *)
LEMMA Follows ==
  ASSUME IInv, NEW t \in Tenants \ restarted, NEW i \in 1..Len(Chain(t))
  PROVE  /\ Chain(t)[i] \in Record
         /\ Chain(t)[i].sequence = gone[t] + i
         /\ Chain(t)[i].previousHash =
              IF i > 1 THEN Chain(t)[i - 1].hash ELSE Checkpoint(t).hash
         /\ Chain(t)[i].hash = Hash(Chain(t)[i].format, Chain(t)[i].event,
                                    Chain(t)[i].sequence, Chain(t)[i].previousHash)
<1>1. /\ Chain(t) \in Seq(Record) /\ Len(trail[t]) \in Nat
      /\ gone[t] \in 0..Len(trail[t])
      /\ Len(Chain(t)) = Len(trail[t]) - gone[t]
      /\ \A j \in 1..Len(Chain(t)) : Chain(t)[j] = trail[t][gone[t] + j]
  BY ChainIsEnd DEF IInv
<1> DEFINE n == gone[t] + i
<1>2. n \in 1..Len(trail[t]) /\ n - 1 \in Nat /\ n # 0
  BY <1>1
<1>3. Chain(t)[i] = trail[t][n] /\ Linked(trail[t], n)
  BY <1>1, <1>2 DEF IInv, ChainOK
<1>4. Chain(t)[i] \in Record
  BY <1>1, ElementOfSeq
<1>5. CASE i = 1
  <2>1. n - 1 = gone[t]
    BY <1>1, <1>5
  <2>2. QED
    BY <1>3, <1>4, <1>5, <2>1, CheckpointTells DEF Linked
<1>6. CASE i # 1
  <2>1. i - 1 \in 1..Len(Chain(t)) /\ n - 1 = gone[t] + (i - 1) /\ n - 1 # 0 /\ i > 1
    BY <1>1, <1>6
  <2>2. Chain(t)[i - 1] = trail[t][n - 1]
    BY <1>1, <2>1
  <2>3. QED
    BY <1>3, <1>4, <2>1, <2>2 DEF Linked, HashAt
<1>7. QED
  BY <1>5, <1>6

(* Hence every check of the walk passes. *)
LEMMA ChecksPass ==
  ASSUME IInv, NEW t \in Tenants \ restarted, NEW i \in 1..Len(Chain(t))
  PROVE  Check(Chain(t), i, Checkpoint(t), Formats) = "ok"
<1> DEFINE c == Chain(t)  from == Checkpoint(t)
<1>1. /\ c[i] \in Record /\ c[i].sequence = gone[t] + i
      /\ c[i].previousHash = IF i > 1 THEN c[i - 1].hash ELSE from.hash
      /\ c[i].hash = Hash(c[i].format, c[i].event, c[i].sequence, c[i].previousHash)
  BY Follows
<1>2. gone[t] \in Nat /\ i \in Nat /\ from.sequence = gone[t]
  BY CheckpointTells, ChainIsEnd DEF IInv, TypeOK
<1>3. CASE i = 1
  BY <1>1, <1>2, <1>3 DEF Check, Record
<1>4. CASE i # 1
  <2>1. i - 1 \in 1..Len(c) /\ i > 1
    BY <1>4
  <2>2. c[i - 1].sequence = gone[t] + (i - 1)
    BY <2>1, Follows
  <2>3. c[i].sequence = c[i - 1].sequence + 1
    BY <1>1, <1>2, <2>2
  <2>4. QED
    BY <1>1, <2>1, <2>3 DEF Check, Record
<1>5. QED
  BY <1>3, <1>4

(* The trail of every tenant verifies, after any interleaving of writers,  *)
(* conflicts, crashes and lost answers, under either strategy: a write     *)
(* never makes the tamper alarm fire.                                      *)
THEOREM ChainVerifiesCorrect == Spec => []ChainVerifies
<1>1. ASSUME IInv PROVE ChainVerifies
  <2>1. ASSUME NEW t \in Tenants \ restarted
        PROVE  VerifyChain(Chain(t), Checkpoint(t), Formats)
                 = [code |-> "valid", checked |-> Len(Chain(t))]
    <3>1. DOMAIN Chain(t) = 1..Len(Chain(t))
      BY <1>1, ChainIsEnd, LenProperties DEF IInv
    <3>2. \A i \in DOMAIN Chain(t) : Check(Chain(t), i, Checkpoint(t), Formats) = "ok"
      BY <1>1, <3>1, ChecksPass
    <3>3. QED
      BY <3>2 DEF VerifyChain
  <2>2. QED
    BY <2>1 DEF ChainVerifies
<1>2. QED
  BY <1>1, Inductive, PTL

-----------------------------------------------------------------------------
(* and finds every tampering *)

(* The records of evidence: as sealed, but for the event. *)
Row == [tenant: Tenants, event: Writers \cup {Forged}, sequence: Nat, format: Formats,
        previousHash: Digest, hash: Digest]

(* The walk stops somewhere. *)
LEMMA MinIsLeast ==
  ASSUME NEW S \in SUBSET Nat, S # {}
  PROVE  Min(S) \in S
<1>1. PICK x \in S : \A y \in S : ~(<<y, x>> \in OpToRel(<, Nat))
  BY NatLessThanWellFounded, WFMin
<1>2. ASSUME NEW y \in S PROVE x <= y
  <2>1. <<y, x>> \in OpToRel(<, Nat) <=> y < x
    BY DEF OpToRel
  <2>2. y \in Nat /\ x \in Nat
    OBVIOUS
  <2>3. ~(y < x)
    BY <1>1, <2>1
  <2>4. QED
    BY <2>2, <2>3
<1>3. \E z \in S : \A y \in S : z <= y
  BY <1>2
<1>4. QED
  BY <1>3 DEF Min

(* One record that fails a check is enough for the walk to stop with a     *)
(* code that says why, since every format is known to it.                  *)
LEMMA OneIsEnough ==
  ASSUME NEW rows \in Seq(Row), NEW from, NEW i \in 1..Len(rows),
         Check(rows, i, from, Formats) # "ok"
  PROVE  VerifyChain(rows, from, Formats).code
           \in {"SEQUENCE_GAP", "LINK_MISMATCH", "DIGEST_MISMATCH"}
<1> DEFINE broken == {j \in DOMAIN rows : Check(rows, j, from, Formats) # "ok"}
<1>1. DOMAIN rows = 1..Len(rows) /\ Len(rows) \in Nat
  BY LenProperties
<1>2. i \in broken /\ broken \in SUBSET Nat
  BY <1>1
<1>3. Min(broken) \in broken
  BY <1>2, MinIsLeast
<1> DEFINE j == Min(broken)
<1>4. rows[j] \in Row /\ Check(rows, j, from, Formats) # "ok"
  BY <1>1, <1>3, ElementOfSeq
<1>5. rows[j].format \in Formats
  BY <1>4 DEF Row
<1>6. Check(rows, j, from, Formats)
        \in {"SEQUENCE_GAP", "LINK_MISMATCH", "DIGEST_MISMATCH"}
  BY <1>4, <1>5 DEF Check
<1>7. VerifyChain(rows, from, Formats).code = Check(rows, j, from, Formats)
  BY <1>2 DEF VerifyChain
<1>8. QED
  BY <1>6, <1>7

(* A record where the one before it should be. *)
LEMMA SkipShows ==
  ASSUME IInv, NEW t \in Tenants \ restarted, NEW rows, NEW i \in Nat \ {0},
         i + 1 \in 1..Len(Chain(t)), rows[i] = Chain(t)[i + 1],
         i > 1 => rows[i - 1] = Chain(t)[i - 1]
  PROVE  Check(rows, i, Checkpoint(t), Formats) # "ok"
<1> DEFINE c == Chain(t)  from == Checkpoint(t)
<1>1. Len(c) \in Nat /\ gone[t] \in Nat
  BY ChainIsEnd DEF IInv
<1>2. i \in 1..Len(c) /\ i + 1 > 1 /\ (i + 1) - 1 = i
  BY <1>1
<1>3. c[i + 1].sequence = gone[t] + (i + 1) /\ c[i + 1].previousHash = c[i].hash
  BY <1>2, Follows
<1>4. CASE i > 1
  <2>1. i - 1 \in 1..Len(c)
    BY <1>1, <1>2, <1>4
  <2>2. c[i - 1].sequence = gone[t] + (i - 1)
    BY <2>1, Follows
  <2>3. rows[i].sequence # rows[i - 1].sequence + 1
    BY <1>1, <1>3, <1>4, <2>2
  <2>4. QED
    BY <1>4, <2>3 DEF Check
<1>5. CASE ~(i > 1) /\ gone[t] # 0
  <2>1. from # NoHead /\ from.sequence = gone[t] /\ i = 1
    BY <1>1, <1>5, CheckpointTells
  <2>2. rows[i].sequence # from.sequence + 1
    BY <1>1, <1>3, <2>1
  <2>3. QED
    BY <1>5, <2>1, <2>2 DEF Check
<1>6. CASE ~(i > 1) /\ gone[t] = 0
  <2>1. from = NoHead /\ from.hash = Null
    BY <1>6, CheckpointTells DEF NoHead
  <2>2. /\ c[i] \in Record
        /\ c[i].hash = Hash(c[i].format, c[i].event, c[i].sequence, c[i].previousHash)
    BY <1>2, Follows
  <2>3. c[i].hash # Null
    BY <2>2, HashTells DEF Record
  <2>4. rows[i].previousHash # from.hash
    BY <1>3, <2>1, <2>3
  <2>5. QED
    BY <1>6, <2>1, <2>4 DEF Check
<1>7. QED
  BY <1>4, <1>5, <1>6

(* A record whose event nobody wrote. *)
LEMMA ForgeryShows ==
  ASSUME IInv, NEW t \in Tenants \ restarted, NEW rows, NEW i \in 1..Len(Chain(t)),
         rows[i] = [Chain(t)[i] EXCEPT !.event = Forged]
  PROVE  Check(rows, i, Checkpoint(t), Formats) # "ok"
<1> DEFINE r == Chain(t)[i]  f == rows[i]
<1>1. /\ r \in Record
      /\ r.hash = Hash(r.format, r.event, r.sequence, r.previousHash)
  BY Follows
<1>2. /\ r.format \in Formats /\ r.event \in Writers /\ r.sequence \in Nat
      /\ r.previousHash \in Digest
  BY <1>1 DEF Record
<1>3. /\ f.event = Forged /\ f.format = r.format /\ f.sequence = r.sequence
      /\ f.previousHash = r.previousHash /\ f.hash = r.hash
  BY <1>1 DEF Record
<1>4. f.hash # Hash(f.format, f.event, f.sequence, f.previousHash)
  <2>1. Hash(r.format, Forged, r.sequence, r.previousHash) = r.hash => Forged = r.event
    BY <1>1, <1>2, HashTells
  <2>2. QED
    BY <1>2, <1>3, <2>1, AuditAssumption
<1>5. QED
  BY <1>4 DEF Check

(* Where a record was removed is the one behind it, *)
LEMMA RemoveAtTells ==
  ASSUME NEW S, NEW s \in Seq(S), NEW i \in 1..(Len(s) - 1)
  PROVE  /\ RemoveAt(s, i) \in Seq(S) /\ Len(RemoveAt(s, i)) = Len(s) - 1
         /\ RemoveAt(s, i)[i] = s[i + 1]
         /\ i > 1 => RemoveAt(s, i)[i - 1] = s[i - 1]
<1> DEFINE a == SubSeq(s, 1, i - 1)  b == SubSeq(s, i + 1, Len(s))
<1>1. Len(s) \in Nat /\ i \in Nat /\ i >= 1 /\ i < Len(s)
  BY LenProperties
<1>2. \A j \in 1..Len(s) : s[j] \in S
  BY ElementOfSeq
<1>3. /\ a \in Seq(S) /\ Len(a) = i - 1
      /\ \A j \in 1..(i - 1) : a[j] = s[j]
  <2>1. \A j \in 1..(i - 1) : s[j] \in S
    BY <1>1, <1>2
  <2>2. 1 \in Int /\ i - 1 \in Int
    BY <1>1
  <2>3. /\ a \in Seq(S) /\ Len(a) = IF 1 <= i - 1 THEN (i - 1) - 1 + 1 ELSE 0
        /\ \A j \in 1..((i - 1) - 1 + 1) : a[j] = s[1 + j - 1]
    BY <2>1, <2>2, SubSeqProperties
  <2>4. QED
    BY <1>1, <2>3
<1>4. /\ b \in Seq(S) /\ Len(b) = Len(s) - i /\ b[1] = s[i + 1]
  <2>1. \A j \in (i + 1)..Len(s) : s[j] \in S
    BY <1>1, <1>2
  <2>2. i + 1 \in Int /\ Len(s) \in Int
    BY <1>1
  <2>3. /\ b \in Seq(S) /\ Len(b) = IF i + 1 <= Len(s) THEN Len(s) - (i + 1) + 1 ELSE 0
        /\ \A j \in 1..(Len(s) - (i + 1) + 1) : b[j] = s[(i + 1) + j - 1]
    BY <2>1, <2>2, SubSeqProperties
  <2>4. 1 \in 1..(Len(s) - (i + 1) + 1) /\ (i + 1) + 1 - 1 = i + 1
    BY <1>1
  <2>5. QED
    BY <1>1, <2>3, <2>4
<1> HIDE DEF a, b
<1>5. /\ a \o b \in Seq(S) /\ Len(a \o b) = Len(a) + Len(b)
      /\ \A j \in 1..Len(a) + Len(b) :
           (a \o b)[j] = IF j <= Len(a) THEN a[j] ELSE b[j - Len(a)]
  BY <1>3, <1>4, ConcatProperties
<1>6. (a \o b)[i] = b[1]
  <2>1. i \in 1..Len(a) + Len(b) /\ ~(i <= Len(a)) /\ i - Len(a) = 1
    BY <1>1, <1>3, <1>4
  <2>2. QED
    BY <1>5, <2>1
<1>7. i > 1 => (a \o b)[i - 1] = s[i - 1]
  <2> SUFFICES ASSUME i > 1 PROVE (a \o b)[i - 1] = s[i - 1]
    OBVIOUS
  <2>1. i - 1 \in 1..Len(a) + Len(b) /\ i - 1 <= Len(a) /\ i - 1 \in 1..(i - 1)
    BY <1>1, <1>3, <1>4
  <2>2. QED
    BY <1>3, <1>5, <2>1
<1>8. QED
  BY <1>1, <1>3, <1>4, <1>5, <1>6, <1>7 DEF RemoveAt, a, b

(* and where one was inserted is that one. *)
LEMMA InsertAtTells ==
  ASSUME NEW S, NEW s \in Seq(S), NEW i \in 1..Len(s), NEW e \in S
  PROVE  /\ InsertAt(s, i, e) \in Seq(S) /\ Len(InsertAt(s, i, e)) = Len(s) + 1
         /\ InsertAt(s, i, e)[i] = e
<1> DEFINE a == SubSeq(s, 1, i - 1)  b == SubSeq(s, i, Len(s))
<1>1. Len(s) \in Nat /\ i \in Nat /\ i >= 1 /\ i <= Len(s)
  BY LenProperties
<1>2. \A j \in 1..Len(s) : s[j] \in S
  BY ElementOfSeq
<1>3. a \in Seq(S) /\ Len(a) = i - 1
  <2>1. \A j \in 1..(i - 1) : s[j] \in S
    BY <1>1, <1>2
  <2>2. 1 \in Int /\ i - 1 \in Int
    BY <1>1
  <2>3. a \in Seq(S) /\ Len(a) = IF 1 <= i - 1 THEN (i - 1) - 1 + 1 ELSE 0
    BY <2>1, <2>2, SubSeqProperties
  <2>4. QED
    BY <1>1, <2>3
<1>4. b \in Seq(S) /\ Len(b) = Len(s) - i + 1
  <2>1. \A j \in i..Len(s) : s[j] \in S
    BY <1>1, <1>2
  <2>2. i \in Int /\ Len(s) \in Int
    BY <1>1
  <2>3. b \in Seq(S) /\ Len(b) = IF i <= Len(s) THEN Len(s) - i + 1 ELSE 0
    BY <2>1, <2>2, SubSeqProperties
  <2>4. QED
    BY <1>1, <2>3
<1> HIDE DEF a, b
<1>5. <<e>> \in Seq(S) /\ Len(<<e>>) = 1 /\ <<e>>[1] = e
  OBVIOUS
<1>6. /\ a \o <<e>> \in Seq(S) /\ Len(a \o <<e>>) = i
      /\ (a \o <<e>>)[i] = e
  <2>1. /\ a \o <<e>> \in Seq(S) /\ Len(a \o <<e>>) = Len(a) + Len(<<e>>)
        /\ \A j \in 1..Len(a) + Len(<<e>>) :
             (a \o <<e>>)[j] = IF j <= Len(a) THEN a[j] ELSE <<e>>[j - Len(a)]
    BY <1>3, <1>5, ConcatProperties
  <2>2. i \in 1..Len(a) + Len(<<e>>) /\ ~(i <= Len(a)) /\ i - Len(a) = 1
    BY <1>1, <1>3, <1>5
  <2>3. (a \o <<e>>)[i] = <<e>>[1]
    BY <2>1, <2>2
  <2>4. QED
    BY <1>1, <1>3, <1>5, <2>1, <2>3
<1> DEFINE d == a \o <<e>>
<1> HIDE DEF d
<1>7. d \in Seq(S) /\ Len(d) = i /\ d[i] = e
  BY <1>6 DEF d
<1>8. /\ d \o b \in Seq(S) /\ Len(d \o b) = Len(d) + Len(b)
      /\ \A j \in 1..Len(d) + Len(b) :
           (d \o b)[j] = IF j <= Len(d) THEN d[j] ELSE b[j - Len(d)]
  BY <1>4, <1>7, ConcatProperties
<1>9. i \in 1..Len(d) + Len(b) /\ i <= Len(d)
  BY <1>1, <1>4, <1>7
<1>10. (d \o b)[i] = e
  BY <1>7, <1>8, <1>9
<1>11. InsertAt(s, i, e) = d \o b
  BY DEF InsertAt, a, b, d
<1>12. QED
  BY <1>1, <1>4, <1>7, <1>8, <1>10, <1>11

(* A record removed before the last one, moved, altered or inserted is     *)
(* detected, at the front of a resumed walk too.                           *)
THEOREM TamperingShowsCorrect == Spec => []TamperingShows
<1>1. ASSUME IInv, NEW t \in Tenants \ restarted, NEW evidence \in Tampered(Chain(t))
      PROVE  VerifyChain(evidence, Checkpoint(t), Formats).code
               \in {"SEQUENCE_GAP", "LINK_MISMATCH", "DIGEST_MISMATCH"}
  <2> DEFINE c == Chain(t)  forged(i) == [c[i] EXCEPT !.event = Forged]
  <2>1. c \in Seq(Row) /\ Len(c) \in Nat /\ DOMAIN c = 1..Len(c)
    <3>1. c \in Seq(Record) /\ Len(c) \in Nat /\ DOMAIN c = 1..Len(c)
      BY <1>1, ChainIsEnd, LenProperties DEF IInv
    <3>2. \A r \in Record : r \in Row
      BY DEF Record, Row
    <3>3. \A i \in 1..Len(c) : c[i] \in Row
      BY <3>1, <3>2, ElementOfSeq
    <3>4. QED
      BY <3>1, <3>3
  <2>2. \A i \in 1..Len(c) : forged(i) \in Row
    <3>1. \A i \in 1..Len(c) : c[i] \in Row
      BY <2>1, ElementOfSeq
    <3>2. QED
      BY <3>1 DEF Row
  <2>3. CASE evidence \in Removed(c)
    <3>1. PICK i \in 1..(Len(c) - 1) : evidence = RemoveAt(c, i)
      BY <2>3 DEF Removed
    <3>2. i \in Nat \ {0} /\ i + 1 \in 1..Len(c) /\ i \in 1..(Len(c) - 1)
      BY <2>1
    <3>3. /\ evidence \in Seq(Row) /\ Len(evidence) = Len(c) - 1
          /\ evidence[i] = c[i + 1]
          /\ i > 1 => evidence[i - 1] = c[i - 1]
      BY <2>1, <3>1, RemoveAtTells
    <3>4. Check(evidence, i, Checkpoint(t), Formats) # "ok"
      BY <1>1, <3>2, <3>3, SkipShows
    <3>5. i \in 1..Len(evidence)
      BY <3>2, <3>3
    <3>6. QED
      BY <3>3, <3>4, <3>5, OneIsEnough
  <2>4. CASE evidence \in Swapped(c)
    <3>1. PICK i \in 1..(Len(c) - 1) :
            evidence = [c EXCEPT ![i] = c[i + 1], ![i + 1] = c[i]]
      BY <2>4 DEF Swapped
    <3>2. /\ i \in Nat \ {0} /\ i \in 1..Len(c) /\ i + 1 \in 1..Len(c) /\ i # i + 1
          /\ i > 1 => i - 1 \in 1..Len(c) /\ i - 1 # i /\ i - 1 # i + 1
      BY <2>1
    <3> DEFINE b == [c EXCEPT ![i] = c[i + 1]]
    <3>3. c[i] \in Row /\ c[i + 1] \in Row
      BY <2>1, <3>2, ElementOfSeq
    <3>4. /\ b \in Seq(Row) /\ Len(b) = Len(c)
          /\ \A j \in 1..Len(c) : b[j] = IF j = i THEN c[i + 1] ELSE c[j]
      BY <2>1, <3>2, <3>3, ExceptSeq
    <3> HIDE DEF b
    <3>5. /\ [b EXCEPT ![i + 1] = c[i]] \in Seq(Row)
          /\ Len([b EXCEPT ![i + 1] = c[i]]) = Len(b)
          /\ \A j \in 1..Len(b) :
               [b EXCEPT ![i + 1] = c[i]][j] = IF j = i + 1 THEN c[i] ELSE b[j]
      BY <3>2, <3>3, <3>4, ExceptSeq
    <3>6. evidence = [b EXCEPT ![i + 1] = c[i]]
      BY <3>1 DEF b
    <3>7. /\ evidence \in Seq(Row) /\ Len(evidence) = Len(c)
          /\ evidence[i] = c[i + 1]
          /\ i > 1 => evidence[i - 1] = c[i - 1]
      BY <3>2, <3>4, <3>5, <3>6
    <3>8. Check(evidence, i, Checkpoint(t), Formats) # "ok"
      BY <1>1, <3>2, <3>7, SkipShows
    <3>9. QED
      BY <3>2, <3>7, <3>8, OneIsEnough
  <2>5. CASE evidence \in Altered(c)
    <3>1. PICK i \in 1..Len(c) : evidence = [c EXCEPT ![i].event = Forged]
      BY <2>1, <2>5 DEF Altered
    <3>2. evidence = [c EXCEPT ![i] = forged(i)]
      BY <3>1
    <3>3. /\ evidence \in Seq(Row) /\ Len(evidence) = Len(c)
          /\ evidence[i] = forged(i)
      <4>1. forged(i) \in Row
        BY <2>2
      <4> HIDE DEF forged
      <4>2. QED
        BY <2>1, <3>2, <4>1, ExceptSeq
    <3>4. Check(evidence, i, Checkpoint(t), Formats) # "ok"
      BY <1>1, <3>3, ForgeryShows
    <3>5. QED
      BY <3>3, <3>4, OneIsEnough
  <2>6. CASE evidence \in Inserted(c)
    <3>1. PICK i \in 1..Len(c) : evidence = InsertAt(c, i, forged(i))
      BY <2>1, <2>6 DEF Inserted
    <3>2. /\ evidence \in Seq(Row) /\ Len(evidence) = Len(c) + 1
          /\ evidence[i] = forged(i)
      <4>1. forged(i) \in Row
        BY <2>2
      <4> HIDE DEF forged
      <4>2. QED
        BY <2>1, <3>1, <4>1, InsertAtTells
    <3>3. Check(evidence, i, Checkpoint(t), Formats) # "ok"
      BY <1>1, <3>2, ForgeryShows
    <3>4. i \in 1..Len(evidence)
      BY <2>1, <3>2
    <3>5. QED
      BY <3>2, <3>3, <3>4, OneIsEnough
  <2>7. QED
    BY <1>1, <2>3, <2>4, <2>5, <2>6 DEF Tampered
<1>2. IInv => TamperingShows
  BY <1>1 DEF TamperingShows
<1>3. QED
  BY <1>2, Inductive, PTL

-----------------------------------------------------------------------------
(* The trail implements AppendOnlyLog *)

(* Whose events are in a trail: those the store took, and no write that    *)
(* can still append.                                                       *)
LoggedIn(trails, w) == \E t \in Tenants : \E n \in 1..Len(trails[t]) : trails[t][n].event = w

AnswerOK ==
  \A w \in Writers :
    /\ LoggedIn(trail, w) => pc[w] \in {"committed", "recorded", "failed"}
    /\ pc[w] \in {"committed", "recorded"} => LoggedIn(trail, w)

(* What an append does to the events. *)
LEMMA StoreLogs ==
  ASSUME IInv, NEW w \in Writers, Append1(w) \/ Insert(w)
  PROVE  /\ Len(trail[tenant[w]]) \in Nat
         /\ Len(trail'[tenant[w]]) = Len(trail[tenant[w]]) + 1
         /\ trail'[tenant[w]][Len(trail[tenant[w]]) + 1].event = w
         /\ \A n \in 1..Len(trail[tenant[w]]) :
              trail'[tenant[w]][n] = trail[tenant[w]][n]
         /\ \A t \in Tenants : t # tenant[w] => trail'[t] = trail[t]
         /\ \A v \in Writers : LoggedIn(trail', v) <=> (v = w \/ LoggedIn(trail, v))
<1> DEFINE t == tenant[w]  r == Stored(w)  n == Len(trail[t])
<1>1. t \in Tenants /\ r \in Record /\ r.tenant = t /\ r.event = w /\ Store(r)
      /\ strategy' = strategy
  BY WriteStores
<1> HIDE DEF t, r
<1>2. /\ Len(trail'[t]) = n + 1 /\ trail'[t][n + 1] = r
      /\ \A i \in 1..n : trail'[t][i] = trail[t][i]
      /\ \A u \in Tenants : u # t => trail'[u] = trail[u]
  BY <1>1, StoreAppends DEF IInv
<1>3. n \in Nat
  BY <1>1, LenProperties DEF IInv, TypeOK
<1>4. ASSUME NEW v \in Writers, LoggedIn(trail', v)
      PROVE  (v = w) \/ LoggedIn(trail, v)
  <2>0. PICK u \in Tenants : \E i \in 1..Len(trail'[u]) : trail'[u][i].event = v
    BY <1>4 DEF LoggedIn
  <2>1. PICK i \in 1..Len(trail'[u]) : trail'[u][i].event = v
    BY <2>0
  <2>2. CASE u # t
    BY <1>2, <2>1, <2>2 DEF LoggedIn
  <2>3. CASE u = t /\ i \in 1..n
    BY <1>2, <2>1, <2>3 DEF LoggedIn
  <2>4. CASE u = t /\ i = n + 1
    BY <1>1, <1>2, <2>1, <2>4
  <2>5. QED
    BY <1>2, <1>3, <2>1, <2>2, <2>3, <2>4
<1>5. ASSUME NEW v \in Writers, LoggedIn(trail, v)
      PROVE  LoggedIn(trail', v)
  <2>0. PICK u \in Tenants : \E i \in 1..Len(trail[u]) : trail[u][i].event = v
    BY <1>5 DEF LoggedIn
  <2>1. PICK i \in 1..Len(trail[u]) : trail[u][i].event = v
    BY <2>0
  <2>2. CASE u # t
    BY <1>2, <2>1, <2>2 DEF LoggedIn
  <2>3. CASE u = t
    <3>1. i \in 1..Len(trail'[t]) /\ trail'[t][i].event = v
      BY <1>2, <1>3, <2>1, <2>3
    <3>2. QED
      BY <1>1, <3>1 DEF LoggedIn
  <2>4. QED
    BY <2>2, <2>3
<1>6. LoggedIn(trail', w)
  <2>1. n + 1 \in 1..Len(trail'[t]) /\ trail'[t][n + 1].event = w
    BY <1>1, <1>2, <1>3
  <2>2. QED
    BY <1>1, <2>1 DEF LoggedIn
<1>7. QED
  BY <1>1, <1>2, <1>3, <1>4, <1>5, <1>6 DEF t

(* Nothing is in the trails at first. *)
LEMMA AnswerInit == Init => AnswerOK
<1> SUFFICES ASSUME Init PROVE AnswerOK
  OBVIOUS
<1>1. \A t \in Tenants : Len(trail[t]) = 0
  BY EmptySeq DEF Init
<1>2. \A w \in Writers : ~LoggedIn(trail, w)
  BY <1>1 DEF LoggedIn
<1>3. QED
  BY <1>2 DEF Init, AnswerOK

(* A step leaves the answers true. *)
LEMMA AnswerStep ==
  ASSUME IInv, AnswerOK, [Next]_vars
  PROVE  AnswerOK'
<1> USE DEF AnswerOK, Step
<1>0. pc \in [Writers -> Stages]
  BY DEF IInv, TypeOK
<1>1. ASSUME NEW w \in Writers, NEW t \in Tenants, Begin(w, t) PROVE AnswerOK'
  BY <1>0, <1>1 DEF Begin
<1>2. ASSUME NEW w \in Writers, Append1(w) \/ Insert(w) PROVE AnswerOK'
  <2>1. pc' = [pc EXCEPT ![w] = "committed"]
    BY <1>2, WriteStores
  <2>2. \A v \in Writers : LoggedIn(trail', v) <=> (v = w \/ LoggedIn(trail, v))
    BY <1>2, StoreLogs
  <2>3. ASSUME NEW v \in Writers
        PROVE  /\ LoggedIn(trail', v) => pc'[v] \in {"committed", "recorded", "failed"}
               /\ pc'[v] \in {"committed", "recorded"} => LoggedIn(trail', v)
    BY <1>0, <2>1, <2>2
  <2>4. QED
    BY <2>3
<1>3. ASSUME NEW w \in Writers, ReadHead(w) PROVE AnswerOK'
  BY <1>0, <1>3 DEF ReadHead
<1>4. ASSUME NEW w \in Writers, Conflict(w) PROVE AnswerOK'
  BY <1>0, <1>4 DEF Conflict
<1>5. ASSUME NEW w \in Writers, Deliver(w) PROVE AnswerOK'
  BY <1>0, <1>5 DEF Deliver
<1>6. ASSUME NEW w \in Writers, Fail(w) PROVE AnswerOK'
  BY <1>0, <1>6 DEF Fail
<1>7. CASE UNCHANGED vars
  BY <1>7 DEF vars
<1>8. QED
  BY <1>1, <1>2, <1>3, <1>4, <1>5, <1>6, <1>7 DEF Next, Proceed

(* What AppendOnlyLog sees. *)
Log == [t \in Tenants |-> [i \in DOMAIN trail[t] |-> trail[t][i].event]]
Answer == [w \in Writers |-> IF pc[w] \in Finished THEN pc[w] ELSE "none"]

(* The events of a sequence of records are a sequence, *)
LEMMA EventsTell ==
  ASSUME NEW s \in Seq(Record)
  PROVE  /\ [i \in DOMAIN s |-> s[i].event] \in Seq(Writers)
         /\ Len([i \in DOMAIN s |-> s[i].event]) = Len(s)
         /\ \A i \in 1..Len(s) : [j \in DOMAIN s |-> s[j].event][i] = s[i].event
<1>1. Len(s) \in Nat /\ DOMAIN s = 1..Len(s) /\ \A i \in 1..Len(s) : s[i] \in Record
  BY LenProperties, ElementOfSeq
<1>2. \A i \in 1..Len(s) : s[i].event \in Writers
  BY <1>1 DEF Record
<1> DEFINE e == [i \in 1..Len(s) |-> s[i].event]
<1>3. e \in [1..Len(s) -> Writers]
  BY <1>2
<1>4. e \in Seq(Writers) /\ Len(e) = Len(s)
  BY <1>1, <1>3
<1>5. QED
  BY <1>1, <1>4

(* to which an append adds its write. *)
LEMMA StoreTakes ==
  ASSUME IInv, NEW w \in Writers, Append1(w) \/ Insert(w)
  PROVE  Log' = [Log EXCEPT ![tenant[w]] = Append(@, w)]
<1> DEFINE t == tenant[w]  n == Len(trail[t])
           old == [i \in DOMAIN trail[t] |-> trail[t][i].event]
           new == [i \in DOMAIN trail'[t] |-> trail'[t][i].event]
<1>1. /\ t \in Tenants /\ trail[t] \in Seq(Record) /\ trail'[t] \in Seq(Record)
  <2>1. t \in Tenants
    BY WriteStores
  <2>2. TypeOK'
    BY StoreKeeps DEF IInv
  <2>3. QED
    BY <2>1, <2>2 DEF IInv, TypeOK
<1>2. /\ n \in Nat /\ Len(trail'[t]) = n + 1 /\ trail'[t][n + 1].event = w
      /\ \A i \in 1..n : trail'[t][i] = trail[t][i]
      /\ \A u \in Tenants : u # t => trail'[u] = trail[u]
  BY StoreLogs
<1>3. /\ old \in Seq(Writers) /\ Len(old) = n
      /\ \A i \in 1..n : old[i] = trail[t][i].event
  BY <1>1, EventsTell
<1>4. /\ new \in Seq(Writers) /\ Len(new) = n + 1
      /\ \A i \in 1..(n + 1) : new[i] = trail'[t][i].event
  BY <1>1, <1>2, EventsTell
<1> HIDE DEF old, new
<1>5. /\ Append(old, w) \in Seq(Writers) /\ Len(Append(old, w)) = n + 1
      /\ \A i \in 1..n : Append(old, w)[i] = old[i]
      /\ Append(old, w)[n + 1] = w
  BY <1>3, AppendProperties
<1>6. \A i \in 1..(n + 1) : new[i] = Append(old, w)[i]
  <2>1. ASSUME NEW i \in 1..n PROVE new[i] = Append(old, w)[i]
    <3>1. i \in 1..(n + 1)
      BY <1>2
    <3>2. QED
      BY <1>2, <1>3, <1>4, <1>5, <3>1
  <2>2. new[n + 1] = Append(old, w)[n + 1]
    <3>1. n + 1 \in 1..(n + 1)
      BY <1>2
    <3>2. QED
      BY <1>2, <1>4, <1>5, <3>1
  <2>3. \A i \in 1..(n + 1) : i \in 1..n \/ i = n + 1
    BY <1>2
  <2>4. QED
    BY <2>1, <2>2, <2>3
<1>7. new = Append(old, w)
  BY <1>4, <1>5, <1>6, SeqEqual
<1>8. Log[t] = old /\ Log'[t] = new
  BY <1>1 DEF Log, old, new
<1>9. \A u \in Tenants : u # t => Log'[u] = Log[u]
  BY <1>2 DEF Log
<1>10. DOMAIN Log = Tenants /\ DOMAIN Log' = Tenants
  BY DEF Log
<1>11. Log = [u \in Tenants |-> Log[u]] /\ Log' = [u \in Tenants |-> Log'[u]]
  BY DEF Log
<1> DEFINE after == [Log EXCEPT ![t] = Append(@, w)]
<1>12. after = [u \in Tenants |-> IF u = t THEN Append(Log[u], w) ELSE Log[u]]
  BY <1>10, <1>11
<1>13. \A u \in Tenants : Log'[u] = IF u = t THEN Append(Log[u], w) ELSE Log[u]
  BY <1>7, <1>8, <1>9
<1>14. QED
  BY <1>11, <1>12, <1>13

(* The writes of the log are the events of the trails. *)
LEMMA LoggedTells ==
  ASSUME IInv, NEW w \in Writers
  PROVE  w \in Trail!Logged <=> LoggedIn(trail, w)
<1>1. \A t \in Tenants : DOMAIN trail[t] = 1..Len(trail[t])
  BY LenProperties DEF IInv, TypeOK
<1>2. \A t \in Tenants : w \in Range(Log[t]) <=>
                           \E n \in 1..Len(trail[t]) : trail[t][n].event = w
  BY <1>1 DEF Range, Log
<1>3. Trail!Logged = UNION {Range(Log[t]) : t \in Tenants}
  BY DEF Trail!Logged, Trail!Range, Range, Log
<1>4. QED
  BY <1>2, <1>3 DEF LoggedIn

(* An answer that does not come leaves AppendOnlyLog as it is; one that    *)
(* comes is told there.                                                    *)
LEMMA AnswerTells ==
  ASSUME IInv, NEW w \in Writers, NEW stage \in Stages,
         pc' = [pc EXCEPT ![w] = stage], pc[w] \notin Finished
  PROVE  /\ Answer[w] = "none"
         /\ stage \notin Finished => Answer' = Answer
         /\ stage \in Finished => Answer' = [Answer EXCEPT ![w] = stage]
<1>1. pc \in [Writers -> Stages]
  BY DEF IInv, TypeOK
<1>2. pc'[w] = stage /\ \A v \in Writers : v # w => pc'[v] = pc[v]
  BY <1>1
<1>3. Answer[w] = "none"
  BY DEF Answer
<1>4. ASSUME stage \notin Finished PROVE Answer' = Answer
  BY <1>2, <1>4 DEF Answer
<1>5. ASSUME stage \in Finished PROVE Answer' = [Answer EXCEPT ![w] = stage]
  BY <1>2, <1>5 DEF Answer
<1>6. QED
  BY <1>3, <1>4, <1>5

(* The empty store is the empty log, *)
LEMMA LogInit == Init => Trail!Init
<1> SUFFICES ASSUME Init PROVE Trail!Init
  OBVIOUS
<1>1. \A t \in Tenants : trail[t] = <<>>
  BY DEF Init
<1>2. Log = [t \in Tenants |-> <<>>]
  BY <1>1 DEF Log
<1>3. Answer = [w \in Writers |-> "none"]
  BY DEF Init, Answer, Finished
<1>4. QED
  BY <1>2, <1>3 DEF Trail!Init, Log, Answer

(* and a step of a write is a step of the log, or nothing to it. *)
LEMMA LogStep ==
  ASSUME IInv, AnswerOK, [Next]_vars
  PROVE  Trail!Next \/ UNCHANGED <<Log, Answer>>
<1>1. ASSUME NEW w \in Writers, NEW t \in Tenants, Begin(w, t)
      PROVE  UNCHANGED <<Log, Answer>>
  <2>1. pc[w] = "idle" /\ pc' = [pc EXCEPT ![w] = "append"] /\ trail' = trail
    BY <1>1 DEF Begin, Step
  <2>2. "append" \in Stages /\ "append" \notin Finished /\ pc[w] \notin Finished
    BY <2>1 DEF Stages, Finished
  <2>3. QED
    BY <2>1, <2>2, AnswerTells DEF Log
<1>2. ASSUME NEW w \in Writers, Append1(w) \/ Insert(w) PROVE Trail!Next
  <2>1. /\ tenant[w] \in Tenants /\ pc[w] \in {"append", "insert"}
        /\ pc' = [pc EXCEPT ![w] = "committed"]
    BY <1>2, WriteStores
  <2>2. Answer[w] = "none" /\ Answer' = Answer
    <3>1. "committed" \in Stages /\ "committed" \notin Finished /\ pc[w] \notin Finished
      BY <2>1 DEF Stages, Finished
    <3>2. QED
      BY <2>1, <3>1, AnswerTells
  <2>3. w \notin Trail!Logged
    BY <2>1, LoggedTells DEF AnswerOK
  <2>4. Log' = [Log EXCEPT ![tenant[w]] = Append(@, w)]
    BY <1>2, StoreTakes
  <2>5. PICK t \in Tenants : t = tenant[w]
    BY <2>1
  <2>6. Trail!Take(w, t)
    BY <2>2, <2>3, <2>4, <2>5 DEF Trail!Take, Log, Answer
  <2>7. QED
    BY <2>6 DEF Trail!Next
<1>3. ASSUME NEW w \in Writers, ReadHead(w) PROVE UNCHANGED <<Log, Answer>>
  <2>1. pc[w] = "append" /\ pc' = [pc EXCEPT ![w] = "insert"] /\ trail' = trail
    BY <1>3 DEF ReadHead, Step
  <2>2. "insert" \in Stages /\ "insert" \notin Finished /\ pc[w] \notin Finished
    BY <2>1 DEF Stages, Finished
  <2>3. QED
    BY <2>1, <2>2, AnswerTells DEF Log
<1>4. ASSUME NEW w \in Writers, Conflict(w)
      PROVE  Trail!Next \/ UNCHANGED <<Log, Answer>>
  <2> DEFINE stage == IF attempts[w] + 1 < MaxAttempts THEN "append" ELSE "conflict"
  <2>1. pc[w] = "insert" /\ pc' = [pc EXCEPT ![w] = stage] /\ trail' = trail
    BY <1>4 DEF Conflict, Step
  <2>2. /\ Answer[w] = "none"
        /\ stage \notin Finished => Answer' = Answer
        /\ stage \in Finished => Answer' = [Answer EXCEPT ![w] = stage]
    <3>1. stage \in Stages /\ pc[w] \notin Finished
      BY <2>1 DEF Stages, Finished
    <3> HIDE DEF stage
    <3>2. QED
      BY <2>1, <3>1, AnswerTells
  <2>3. Log' = Log
    BY <2>1 DEF Log
  <2>4. CASE stage = "append"
    BY <2>2, <2>3, <2>4 DEF Finished
  <2>5. CASE stage = "conflict"
    <3>1. w \notin Trail!Logged
      BY <2>1, LoggedTells DEF AnswerOK
    <3>2. Answer' = [Answer EXCEPT ![w] = "conflict"]
      BY <2>2, <2>5 DEF Finished
    <3>3. Trail!Tell(w, "conflict")
      BY <2>2, <2>3, <3>2 DEF Trail!Tell, Log, Answer
    <3>4. QED
      BY <3>1, <3>3 DEF Trail!Next
  <2>6. QED
    BY <2>4, <2>5
<1>5. ASSUME NEW w \in Writers, Deliver(w) PROVE Trail!Next
  <2>1. pc[w] = "committed" /\ pc' = [pc EXCEPT ![w] = "recorded"] /\ trail' = trail
    BY <1>5 DEF Deliver, Step
  <2>2. Answer[w] = "none" /\ Answer' = [Answer EXCEPT ![w] = "recorded"]
    BY <2>1, AnswerTells DEF Stages, Finished
  <2>3. Log' = Log
    BY <2>1 DEF Log
  <2>4. w \in Trail!Logged
    BY <2>1, LoggedTells DEF AnswerOK
  <2>5. Trail!Tell(w, "recorded")
    BY <2>2, <2>3 DEF Trail!Tell, Log, Answer
  <2>6. QED
    BY <2>4, <2>5 DEF Trail!Next
<1>6. ASSUME NEW w \in Writers, Fail(w) PROVE Trail!Next
  <2>1. /\ pc[w] \in {"append", "insert", "committed"}
        /\ pc' = [pc EXCEPT ![w] = "failed"] /\ trail' = trail
    BY <1>6 DEF Fail, Step
  <2>2. Answer[w] = "none" /\ Answer' = [Answer EXCEPT ![w] = "failed"]
    BY <2>1, AnswerTells DEF Stages, Finished
  <2>3. Log' = Log
    BY <2>1 DEF Log
  <2>4. Trail!Tell(w, "failed")
    BY <2>2, <2>3 DEF Trail!Tell, Log, Answer
  <2>5. QED
    BY <2>4 DEF Trail!Next
<1>7. CASE UNCHANGED vars
  BY <1>7 DEF vars, Log, Answer
<1>8. QED
  BY <1>1, <1>2, <1>3, <1>4, <1>5, <1>6, <1>7 DEF Next, Proceed

(* The records, those pushed out included, are the log of AppendOnlyLog:   *)
(* nothing is lost, moved or written twice, and every answer is true.      *)
THEOREM TrailIsLogCorrect == Spec => TrailIsLog
<1>1. Init => Trail!Init
  BY LogInit
<1>2. IInv /\ AnswerOK /\ [Next]_vars => AnswerOK'
  BY AnswerStep
<1>3. IInv /\ AnswerOK /\ [Next]_vars => [Trail!Next]_(<<Log, Answer>>)
  BY LogStep
<1>4. IInv /\ AnswerOK /\ [Next]_vars =>
        [Trail!Next]_(<<[t \in Tenants |-> [i \in DOMAIN trail[t] |-> trail[t][i].event]],
                        [w \in Writers |-> IF pc[w] \in Finished THEN pc[w] ELSE "none"]>>)
  BY <1>3 DEF Log, Answer
<1>5. QED
  BY <1>1, <1>2, <1>4, AnswerInit, Inductive, PTL DEF Spec, TrailIsLog, Trail!Spec

-----------------------------------------------------------------------------
(* Conflicts are paid for *)

PaidOK ==
  \A w \in Writers : attempts[w] > 0 =>
    /\ attempts[w] <= Len(trail[tenant[w]])
    /\ pc[w] = "insert" => attempts[w] <= head[w].sequence
(* A conflict is paid by the record that took its place. *)
LEMMA PaidStep ==
  ASSUME IInv, PaidOK, [Next]_vars
  PROVE  PaidOK'
<1> USE DEF PaidOK, Step
<1>0. /\ pc \in [Writers -> Stages] /\ attempts \in [Writers -> 0..MaxAttempts]
      /\ \A w \in Writers : attempts[w] \in Nat /\ pc[w] # "idle" => tenant[w] \in Tenants
      /\ \A w \in Writers : pc[w] = "idle" => attempts[w] = 0
      /\ head \in [Writers -> ChainHead] /\ tenant \in [Writers -> Tenants \cup {NoTenant}]
      /\ \A t \in Tenants : Len(trail[t]) \in Nat
  BY AuditAssumption, LenProperties DEF IInv, TypeOK, WriteOK
<1>1. ASSUME NEW w \in Writers, NEW t \in Tenants, Begin(w, t) PROVE PaidOK'
  <2>1. /\ attempts[w] = 0 /\ pc' = [pc EXCEPT ![w] = "append"]
        /\ tenant' = [tenant EXCEPT ![w] = t]
        /\ trail' = trail /\ head' = head /\ attempts' = attempts
    BY <1>0, <1>1 DEF Begin
  <2>2. QED
    BY <1>0, <2>1
<1>2. ASSUME NEW w \in Writers, Append1(w) \/ Insert(w) PROVE PaidOK'
  <2>1. /\ tenant[w] \in Tenants /\ pc' = [pc EXCEPT ![w] = "committed"]
        /\ UNCHANGED <<tenant, head, attempts>>
    BY <1>2, WriteStores
  <2>2. ASSUME NEW v \in Writers, attempts[v] > 0
        PROVE  attempts[v] <= Len(trail'[tenant[v]])
    <3>1. tenant[v] \in Tenants /\ attempts[v] <= Len(trail[tenant[v]])
      BY <1>0, <2>2
    <3>2. Len(trail'[tenant[v]]) \in {Len(trail[tenant[v]]), Len(trail[tenant[v]]) + 1}
      BY <1>2, <2>1, <3>1, StoreLogs
    <3>3. QED
      BY <1>0, <3>1, <3>2
  <2>3. QED
    BY <1>0, <2>1, <2>2
<1>3. ASSUME NEW w \in Writers, ReadHead(w) PROVE PaidOK'
  <2>1. /\ pc[w] = "append" /\ tenant[w] \in Tenants /\ strategy = "optimistic"
        /\ pc' = [pc EXCEPT ![w] = "insert"] /\ head' = [head EXCEPT ![w] = HeadOf(tenant[w])]
        /\ trail' = trail /\ tenant' = tenant /\ attempts' = attempts
    BY <1>0, <1>3 DEF ReadHead
  <2>2. head'[w].sequence = Len(trail[tenant[w]])
    BY <1>0, <2>1, HeadTells
  <2>3. QED
    BY <1>0, <2>1, <2>2
<1>4. ASSUME NEW w \in Writers, Conflict(w) PROVE PaidOK'
  <2> DEFINE t == tenant[w]  n == head[w].sequence
  <2>1. /\ pc[w] = "insert" /\ t \in Tenants /\ Taken(t, n + 1)
        /\ strategy = "optimistic" /\ n \in Nat
    BY <1>0, <1>4 DEF Conflict, IInv, WriteOK, ChainHead
  <2>2. /\ pc' = [pc EXCEPT ![w] = IF attempts[w] + 1 < MaxAttempts
                                   THEN "append" ELSE "conflict"]
        /\ attempts' = [attempts EXCEPT ![w] = @ + 1]
        /\ trail' = trail /\ tenant' = tenant /\ head' = head
    BY <1>4 DEF Conflict
  <2>3. n + 1 <= Len(trail[t])
    <3>1. gone[t] = 0 /\ t \in Tenants \ restarted
      BY <2>1 DEF IInv, ArrayOK
    <3>2. DOMAIN Chain(t) = 1..Len(Chain(t)) /\ Len(Chain(t)) = Len(trail[t])
      BY <1>0, <2>1, <3>1, ChainIsEnd, LenProperties DEF IInv
    <3>3. PICK i \in 1..Len(Chain(t)) : Chain(t)[i].sequence = n + 1
      BY <2>1, <3>2 DEF Taken, Range
    <3>4. Chain(t)[i].sequence = i
      BY <1>0, <3>1, <3>2, Follows
    <3>5. QED
      BY <1>0, <2>1, <3>2, <3>3, <3>4
  <2>4. attempts[w] + 1 <= Len(trail[t])
    BY <1>0, <2>1, <2>3
  <2>5. ASSUME NEW v \in Writers, v # w PROVE pc'[v] = pc[v] /\ attempts'[v] = attempts[v]
    BY <1>0, <2>2, <2>5
  <2>6. pc'[w] # "insert" /\ attempts'[w] = attempts[w] + 1
    BY <1>0, <2>2
  <2>7. QED
    BY <1>0, <2>2, <2>4, <2>5, <2>6
<1>5. ASSUME NEW w \in Writers, Deliver(w) PROVE PaidOK'
  BY <1>0, <1>5 DEF Deliver
<1>6. ASSUME NEW w \in Writers, Fail(w) PROVE PaidOK'
  BY <1>0, <1>6 DEF Fail
<1>7. CASE UNCHANGED vars
  BY <1>7 DEF vars
<1>8. QED
  BY <1>1, <1>2, <1>3, <1>4, <1>5, <1>6, <1>7 DEF Next, Proceed

(* A write meets a conflict only when another write to its tenant got      *)
(* through since its last attempt: contention never stops everyone.        *)
THEOREM ConflictsArePaidForCorrect == Spec => []ConflictsArePaidFor
<1>1. Init => PaidOK
  BY DEF Init, PaidOK
<1>2. IInv /\ PaidOK /\ [Next]_vars => PaidOK'
  BY PaidStep
<1>3. PaidOK => ConflictsArePaidFor
  BY DEF PaidOK, ConflictsArePaidFor
<1>4. QED
  BY <1>1, <1>2, <1>3, Inductive, PTL DEF Spec
=============================================================================
