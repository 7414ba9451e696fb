---------------------------- MODULE MemoryCache ----------------------------
(***************************************************************************)
(* MemoryCache (cache/src/memory.ts) with all its operations.  A JavaScript *)
(* Map keeps its entries in the order of their insertion, and setting a    *)
(* key that is there leaves it in its place; the cache evicts from the     *)
(* front.  No operation awaits anything before it is done, so that each is *)
(* one action.  An entry keeps what is left of its time, which Tick lowers *)
(* and which is Forever for one without a ttl.                             *)
(***************************************************************************)
EXTENDS Integers, Sequences, FiniteSets, Subsequences

CONSTANTS
  Keys,
  MaxEntries, \* maxEntries
  Sample,     \* sweepSampleSize
  MaxTtl,     \* bound on ttl
  MaxCount,   \* bound on counters
  Text,       \* a value that is no number
  NoValue     \* undefined

VARIABLES
  entries,    \* #entries
  \* History, read by no guard of the code:
  truth,      \* what a cache without a bound would hold
  newer,      \* for each key, those that were used since it was
  counted     \* those whose latest use incremented an entry in its place

vars == <<entries, truth, newer, counted>>

Forever == -1
Ttls == 0..MaxTtl \cup {Forever}
Values == {Text} \cup 1..MaxCount
Nothing == [value |-> NoValue, left |-> 0]

TypeOK ==
  /\ entries \in Seq([key: Keys, value: Values, left: Ttls])
  /\ truth \in [Keys -> [value: Values, left: Ttls \ {0}] \cup {Nothing}]
  /\ newer \in [Keys -> SUBSET Keys] /\ counted \subseteq Keys

Init ==
  /\ entries = <<>> /\ truth = [k \in Keys |-> Nothing]
  /\ newer = [k \in Keys |-> {}] /\ counted = {}

-----------------------------------------------------------------------------
(* The map *)

Alive(e) == e.left # 0

(* #live: the entry, and the map after a dead one was dropped. *)
Live(k) ==
  LET found == {i \in DOMAIN entries : entries[i].key = k /\ Alive(entries[i])}
  IN  IF found = {} THEN Nothing
      ELSE LET i == CHOOSE i \in found : TRUE
           IN  [value |-> entries[i].value, left |-> entries[i].left]
Dropped(k) == Kept(entries, {i \in DOMAIN entries : entries[i].key # k \/ Alive(entries[i])})

IsThere(k) == Live(k) # Nothing

Others(k) == Kept(entries, {i \in DOMAIN entries : entries[i].key # k})

Entry(k, value, left) == [key |-> k, value |-> value, left |-> left]

(* The first Sample entries are looked at, and dropped when dead. *)
Swept(map) == Kept(map, {i \in DOMAIN map : i > Sample \/ Alive(map[i])})

Evicted(map) ==
  LET swept == Swept(map)
  IN  Kept(swept, {i \in DOMAIN swept : i > Len(swept) - MaxEntries})

-----------------------------------------------------------------------------
(* The history *)

Latter(k) == newer' = [j \in Keys |-> IF j = k THEN {} ELSE newer[j] \cup {k}]

Use(k) == Latter(k) /\ counted' = counted \ {k}

Known(k, value, left) ==
  truth' = [truth EXCEPT ![k] = IF left = 0 THEN Nothing ELSE [value |-> value, left |-> left]]

Forgotten(doomed) == truth' = [k \in Keys |-> IF k \in doomed THEN Nothing ELSE truth[k]]

-----------------------------------------------------------------------------
(* The operations *)

GetMiss(k) ==
  /\ ~IsThere(k)
  /\ entries' = Dropped(k)
  /\ UNCHANGED <<truth, newer, counted>>

(* Mutant of GetHit: a hit does not move the entry. *)
GetHitInPlace(k) ==
  /\ IsThere(k)
  /\ Use(k)
  /\ UNCHANGED <<entries, truth>>

GetHit(k) ==
  /\ IsThere(k)
  /\ entries' = Append(Others(k), Entry(k, Live(k).value, Live(k).left))
  /\ Use(k)
  /\ UNCHANGED truth

(* What keepTtl leaves of the time. *)
Left(k, ttl, keep) == IF keep /\ IsThere(k) THEN Live(k).left ELSE ttl

Put(k, value, left) ==
  /\ entries' = Evicted(Append(Others(k), Entry(k, value, left)))
  /\ Known(k, value, left) /\ Use(k)

Set(k, value, ttl, keep) == Put(k, value, Left(k, ttl, keep))

SetIfAbsent(k, value, ttl) == ~IsThere(k) /\ Put(k, value, ttl)

CompareAndSet(k, expected, next, ttl, keep) ==
  /\ Live(k).value = expected
  /\ Put(k, next, Left(k, ttl, keep))

(* has, ttl, a setIfAbsent or a compareAndSet that answers false: only     *)
(* #live, which leaves a live entry alone.                                 *)
Probe(k) == entries' = Dropped(k) /\ UNCHANGED <<truth, newer, counted>>

Incremented(k) == IF Live(k).value \in 1..MaxCount THEN Live(k).value + 1 ELSE 1

(* increment of an entry that is there: it keeps its place. *)
IncrementInPlace(k, ttl, keep) ==
  /\ IsThere(k) /\ Incremented(k) <= MaxCount
  /\ LET left == Left(k, ttl, keep)
         new == Entry(k, Incremented(k), left)
     IN  /\ entries' = Evicted([i \in DOMAIN entries |->
                                  IF entries[i].key = k THEN new ELSE entries[i]])
         /\ Known(k, Incremented(k), left)
  /\ Latter(k) /\ counted' = counted \cup {k}

IncrementNew(k, ttl) == ~IsThere(k) /\ Put(k, 1, ttl)

Delete(k) ==
  /\ entries' = Others(k)
  /\ Forgotten({k})
  /\ UNCHANGED <<newer, counted>>

(* clear of everything, or of the keys with a namespace's prefix. *)
Clear(doomed) ==
  /\ entries' = Kept(entries, {i \in DOMAIN entries : entries[i].key \notin doomed})
  /\ Forgotten(doomed)
  /\ UNCHANGED <<newer, counted>>

Sooner(left) == IF left > 0 THEN left - 1 ELSE left

Tick ==
  /\ \E i \in DOMAIN entries : entries[i].left > 0
  /\ entries' = [i \in DOMAIN entries |-> [entries[i] EXCEPT !.left = Sooner(@)]]
  /\ truth' = [k \in Keys |-> IF truth[k].left \in {0, 1} THEN Nothing
                              ELSE [truth[k] EXCEPT !.left = Sooner(@)]]
  /\ UNCHANGED <<newer, counted>>

Next ==
  \/ \E k \in Keys :
       \/ GetMiss(k) \/ GetHit(k) \/ Probe(k) \/ Delete(k)
       \/ \E ttl \in Ttls, keep \in BOOLEAN :
            \/ IncrementInPlace(k, ttl, keep)
            \/ IncrementNew(k, ttl)
            \/ \E value \in Values :
                 \/ Set(k, value, ttl, keep)
                 \/ SetIfAbsent(k, value, ttl)
                 \/ \E expected \in Values \cup {NoValue} :
                      CompareAndSet(k, expected, value, ttl, keep)
  \/ \E doomed \in SUBSET Keys : Clear(doomed)
  \/ Tick

Spec == Init /\ [][Next]_vars

-----------------------------------------------------------------------------
(* The properties *)

(* The keys used last, as many as the cache has entries. *)
Latest == {k \in Keys : Cardinality(newer[k]) < MaxEntries}

(* A bounded cache in front of nothing: it never answers what was not      *)
(* written last or has ended, however entries move, are swept, kept their  *)
(* time or came back, and it does answer for the keys used last.  Only a   *)
(* counter that was incremented where it stood may go before its turn.     *)
RecentAreKept ==
  /\ \A k \in Keys : IsThere(k) => Live(k) = truth[k]
  /\ \A k \in Latest \ counted : Live(k) = truth[k]

(* "entries are evicted least-recently-used once maxEntries is reached"    *)
(* (memory.ts): also a counter.                                            *)
CountersAreKept == \A k \in Latest : Live(k) = truth[k]
=============================================================================
