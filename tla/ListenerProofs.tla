--------------------------- MODULE ListenerProofs ---------------------------
(***************************************************************************)
(* First, that the hash table is a dictionary: its operations keep it      *)
(* sound, and do to its contents what the same operations do to a          *)
(* function, for any keys, values, hash function and number of buckets.    *)
(*                                                                         *)
(* Then DeviceListener, which uses one, for every set of devices, number   *)
(* of reads and unexpected messages.  The octets that usbmuxd has sent and *)
(* the listener has not handled are always those of a sequence of          *)
(* messages; what the last of them about a number says, or the table if    *)
(* none is about it, is whether the number is connected.                   *)
(***************************************************************************)
EXTENDS DeviceListener, FiniteSetTheorems, InductionProofs

ChainEntries(chain) == {chain[i] : i \in DOMAIN chain}

(* What soundness asks of the chain of a bucket. *)
SoundChain(chain, b) ==
  /\ chain \in Seq(Entry)
  /\ \A i \in DOMAIN chain : BucketOf(chain[i].key) = b
  /\ \A i, j \in DOMAIN chain : chain[i].key = chain[j].key => i = j

(* A key has a bucket. *)
LEMMA BucketType == \A k \in Key : BucketOf(k) \in Bucket
  BY HashTableAssumption DEF BucketOf, Bucket

(* The chains of a sound table are sound. *)
LEMMA ChainsSound ==
  ASSUME NEW t, Sound(t), NEW b \in Bucket
  PROVE  SoundChain(t.buckets[b], b)
<1>1. t.buckets[b] \in Seq(Entry)
  BY DEF Sound, Table
<1> QED
  BY <1>1 DEF Sound, SoundChain

(* The entry that ht_find finds is the only one of its key. *)
LEMMA FindIsTheEntry ==
  ASSUME NEW t, Sound(t), NEW k \in Key, Found(t, k)
  PROVE  /\ Find(t, k) \in DOMAIN Chain(t, k)
         /\ Chain(t, k)[Find(t, k)].key = k
         /\ \A i \in DOMAIN Chain(t, k) : Chain(t, k)[i].key = k => i = Find(t, k)
<1>1. /\ Find(t, k) \in DOMAIN Chain(t, k)
      /\ Chain(t, k)[Find(t, k)].key = k
  BY DEF Found, Find
<1>2. SoundChain(Chain(t, k), BucketOf(k))
  BY ChainsSound, BucketType DEF Chain
<1> QED
  BY <1>1, <1>2 DEF SoundChain

(* A lookup finds the entries, and nothing else. *)
LEMMA LookupsFindEntries ==
  ASSUME NEW t, Sound(t)
  PROVE  /\ Entries(t) \subseteq Entry
         /\ \A e \in Entries(t) : Found(t, e.key) /\ GetValue(t, e.key) = e.value
         /\ \A k \in Key : Found(t, k) =>
              /\ Chain(t, k)[Find(t, k)] \in Entries(t)
              /\ Chain(t, k)[Find(t, k)].key = k
              /\ Chain(t, k)[Find(t, k)].value = GetValue(t, k)
<1>1. ASSUME NEW e \in Entries(t)
      PROVE  e \in Entry /\ Found(t, e.key) /\ GetValue(t, e.key) = e.value
  <2>1. PICK b \in Bucket : \E i \in DOMAIN t.buckets[b] : e = t.buckets[b][i]
    BY <1>1 DEF Entries
  <2>2. PICK i \in DOMAIN t.buckets[b] : e = t.buckets[b][i]
    BY <2>1
  <2>3. SoundChain(t.buckets[b], b)
    BY ChainsSound
  <2>4. e \in Entry /\ e.key \in Key
    <3>1. e \in Entry
      BY <2>2, <2>3, ElementOfSeq, LenProperties DEF SoundChain
    <3> QED
      BY <3>1 DEF Entry
  <2>5. Chain(t, e.key) = t.buckets[b]
    BY <2>2, <2>3 DEF SoundChain, Chain
  <2>6. Found(t, e.key)
    BY <2>2, <2>5 DEF Found
  <2>7. Find(t, e.key) = i
    BY <2>2, <2>4, <2>5, <2>6, FindIsTheEntry
  <2> QED
    BY <2>2, <2>4, <2>5, <2>6, <2>7 DEF GetValue
<1>2. ASSUME NEW k \in Key, Found(t, k)
      PROVE  /\ Chain(t, k)[Find(t, k)] \in Entries(t)
             /\ Chain(t, k)[Find(t, k)].key = k
             /\ Chain(t, k)[Find(t, k)].value = GetValue(t, k)
  <2>1. /\ Find(t, k) \in DOMAIN Chain(t, k)
        /\ Chain(t, k)[Find(t, k)].key = k
    BY <1>2, FindIsTheEntry
  <2>2. Chain(t, k)[Find(t, k)] \in Entries(t)
    BY <2>1, BucketType DEF Entries, Chain
  <2> QED
    BY <1>2, <2>1, <2>2 DEF GetValue
<1> QED
  BY <1>1, <1>2 DEF Entry

(* The keys are those that lookups find. *)
LEMMA KeysAreFound ==
  ASSUME NEW t, Sound(t)
  PROVE  Keys(t) = {k \in Key : Found(t, k)}
<1>1. \A k \in Keys(t) : k \in Key /\ Found(t, k)
  <2>1. \A e \in Entries(t) : e.key \in Key /\ Found(t, e.key)
    BY LookupsFindEntries DEF Entry
  <2> QED
    BY <2>1 DEF Keys
<1>2. \A k \in Key : Found(t, k) => k \in Keys(t)
  BY LookupsFindEntries DEF Keys
<1> QED
  BY <1>1, <1>2

-----------------------------------------------------------------------------
(* A table one of whose chains is replaced. *)

(* Its entries. *)
LEMMA WithChainEntries ==
  ASSUME NEW t, Sound(t), NEW k \in Key, NEW chain, NEW n
  PROVE  Entries(WithChain(t, k, chain, n)) =
           {e \in Entries(t) : BucketOf(e.key) # BucketOf(k)} \cup ChainEntries(chain)
<1> DEFINE u == WithChain(t, k, chain, n)
<1>1. \A b \in Bucket : u.buckets[b] = IF b = BucketOf(k) THEN chain ELSE t.buckets[b]
  BY DEF WithChain, Sound, Table
<1>2. \A b \in Bucket : \A i \in DOMAIN t.buckets[b] : BucketOf(t.buckets[b][i].key) = b
  BY DEF Sound
<1>3. BucketOf(k) \in Bucket
  BY BucketType
<1> HIDE DEF u
<1>4. ASSUME NEW e \in Entries(u)
      PROVE  e \in {x \in Entries(t) : BucketOf(x.key) # BucketOf(k)} \cup ChainEntries(chain)
  <2>1. PICK b \in Bucket : \E i \in DOMAIN u.buckets[b] : e = u.buckets[b][i]
    BY <1>4 DEF Entries
  <2>2. CASE b = BucketOf(k)
    BY <1>1, <2>1, <2>2 DEF ChainEntries
  <2>3. CASE b # BucketOf(k)
    BY <1>1, <1>2, <2>1, <2>3 DEF Entries
  <2> QED
    BY <2>2, <2>3
<1>5. ASSUME NEW e \in Entries(t), BucketOf(e.key) # BucketOf(k)
      PROVE  e \in Entries(u)
  <2>1. PICK b \in Bucket : \E i \in DOMAIN t.buckets[b] : e = t.buckets[b][i]
    BY <1>5 DEF Entries
  <2>2. b # BucketOf(k)
    BY <1>2, <1>5, <2>1
  <2>3. u.buckets[b] = t.buckets[b]
    BY <1>1, <2>2
  <2> QED
    BY <2>1, <2>3 DEF Entries
<1>6. ASSUME NEW e \in ChainEntries(chain)
      PROVE  e \in Entries(u)
  <2>1. PICK i \in DOMAIN chain : e = chain[i]
    BY <1>6 DEF ChainEntries
  <2>2. u.buckets[BucketOf(k)] = chain
    BY <1>1, <1>3
  <2> QED
    BY <1>3, <2>1, <2>2 DEF Entries
<1> QED
  BY <1>4, <1>5, <1>6 DEF u

(* It is sound when the chain is, and num_keys is adjusted. *)
LEMMA WithChainSound ==
  ASSUME NEW t, Sound(t), NEW k \in Key, NEW chain, NEW n \in Nat,
         SoundChain(chain, BucketOf(k)),
         IsFiniteSet(Keys(WithChain(t, k, chain, n))),
         n = Cardinality(Keys(WithChain(t, k, chain, n)))
  PROVE  Sound(WithChain(t, k, chain, n))
<1> DEFINE u == WithChain(t, k, chain, n)
<1>1. t.buckets \in [Bucket -> Seq(Entry)]
  BY DEF Sound, Table
<1>2. u.buckets \in [Bucket -> Seq(Entry)] /\ u.num_keys = n
  BY <1>1 DEF WithChain, SoundChain
<1>3. u \in Table
  BY <1>2 DEF WithChain, Table
<1>4. \A b \in Bucket : u.buckets[b] = IF b = BucketOf(k) THEN chain ELSE t.buckets[b]
  BY <1>1 DEF WithChain
<1>5. \A b \in Bucket : SoundChain(u.buckets[b], b)
  BY <1>4, ChainsSound
<1>6. IsFiniteSet(Keys(u)) /\ u.num_keys = Cardinality(Keys(u))
  BY <1>2
<1> HIDE DEF u
<1> QED
  <2>1. Sound(u)
    BY <1>3, <1>5, <1>6 DEF Sound, SoundChain
  <2> QED
    BY <2>1 DEF u
-----------------------------------------------------------------------------
(* Chains. *)

(* Unlinking an entry takes it, and nothing else, out of a chain. *)
LEMMA WithoutChain ==
  ASSUME NEW chain, NEW b, SoundChain(chain, b), NEW i \in DOMAIN chain
  PROVE  /\ SoundChain(Without(chain, i), b)
         /\ ChainEntries(Without(chain, i)) = ChainEntries(chain) \ {chain[i]}
<1> DEFINE w == Without(chain, i)
           n == Len(chain)
<1>1. /\ n \in Nat /\ DOMAIN chain = 1..n /\ i \in 1..n
      /\ \A j \in 1..n : chain[j] \in Entry
  BY LenProperties, ElementOfSeq DEF SoundChain
<1>2. DOMAIN w = 1..(n - 1) /\ n - 1 \in Nat
  BY <1>1 DEF Without
<1>3. \A j \in 1..(n - 1) : w[j] = IF j < i THEN chain[j] ELSE chain[j + 1]
  BY DEF Without
<1>4. w \in Seq(Entry)
  <2>1. w \in [1..(n - 1) -> Entry]
    BY <1>1 DEF Without
  <2> QED
    BY <1>2, <2>1, SeqDef
<1>5. \A j \in 1..n : \A m \in 1..n : chain[j].key = chain[m].key => j = m
  BY <1>1 DEF SoundChain
<1>6. \A j \in 1..n : BucketOf(chain[j].key) = b
  BY <1>1 DEF SoundChain
<1> HIDE DEF w, n
<1>7. \A j \in 1..(n - 1) : \A m \in 1..(n - 1) : w[j].key = w[m].key => j = m
  <2> SUFFICES ASSUME NEW j \in 1..(n - 1), NEW m \in 1..(n - 1), w[j].key = w[m].key
               PROVE  j = m
    OBVIOUS
  <2>1. /\ j \in 1..n /\ j + 1 \in 1..n /\ m \in 1..n /\ m + 1 \in 1..n
    BY <1>1
  <2>2. CASE j < i /\ m < i
    BY <1>3, <1>5, <2>1, <2>2
  <2>3. CASE j < i /\ ~(m < i)
    <3>1. j = m + 1
      BY <1>3, <1>5, <2>1, <2>3
    <3> QED
      BY <1>1, <2>3, <3>1
  <2>4. CASE ~(j < i) /\ m < i
    <3>1. j + 1 = m
      BY <1>3, <1>5, <2>1, <2>4
    <3> QED
      BY <1>1, <2>4, <3>1
  <2>5. CASE ~(j < i) /\ ~(m < i)
    <3>1. j + 1 = m + 1
      BY <1>3, <1>5, <2>1, <2>5
    <3> QED
      BY <3>1
  <2> QED
    BY <2>2, <2>3, <2>4, <2>5
<1>8. \A j \in 1..(n - 1) : BucketOf(w[j].key) = b
  BY <1>1, <1>3, <1>6
<1>9. ASSUME NEW e \in ChainEntries(w)
      PROVE  e \in ChainEntries(chain) /\ e # chain[i]
  <2>1. PICK j \in 1..(n - 1) : e = w[j]
    BY <1>2, <1>9 DEF ChainEntries
  <2>2. PICK m \in 1..n : m # i /\ e = chain[m]
    BY <1>1, <1>3, <2>1
  <2> QED
    BY <1>1, <1>5, <2>2 DEF ChainEntries
<1>10. ASSUME NEW e \in ChainEntries(chain), e # chain[i]
       PROVE  e \in ChainEntries(w)
  <2>1. PICK m \in 1..n : e = chain[m]
    BY <1>1, <1>10 DEF ChainEntries
  <2>2. CASE m < i
    <3>1. m \in 1..(n - 1) /\ w[m] = e
      BY <1>1, <1>3, <2>1, <2>2
    <3> QED
      BY <1>2, <3>1 DEF ChainEntries
  <2>3. CASE m > i
    <3>1. m - 1 \in 1..(n - 1) /\ ~(m - 1 < i) /\ (m - 1) + 1 = m
      BY <1>1, <2>3
    <3>2. w[m - 1] = e
      BY <1>3, <2>1, <3>1
    <3> QED
      BY <1>2, <3>1, <3>2 DEF ChainEntries
  <2> QED
    BY <1>1, <1>10, <2>1, <2>2, <2>3
<1> QED
  BY <1>2, <1>4, <1>7, <1>8, <1>9, <1>10 DEF SoundChain, w

(* Linking an entry of a new key in front adds it to a chain. *)
LEMMA WithFirstChain ==
  ASSUME NEW chain, NEW b, SoundChain(chain, b),
         NEW e \in Entry, BucketOf(e.key) = b,
         \A i \in DOMAIN chain : chain[i].key # e.key
  PROVE  /\ SoundChain(WithFirst(e, chain), b)
         /\ ChainEntries(WithFirst(e, chain)) = ChainEntries(chain) \cup {e}
<1> DEFINE w == WithFirst(e, chain)
           n == Len(chain)
<1>1. /\ n \in Nat /\ DOMAIN chain = 1..n
      /\ \A j \in 1..n : chain[j] \in Entry
  BY LenProperties, ElementOfSeq DEF SoundChain
<1>2. DOMAIN w = 1..(n + 1) /\ n + 1 \in Nat
  BY <1>1 DEF WithFirst
<1>3. \A j \in 1..(n + 1) : w[j] = IF j = 1 THEN e ELSE chain[j - 1]
  BY DEF WithFirst
<1>4. w \in Seq(Entry)
  <2>1. w \in [1..(n + 1) -> Entry]
    BY <1>1 DEF WithFirst
  <2> QED
    BY <1>2, <2>1, SeqDef
<1>5. \A j \in 1..n : \A m \in 1..n : chain[j].key = chain[m].key => j = m
  BY <1>1 DEF SoundChain
<1>6. \A j \in 1..n : BucketOf(chain[j].key) = b /\ chain[j].key # e.key
  BY <1>1 DEF SoundChain
<1> HIDE DEF w, n
<1>7. \A j \in 1..(n + 1) : \A m \in 1..(n + 1) : w[j].key = w[m].key => j = m
  <2> SUFFICES ASSUME NEW j \in 1..(n + 1), NEW m \in 1..(n + 1), w[j].key = w[m].key
               PROVE  j = m
    OBVIOUS
  <2>1. (j # 1 => j - 1 \in 1..n) /\ (m # 1 => m - 1 \in 1..n)
    BY <1>1
  <2>2. CASE j = 1 \/ m = 1
    BY <1>3, <1>6, <2>1, <2>2
  <2>3. CASE j # 1 /\ m # 1
    <3>1. j - 1 = m - 1
      BY <1>3, <1>5, <2>1, <2>3
    <3> QED
      BY <3>1
  <2> QED
    BY <2>2, <2>3
<1>8. \A j \in 1..(n + 1) : BucketOf(w[j].key) = b
  BY <1>1, <1>3, <1>6
<1>9. ASSUME NEW x \in ChainEntries(w)
      PROVE  x \in ChainEntries(chain) \cup {e}
  <2>1. PICK j \in 1..(n + 1) : x = w[j]
    BY <1>2, <1>9 DEF ChainEntries
  <2>2. j # 1 => j - 1 \in 1..n
    BY <1>1
  <2> QED
    BY <1>1, <1>3, <2>1, <2>2 DEF ChainEntries
<1>10. ASSUME NEW x \in ChainEntries(chain)
       PROVE  x \in ChainEntries(w)
  <2>1. PICK m \in 1..n : x = chain[m]
    BY <1>1, <1>10 DEF ChainEntries
  <2>2. m + 1 \in 1..(n + 1) /\ m + 1 # 1 /\ (m + 1) - 1 = m
    BY <1>1
  <2>3. w[m + 1] = x
    BY <1>3, <2>1, <2>2
  <2> QED
    BY <1>2, <2>2, <2>3 DEF ChainEntries
<1>11. e \in ChainEntries(w)
  <2>1. 1 \in 1..(n + 1)
    BY <1>1
  <2> QED
    BY <1>2, <1>3, <2>1 DEF ChainEntries
<1> QED
  BY <1>2, <1>4, <1>7, <1>8, <1>9, <1>10, <1>11 DEF SoundChain, w

Replaced(chain, i, e) == [chain EXCEPT ![i] = e]

(* Giving an entry another value exchanges it. *)
LEMMA ReplacedChain ==
  ASSUME NEW chain, NEW b, SoundChain(chain, b), NEW i \in DOMAIN chain,
         NEW e \in Entry, e.key = chain[i].key
  PROVE  /\ SoundChain(Replaced(chain, i, e), b)
         /\ ChainEntries(Replaced(chain, i, e)) = (ChainEntries(chain) \ {chain[i]}) \cup {e}
<1> DEFINE w == Replaced(chain, i, e)
<1>1. w \in Seq(Entry)
  BY ExceptSeq, LenProperties DEF SoundChain, Replaced
<1>2. DOMAIN w = DOMAIN chain /\ \A j \in DOMAIN chain : w[j] = IF j = i THEN e ELSE chain[j]
  BY DEF Replaced
<1>3. \A j \in DOMAIN chain : w[j].key = chain[j].key
  BY <1>2
<1>4. \A j, m \in DOMAIN chain : chain[j].key = chain[m].key => j = m
  BY DEF SoundChain
<1> HIDE DEF w
<1>5. SoundChain(w, b)
  BY <1>1, <1>2, <1>3 DEF SoundChain
<1>6. ASSUME NEW x
      PROVE  x \in ChainEntries(w) <=> x \in (ChainEntries(chain) \ {chain[i]}) \cup {e}
  <2>1. x \in ChainEntries(w) <=> x = e \/ \E j \in DOMAIN chain : j # i /\ x = chain[j]
    BY <1>2 DEF ChainEntries
  <2>2. (\E j \in DOMAIN chain : j # i /\ x = chain[j]) <=> x \in ChainEntries(chain) \ {chain[i]}
    BY <1>4 DEF ChainEntries
  <2> QED
    BY <2>1, <2>2
<1> QED
  BY <1>5, <1>6 DEF w

-----------------------------------------------------------------------------
(* The entries of the other keys say all about what lookups of other keys find. *)

Others(t, k) == {e \in Entries(t) : e.key # k}

(* The entries of a table are those of a bucket and those of the others. *)
LEMMA EntriesOfBucket ==
  ASSUME NEW t, Sound(t), NEW k \in Key
  PROVE  ChainEntries(Chain(t, k)) = {e \in Entries(t) : BucketOf(e.key) = BucketOf(k)}
<1>1. ASSUME NEW e \in ChainEntries(Chain(t, k))
      PROVE  e \in Entries(t) /\ BucketOf(e.key) = BucketOf(k)
  <2>1. PICK i \in DOMAIN Chain(t, k) : e = Chain(t, k)[i]
    BY <1>1 DEF ChainEntries
  <2>2. BucketOf(k) \in Bucket
    BY BucketType
  <2>3. e \in Entries(t)
    BY <2>1, <2>2 DEF Chain, Entries
  <2>4. BucketOf(e.key) = BucketOf(k)
    BY <2>1, <2>2 DEF Chain, Sound
  <2> QED
    BY <2>3, <2>4
<1>2. ASSUME NEW e \in Entries(t), BucketOf(e.key) = BucketOf(k)
      PROVE  e \in ChainEntries(Chain(t, k))
  <2>1. PICK b \in Bucket : \E i \in DOMAIN t.buckets[b] : e = t.buckets[b][i]
    BY <1>2 DEF Entries
  <2>2. b = BucketOf(k)
    BY <1>2, <2>1 DEF Sound
  <2> QED
    BY <2>1, <2>2 DEF Chain, ChainEntries
<1> QED
  BY <1>1, <1>2

(* Tables that agree on the other entries agree on the other keys. *)
LEMMA OthersKept ==
  ASSUME NEW t, Sound(t), NEW u, Sound(u), NEW k \in Key, Others(u, k) = Others(t, k)
  PROVE  /\ Keys(u) \ {k} = Keys(t) \ {k}
         /\ \A q \in Key \ {k} : GetValue(u, q) = GetValue(t, q)
<1>1. \A q \in Key \ {k} : Found(u, q) => \E e \in Others(u, k) : e.key = q /\ e.value = GetValue(u, q)
  BY LookupsFindEntries DEF Others
<1>2. \A q \in Key \ {k} : Found(t, q) => \E e \in Others(t, k) : e.key = q /\ e.value = GetValue(t, q)
  BY LookupsFindEntries DEF Others
<1>3. \A e \in Others(u, k) : Found(t, e.key) /\ GetValue(t, e.key) = e.value
  BY LookupsFindEntries DEF Others
<1>4. \A e \in Others(t, k) : Found(u, e.key) /\ GetValue(u, e.key) = e.value
  BY LookupsFindEntries DEF Others
<1>5. \A q \in Key \ {k} : Found(u, q) <=> Found(t, q)
  BY <1>1, <1>2, <1>3, <1>4
<1>6. \A q \in Key \ {k} : GetValue(u, q) = GetValue(t, q)
  <2> SUFFICES ASSUME NEW q \in Key \ {k} PROVE GetValue(u, q) = GetValue(t, q)
    OBVIOUS
  <2>1. CASE Found(u, q)
    BY <1>1, <1>3, <2>1
  <2>2. CASE ~Found(u, q)
    BY <1>5, <2>2 DEF GetValue
  <2> QED
    BY <2>1, <2>2
<1> QED
  BY <1>5, <1>6, KeysAreFound

(* What a table holds when one of its chains is replaced by a sound one that
   has the same entries but for those of the key k. *)
LEMMA Rechained ==
  ASSUME NEW t, Sound(t), NEW k \in Key, NEW chain, NEW n \in Nat, NEW new,
         NEW u, u = WithChain(t, k, chain, n),
         SoundChain(chain, BucketOf(k)),
         \A e \in new : e.key = k,
         ChainEntries(chain) = {e \in ChainEntries(Chain(t, k)) : e.key # k} \cup new
  PROVE  /\ Others(u, k) = Others(t, k)
         /\ Entries(u) = Others(t, k) \cup new
<1>1. Entries(u) = {e \in Entries(t) : BucketOf(e.key) # BucketOf(k)} \cup ChainEntries(chain)
  BY WithChainEntries
<1>2. ChainEntries(Chain(t, k)) = {e \in Entries(t) : BucketOf(e.key) = BucketOf(k)}
  BY EntriesOfBucket
<1>3. Entries(u) = Others(t, k) \cup new
  BY <1>1, <1>2 DEF Others
<1>4. Others(u, k) = Others(t, k)
  BY <1>3 DEF Others
<1> QED
  BY <1>3, <1>4

(* The entry that is found is the only one of its key in its chain. *)
LEMMA ChainWithoutKey ==
  ASSUME NEW t, Sound(t), NEW k \in Key, Found(t, k)
  PROVE  {e \in ChainEntries(Chain(t, k)) : e.key # k}
           = ChainEntries(Chain(t, k)) \ {Chain(t, k)[Find(t, k)]}
  BY FindIsTheEntry DEF ChainEntries

-----------------------------------------------------------------------------
(* The operations. *)

(* A new table is sound and empty (ht_new). *)
THEOREM NewIsEmpty == Sound(New) /\ Keys(New) = {}
<1>1. New \in Table
  <2>1. <<>> \in Seq(Entry)
    BY EmptySeq
  <2> QED
    BY <2>1 DEF New, Table
<1>2. \A b \in Bucket : DOMAIN New.buckets[b] = {}
  <2>1. DOMAIN <<>> = {}
    BY EmptySeq, LenProperties
  <2> QED
    BY <2>1 DEF New
<1>3. Keys(New) = {}
  BY <1>2 DEF Keys, Entries
<1>4. New.num_keys = 0
  BY DEF New
<1> QED
  BY <1>1, <1>2, <1>3, <1>4, FS_EmptySet DEF Sound

(* Removing a key takes the key out, with num_keys, and changes nothing of the
   other keys (ht_remove, and ht_put of NULL). *)
THEOREM RemoveTakesOut ==
  ASSUME NEW t, Sound(t), NEW k \in Key
  PROVE  /\ Sound(RemoveKey(t, k))
         /\ Keys(RemoveKey(t, k)) = Keys(t) \ {k}
         /\ \A q \in Key \ {k} : GetValue(RemoveKey(t, k), q) = GetValue(t, q)
<1>1. CASE ~Found(t, k)
  <2>1. RemoveKey(t, k) = t
    BY <1>1 DEF RemoveKey
  <2>2. k \notin Keys(t)
    BY <1>1, KeysAreFound
  <2> QED
    BY <2>1, <2>2
<1>2. CASE Found(t, k)
  <2> DEFINE chain == Without(Chain(t, k), Find(t, k))
             n == t.num_keys - 1
             u == WithChain(t, k, chain, n)
  <2>1. RemoveKey(t, k) = u
    BY <1>2 DEF RemoveKey
  <2>2. SoundChain(Chain(t, k), BucketOf(k))
    BY ChainsSound, BucketType DEF Chain
  <2>3. /\ SoundChain(chain, BucketOf(k))
        /\ ChainEntries(chain) = ChainEntries(Chain(t, k)) \ {Chain(t, k)[Find(t, k)]}
    BY <1>2, <2>2, FindIsTheEntry, WithoutChain
  <2>4. ChainEntries(chain) = {e \in ChainEntries(Chain(t, k)) : e.key # k} \cup {}
    BY <1>2, <2>3, ChainWithoutKey
  <2>5. k \in Keys(t)
    BY <1>2, KeysAreFound
  <2>6. IsFiniteSet(Keys(t)) /\ t.num_keys = Cardinality(Keys(t)) /\ t.num_keys \in Nat
    BY DEF Sound, Table
  <2>7. /\ IsFiniteSet(Keys(t) \ {k})
        /\ Cardinality(Keys(t) \ {k}) = n
    BY <2>5, <2>6, FS_RemoveElement
  <2>8. n \in Nat
    BY <2>7, FS_CardinalityType
  <2> DEFINE new == {}
  <2>9. u = WithChain(t, k, chain, n) /\ \A x \in new : x.key = k
    OBVIOUS
  <2>10. ChainEntries(chain) = {e \in ChainEntries(Chain(t, k)) : e.key # k} \cup new
    BY <2>4
  <2> HIDE DEF chain, n, u, new
  <2>11. Others(u, k) = Others(t, k) /\ Entries(u) = Others(t, k) \cup new
    BY <2>3, <2>8, <2>9, <2>10, Rechained
  <2>12. Others(u, k) = Others(t, k) /\ Entries(u) = Others(t, k)
    BY <2>11 DEF new
  <2>13. Keys(u) = Keys(t) \ {k}
    BY <2>12 DEF Keys, Others
  <2>14. Sound(u)
    BY <2>3, <2>7, <2>8, <2>13, WithChainSound DEF u
  <2>15. \A q \in Key \ {k} : GetValue(u, q) = GetValue(t, q)
    BY <2>12, <2>14, OthersKept
  <2> QED
    BY <2>1, <2>13, <2>14, <2>15
<1> QED
  BY <1>1, <1>2

(* A value that is put replaces the one of the key, or counts a key that is new. *)
LEMMA PutValueSets ==
  ASSUME NEW t, Sound(t), NEW k \in Key, NEW v \in Value
  PROVE  /\ Sound(PutKey(t, k, v))
         /\ Keys(PutKey(t, k, v)) = Keys(t) \cup {k}
         /\ GetValue(PutKey(t, k, v), k) = v
         /\ \A q \in Key \ {k} : GetValue(PutKey(t, k, v), q) = GetValue(t, q)
<1> DEFINE e == [key |-> k, value |-> v]
<1>1. v # Null
  BY HashTableAssumption
<1>2. e \in Entry /\ e.key = k /\ e.value = v
  BY DEF Entry
<1>3. SoundChain(Chain(t, k), BucketOf(k))
  BY ChainsSound, BucketType DEF Chain
<1>4. IsFiniteSet(Keys(t)) /\ t.num_keys = Cardinality(Keys(t)) /\ t.num_keys \in Nat
  BY DEF Sound, Table
<1>5. ASSUME NEW chain, NEW n \in Nat, SoundChain(chain, BucketOf(k)),
             ChainEntries(chain) = {x \in ChainEntries(Chain(t, k)) : x.key # k} \cup {e},
             n = Cardinality(Keys(t) \cup {k}),
             PutKey(t, k, v) = WithChain(t, k, chain, n)
      PROVE  /\ Sound(PutKey(t, k, v))
             /\ Keys(PutKey(t, k, v)) = Keys(t) \cup {k}
             /\ GetValue(PutKey(t, k, v), k) = v
             /\ \A q \in Key \ {k} : GetValue(PutKey(t, k, v), q) = GetValue(t, q)
  <2> DEFINE u == WithChain(t, k, chain, n)
             new == {e}
  <2>1. u = WithChain(t, k, chain, n) /\ \A x \in new : x.key = k
    BY <1>2
  <2>2. ChainEntries(chain) = {x \in ChainEntries(Chain(t, k)) : x.key # k} \cup new
    BY <1>5
  <2>3. SoundChain(chain, BucketOf(k))
    BY <1>5
  <2> HIDE DEF e, u, new
  <2>4. Others(u, k) = Others(t, k) /\ Entries(u) = Others(t, k) \cup new
    BY <2>1, <2>2, <2>3, Rechained
  <2>5. Others(u, k) = Others(t, k) /\ Entries(u) = Others(t, k) \cup {e}
    BY <2>4 DEF new
  <2>6. Keys(u) = Keys(t) \cup {k}
    BY <1>2, <2>5 DEF Keys, Others
  <2>7. IsFiniteSet(Keys(t) \cup {k})
    BY <1>4, FS_AddElement
  <2>8. Sound(u)
    BY <1>5, <2>6, <2>7, WithChainSound DEF u
  <2>9. \A q \in Key \ {k} : GetValue(u, q) = GetValue(t, q)
    BY <2>5, <2>8, OthersKept
  <2>10. GetValue(u, k) = v
    BY <1>2, <2>5, <2>8, LookupsFindEntries
  <2> QED
    BY <1>5, <2>6, <2>8, <2>9, <2>10 DEF u
<1>6. CASE Found(t, k)
  <2> DEFINE chain == Replaced(Chain(t, k), Find(t, k), e)
  <2>1. PutKey(t, k, v) = WithChain(t, k, chain, t.num_keys)
    BY <1>1, <1>6 DEF PutKey, Replace, Replaced
  <2>2. Find(t, k) \in DOMAIN Chain(t, k) /\ Chain(t, k)[Find(t, k)].key = k
    BY <1>6, FindIsTheEntry
  <2>3. e \in Entry /\ e.key = Chain(t, k)[Find(t, k)].key
    BY <1>2, <2>2
  <2> HIDE DEF e
  <2>4. /\ SoundChain(chain, BucketOf(k))
        /\ ChainEntries(chain) = (ChainEntries(Chain(t, k)) \ {Chain(t, k)[Find(t, k)]}) \cup {e}
    BY <1>3, <2>2, <2>3, ReplacedChain
  <2> HIDE DEF chain
  <2>5. ChainEntries(chain) = {x \in ChainEntries(Chain(t, k)) : x.key # k} \cup {e}
    BY <1>6, <2>4, ChainWithoutKey
  <2>6. k \in Keys(t)
    BY <1>6, KeysAreFound
  <2>7. t.num_keys = Cardinality(Keys(t) \cup {k})
    BY <1>4, <2>6, FS_AddElement
  <2> QED
    BY <1>4, <1>5, <2>1, <2>4, <2>5, <2>7
<1>7. CASE ~Found(t, k)
  <2> DEFINE chain == WithFirst(e, Chain(t, k))
  <2>1. PutKey(t, k, v) = WithChain(t, k, chain, t.num_keys + 1)
    BY <1>1, <1>7 DEF PutKey, Insert
  <2>2. \A i \in DOMAIN Chain(t, k) : Chain(t, k)[i].key # e.key
    BY <1>2, <1>7 DEF Found
  <2>3. BucketOf(e.key) = BucketOf(k)
    BY <1>2
  <2> HIDE DEF e
  <2>4. /\ SoundChain(chain, BucketOf(k))
        /\ ChainEntries(chain) = ChainEntries(Chain(t, k)) \cup {e}
    BY <1>2, <1>3, <2>2, <2>3, WithFirstChain
  <2> HIDE DEF chain
  <2>5. \A x \in ChainEntries(Chain(t, k)) : x.key # k
    BY <1>2, <2>2 DEF ChainEntries
  <2>6. ChainEntries(chain) = {x \in ChainEntries(Chain(t, k)) : x.key # k} \cup {e}
    BY <2>4, <2>5
  <2>7. k \notin Keys(t)
    BY <1>7, KeysAreFound
  <2>8. t.num_keys + 1 = Cardinality(Keys(t) \cup {k}) /\ t.num_keys + 1 \in Nat
    <3>1. Cardinality(Keys(t) \cup {k}) = Cardinality(Keys(t)) + 1
      BY <1>4, <2>7, FS_AddElement
    <3> QED
      BY <1>4, <3>1
  <2> QED
    BY <1>5, <2>1, <2>4, <2>6, <2>8
<1> QED
  BY <1>6, <1>7

(* Putting a value gives it to the key, counted once, and putting NULL takes the key
   out; nothing of the other keys changes (ht_put). *)
THEOREM PutSets ==
  ASSUME NEW t, Sound(t), NEW k \in Key, NEW v \in Value \cup {Null}
  PROVE  /\ Sound(PutKey(t, k, v))
         /\ Keys(PutKey(t, k, v)) = IF v = Null THEN Keys(t) \ {k} ELSE Keys(t) \cup {k}
         /\ GetValue(PutKey(t, k, v), k) = v
         /\ \A q \in Key \ {k} : GetValue(PutKey(t, k, v), q) = GetValue(t, q)
<1>1. CASE v = Null
  <2>1. PutKey(t, k, v) = RemoveKey(t, k)
    BY <1>1 DEF PutKey
  <2>2. /\ Sound(RemoveKey(t, k)) /\ Keys(RemoveKey(t, k)) = Keys(t) \ {k}
        /\ \A q \in Key \ {k} : GetValue(RemoveKey(t, k), q) = GetValue(t, q)
    BY RemoveTakesOut
  <2>3. GetValue(RemoveKey(t, k), k) = Null
    <3>1. ~Found(RemoveKey(t, k), k)
      BY <2>2, KeysAreFound
    <3> QED
      BY <3>1 DEF GetValue
  <2> QED
    BY <1>1, <2>1, <2>2, <2>3
<1>2. CASE v # Null
  BY <1>2, PutValueSets
<1> QED
  BY <1>1, <1>2

(* A lookup changes only the order of a chain: it moves an entry to the front
   and keeps what every key has (ht_get). *)
THEOREM LookupKeepsContents ==
  ASSUME NEW t, Sound(t), NEW k \in Key
  PROVE  /\ Sound(MoveToFront(t, k))
         /\ Keys(MoveToFront(t, k)) = Keys(t)
         /\ \A q \in Key : GetValue(MoveToFront(t, k), q) = GetValue(t, q)
<1>1. CASE ~Found(t, k)
  BY <1>1 DEF MoveToFront
<1>2. CASE Found(t, k)
  <2> DEFINE i == Find(t, k)
             e == Chain(t, k)[i]
             rest == Without(Chain(t, k), i)
             chain == WithFirst(e, rest)
             n == t.num_keys
             u == WithChain(t, k, chain, n)
  <2>1. MoveToFront(t, k) = u
    BY <1>2 DEF MoveToFront
  <2>2. SoundChain(Chain(t, k), BucketOf(k))
    BY ChainsSound, BucketType DEF Chain
  <2>3. i \in DOMAIN Chain(t, k) /\ e.key = k
    BY <1>2, FindIsTheEntry
  <2>4. e \in Entries(t) /\ e.value = GetValue(t, k) /\ e \in Entry
    BY <1>2, LookupsFindEntries
  <2>5. SoundChain(rest, BucketOf(k)) /\ ChainEntries(rest) = ChainEntries(Chain(t, k)) \ {e}
    BY <2>2, <2>3, WithoutChain
  <2>6. ChainEntries(rest) = {x \in ChainEntries(Chain(t, k)) : x.key # k}
    BY <1>2, <2>5, ChainWithoutKey
  <2>7. n \in Nat /\ IsFiniteSet(Keys(t)) /\ n = Cardinality(Keys(t))
    BY DEF Sound, Table
  <2> HIDE DEF i, e, rest, n
  <2>8. \A j \in DOMAIN rest : rest[j].key # e.key
    BY <2>3, <2>6 DEF ChainEntries
  <2>9. BucketOf(e.key) = BucketOf(k)
    BY <2>3
  <2>10. SoundChain(chain, BucketOf(k)) /\ ChainEntries(chain) = ChainEntries(rest) \cup {e}
    BY <2>4, <2>5, <2>8, <2>9, WithFirstChain
  <2> HIDE DEF chain
  <2>11. ChainEntries(chain) = {x \in ChainEntries(Chain(t, k)) : x.key # k} \cup {e}
    BY <2>6, <2>10
  <2> DEFINE new == {e}
  <2>12. u = WithChain(t, k, chain, n) /\ \A x \in new : x.key = k
    BY <2>3
  <2>13. ChainEntries(chain) = {x \in ChainEntries(Chain(t, k)) : x.key # k} \cup new
    BY <2>11
  <2> HIDE DEF u, new
  <2>14. Others(u, k) = Others(t, k) /\ Entries(u) = Others(t, k) \cup new
    BY <2>7, <2>10, <2>12, <2>13, Rechained
  <2>15. Others(u, k) = Others(t, k) /\ Entries(u) = Others(t, k) \cup {e}
    BY <2>14 DEF new
  <2>16. k \in Keys(t)
    BY <1>2, KeysAreFound
  <2>17. Keys(u) = Keys(t)
    <3>1. Keys(u) = (Keys(t) \ {k}) \cup {k}
      BY <2>3, <2>15 DEF Keys, Others
    <3> QED
      BY <2>16, <3>1
  <2>18. Sound(u)
    BY <2>7, <2>10, <2>17, WithChainSound DEF u
  <2>19. \A q \in Key \ {k} : GetValue(u, q) = GetValue(t, q)
    BY <2>15, <2>18, OthersKept
  <2>20. GetValue(u, k) = GetValue(t, k)
    BY <2>3, <2>4, <2>15, <2>18, LookupsFindEntries
  <2> QED
    BY <2>1, <2>17, <2>18, <2>19, <2>20
<1> QED
  BY <1>1, <1>2

-----------------------------------------------------------------------------
(* The messages of usbmuxd and their octets. *)

Msg == [type : {"Attached", "Detached", "Result", "Binary", "Other"},
        num : 0..(MaxNum + 1), serial : Serial \cup {Null}]

Octet == ({"length"} \X Nat) \cup ({"data"} \X Msg)

Packets(msgs) == [j \in DOMAIN msgs |-> PacketOf(msgs[j])]

-----------------------------------------------------------------------------
(* Packets and streams of them. *)

LEMMA PacketOfType ==
  ASSUME NEW m \in Msg
  PROVE  /\ PacketOf(m) \in Seq(Octet)
         /\ Len(PacketOf(m)) \in Nat /\ Len(PacketOf(m)) > LengthOctets
         /\ PacketOf(m)[1] = <<"length", Len(PacketOf(m))>>
         /\ PacketOf(m)[LengthOctets + 1] = <<"data", m>>
<1> PICK k \in Nat \ {0} : k = LengthOctets
  BY PacketAssumption
<1>1. PICK n \in 1..2 : n = IF m.type = "Attached" THEN 2 ELSE 1
  OBVIOUS
<1>2. n \in Nat \ {0} /\ n + k = k + n /\ k + n > k /\ k + n \in Nat
  BY <1>1
<1>3. <<"length", n + k>> \in Octet /\ <<"data", m>> \in Octet
  BY <1>2 DEF Octet
<1>4. PacketOf(m) = [i \in 1..k |-> <<"length", n + k>>] \o [i \in 1..n |-> <<"data", m>>]
  <2>1. Len([i \in 1..n |-> <<"data", m>>]) = n
    BY <1>2, <1>3, Repeated
  <2> QED
    BY <1>1, <2>1, ListenerAssumption DEF PacketOf, Packet
<1> PICK p : p = PacketOf(m)
  OBVIOUS
<1>5. p \in Seq(Octet) /\ Len(p) = k + n /\ p[1] = <<"length", n + k>> /\ p[k + 1] = <<"data", m>>
  BY <1>2, <1>3, <1>4, JoinedRepeated
<1> QED
  BY <1>2, <1>5

LEMMA PacketsType ==
  ASSUME NEW msgs \in Seq(Msg)
  PROVE  /\ Packets(msgs) \in Seq(Seq(Octet)) /\ Len(Packets(msgs)) = Len(msgs)
         /\ FlattenSeq(Packets(msgs)) \in Seq(Octet)
<1> PICK n \in Nat : n = Len(msgs) /\ DOMAIN msgs = 1..n
  BY LenProperties
<1>1. \A j \in 1..n : msgs[j] \in Msg
  BY ElementOfSeq
<1>2. Packets(msgs) \in [1..n -> Seq(Octet)]
  BY <1>1, PacketOfType DEF Packets
<1>3. Packets(msgs) \in Seq(Seq(Octet)) /\ Len(Packets(msgs)) = n
  BY <1>2, SeqDef, LenProperties
<1> QED
  BY <1>3, FlattenSeqType

(* A message more at the end. *)
LEMMA PacketsAppend ==
  ASSUME NEW msgs \in Seq(Msg), NEW m \in Msg
  PROVE  FlattenSeq(Packets(Append(msgs, m))) = Joined(FlattenSeq(Packets(msgs)), PacketOf(m))
<1> PICK n \in Nat : n = Len(msgs) /\ DOMAIN msgs = 1..n
  BY LenProperties
<1> PICK more \in Seq(Msg) : more = Append(msgs, m)
  BY AppendProperties
<1>1. Len(more) = n + 1 /\ DOMAIN more = 1..(n + 1)
  BY AppendProperties, LenProperties
<1>2. (\A j \in 1..n : more[j] = msgs[j]) /\ more[n + 1] = m
  BY AppendProperties
<1>3. /\ Packets(msgs) \in Seq(Seq(Octet)) /\ Len(Packets(msgs)) = n
      /\ Packets(more) \in Seq(Seq(Octet)) /\ Len(Packets(more)) = n + 1
  BY <1>1, PacketsType
<1>4. PacketOf(m) \in Seq(Octet)
  BY PacketOfType
<1>5. (\A j \in 1..n : Packets(more)[j] = Packets(msgs)[j]) /\ Packets(more)[n + 1] = PacketOf(m)
  BY <1>1, <1>2 DEF Packets
<1>6. Packets(more) = Append(Packets(msgs), PacketOf(m))
  <2> PICK p \in Seq(Seq(Octet)), q \in Seq(Seq(Octet)), x \in Seq(Octet) :
        p = Packets(msgs) /\ q = Packets(more) /\ x = PacketOf(m)
    BY <1>3, <1>4
  <2>1. Append(p, x) \in Seq(Seq(Octet)) /\ Len(Append(p, x)) = n + 1
    BY <1>3, AppendProperties
  <2>2. (\A j \in 1..n : Append(p, x)[j] = p[j]) /\ Append(p, x)[n + 1] = x
    BY <1>3, AppendProperties
  <2>3. \A j \in 1..(n + 1) : q[j] = Append(p, x)[j]
    <3>1. \A j \in 1..(n + 1) : j \in 1..n \/ j = n + 1
      OBVIOUS
    <3> QED
      BY <1>5, <2>2, <3>1
  <2>4. q = Append(p, x)
    BY <1>3, <2>1, <2>3, SeqEqual
  <2> QED
    BY <2>4
<1> QED
  BY <1>3, <1>4, <1>6, FlattenSeqAppend DEF Joined

(* The first message comes first. *)
LEMMA PacketsFirst ==
  ASSUME NEW msgs \in Seq(Msg), msgs # <<>>
  PROVE  /\ msgs[1] \in Msg /\ Tail(msgs) \in Seq(Msg)
         /\ FlattenSeq(Packets(msgs))
              = Joined(PacketOf(msgs[1]), FlattenSeq(Packets(Tail(msgs))))
<1> PICK n \in Nat : n = Len(msgs) /\ DOMAIN msgs = 1..n /\ n > 0
  BY LenProperties, EmptySeq
<1> PICK rest \in Seq(Msg) : rest = Tail(msgs)
  BY HeadTailProperties
<1>1. Len(rest) = n - 1 /\ n - 1 \in Nat /\ \A j \in 1..(n - 1) : rest[j] = msgs[j + 1]
  BY HeadTailProperties
<1>2. DOMAIN rest = 1..(n - 1)
  BY <1>1, LenProperties
<1>3. msgs[1] \in Msg
  BY ElementOfSeq
<1>4. /\ Packets(msgs) \in Seq(Seq(Octet)) /\ Len(Packets(msgs)) = n
      /\ Packets(rest) \in Seq(Seq(Octet)) /\ Len(Packets(rest)) = n - 1
  BY <1>1, PacketsType
<1>5. /\ Packets(msgs)[1] = PacketOf(msgs[1])
      /\ \A j \in 1..(n - 1) : Packets(rest)[j] = Packets(msgs)[j + 1]
  <2>1. 1 \in 1..n /\ \A j \in 1..(n - 1) : j + 1 \in 1..n
    OBVIOUS
  <2> QED
    BY <1>1, <1>2, <2>1 DEF Packets
<1>6. Packets(msgs) # <<>>
  BY <1>4, EmptySeq
<1>7. /\ Head(Packets(msgs)) = PacketOf(msgs[1]) /\ Tail(Packets(msgs)) = Packets(rest)
  <2> PICK p \in Seq(Seq(Octet)), q \in Seq(Seq(Octet)) : p = Packets(msgs) /\ q = Packets(rest)
    BY <1>4
  <2>1. Tail(p) \in Seq(Seq(Octet)) /\ Len(Tail(p)) = n - 1 /\ Head(p) = p[1]
    BY <1>4, <1>6, HeadTailProperties
  <2>2. \A j \in 1..(n - 1) : Tail(p)[j] = q[j]
    <3>1. \A j \in 1..(Len(p) - 1) : Tail(p)[j] = p[j + 1]
      BY <1>6, HeadTailProperties
    <3> QED
      BY <1>4, <1>5, <3>1
  <2>3. Tail(p) = q
    BY <1>4, <2>1, <2>2, SeqEqual
  <2> QED
    BY <1>5, <2>1, <2>3
<1> QED
  BY <1>3, <1>4, <1>6, <1>7, FlattenSeqFirst DEF Joined

LEMMA NoPackets ==
  /\ FlattenSeq(Packets(<<>>)) = <<>>
  /\ \A msgs \in Seq(Msg) : FlattenSeq(Packets(msgs)) = <<>> => msgs = <<>>
<1>1. FlattenSeq(Packets(<<>>)) = <<>>
  <2>1. <<>> \in Seq(Msg) /\ Len(<<>>) = 0
    BY EmptySeq
  <2>2. Packets(<<>>) \in Seq(Seq(Octet)) /\ Len(Packets(<<>>)) = 0
    BY <2>1, PacketsType
  <2>3. Packets(<<>>) = <<>>
    BY <2>2, EmptySeq
  <2> QED
    BY <2>3, FlattenSeqEmpty
<1>2. ASSUME NEW msgs \in Seq(Msg), msgs # <<>> PROVE FlattenSeq(Packets(msgs)) # <<>>
  <2>0. msgs[1] \in Msg /\ Tail(msgs) \in Seq(Msg)
    BY <1>2, PacketsFirst
  <2> PICK x \in Seq(Octet), y \in Seq(Octet) :
        /\ PacketOf(msgs[1]) = x /\ FlattenSeq(Packets(Tail(msgs))) = y
        /\ Len(x) \in Nat /\ Len(x) > LengthOctets
    BY <2>0, PacketOfType, PacketsType
  <2>1. Len(x) \in Nat /\ Len(x) # 0 /\ Len(y) \in Nat
    BY PacketAssumption, LenProperties
  <2>2. Joined(x, y) \in Seq(Octet) /\ Len(Joined(x, y)) = Len(x) + Len(y)
    BY JoinedType, JoinedElements
  <2>3. Joined(x, y) # <<>>
    BY <2>1, <2>2, EmptySeq
  <2> QED
    BY <1>2, <2>3, PacketsFirst
<1> QED
  BY <1>1, <1>2

PacketBody(s, n) == SubSeq(s, LengthOctets + 1, n)

(* What a reader finds of the first message when it has read s and not t. *)
LEMMA FirstPacketRead ==
  ASSUME NEW msgs \in Seq(Msg), msgs # <<>>, NEW s \in Seq(Octet), NEW t \in Seq(Octet),
         FlattenSeq(Packets(msgs)) = Joined(s, t), NEW n, n = Len(PacketOf(msgs[1]))
  PROVE  /\ n \in Nat /\ n > LengthOctets
         /\ Len(s) >= 1 => s[1] = <<"length", n>>
         /\ Len(s) >= n => /\ PacketBody(s, n)[1] = <<"data", msgs[1]>>
                           /\ Rest(s, n) \in Seq(Octet)
                           /\ FlattenSeq(Packets(Tail(msgs))) = Joined(Rest(s, n), t)
<1>1. msgs[1] \in Msg /\ Tail(msgs) \in Seq(Msg)
  BY PacketsFirst
<1>2. Joined(PacketOf(msgs[1]), FlattenSeq(Packets(Tail(msgs)))) = Joined(s, t)
  BY PacketsFirst
<1> PICK x \in Seq(Octet), y \in Seq(Octet) :
      PacketOf(msgs[1]) = x /\ FlattenSeq(Packets(Tail(msgs))) = y
  BY <1>1, PacketOfType, PacketsType
<1>3. Joined(x, y) = Joined(s, t) /\ n = Len(x)
  BY <1>2
<1> PICK k \in Nat, a \in Nat : k = LengthOctets /\ a = Len(s)
  BY LenProperties, PacketAssumption
<1>4. n \in Nat /\ n > k /\ k > 0 /\ x[1] = <<"length", n>> /\ x[k + 1] = <<"data", msgs[1]>>
  <2>1. /\ Len(PacketOf(msgs[1])) \in Nat /\ Len(PacketOf(msgs[1])) > LengthOctets
        /\ PacketOf(msgs[1])[1] = <<"length", Len(PacketOf(msgs[1]))>>
        /\ PacketOf(msgs[1])[LengthOctets + 1] = <<"data", msgs[1]>>
    BY <1>1, PacketOfType
  <2> QED
    BY <2>1, PacketAssumption
<1>5. ASSUME NEW i \in 1..a, i <= n PROVE s[i] = x[i]
  <2>1. i \in 1..Len(s) /\ i <= Len(x)
    BY <1>3, <1>5
  <2> QED
    BY <1>3, <2>1, StartOfPacket
<1>6. ASSUME a >= 1 PROVE s[1] = <<"length", n>>
  <2>1. 1 \in 1..a /\ 1 <= n
    BY <1>4, <1>6
  <2> QED
    BY <1>4, <1>5, <2>1
<1>7. ASSUME a >= n PROVE SubSeq(s, k + 1, n)[1] = <<"data", msgs[1]>>
  <2>1. \A i \in 1..a : s[i] \in Octet
    BY ElementOfSeq
  <2>2. \A i \in (k + 1)..n : s[i] \in Octet
    BY <1>4, <1>7, <2>1
  <2>3. 1 \in 1..(n - (k + 1) + 1) /\ (k + 1) + 1 - 1 = k + 1 /\ k + 1 \in 1..a /\ k + 1 <= n
    BY <1>4, <1>7
  <2>4. k + 1 \in Int /\ n \in Int
    BY <1>4
  <2>5. SubSeq(s, k + 1, n)[1] = s[(k + 1) + 1 - 1]
    BY <2>2, <2>3, <2>4, SubSeqProperties
  <2> QED
    BY <1>4, <1>5, <2>3, <2>5
<1>8. ASSUME a >= n PROVE Rest(s, n) \in Seq(Octet) /\ y = Joined(Rest(s, n), t)
  BY <1>3, <1>8, PacketTaken
<1> QED
  BY <1>4, <1>6, <1>7, <1>8 DEF PacketBody

-----------------------------------------------------------------------------
(* The inductive invariant.  given[n] is the device that number n was given to, as far
   as it matters; msgs are the messages the listener has not handled. *)

Fatal(m) ==
  \/ m.type = "Other"
  \/ m.type = "Result" /\ m.num # 0
  \/ m.type = "Attached" /\ m.serial = Null

Clean(msgs) == \A j \in DOMAIN msgs : ~Fatal(msgs[j])

About(msgs, n) ==
  {j \in DOMAIN msgs : msgs[j].type \in {"Attached", "Detached"} /\ msgs[j].num = n}

(* The octets between usbmuxd and the listener are those of the messages. *)
Stream(msgs) ==
  /\ FlattenSeq(Packets(msgs)) = Joined(unread, wire)
  /\ hasLength => /\ msgs # <<>> /\ bodyLength = Len(PacketOf(msgs[1]))
                  /\ Len(unread) >= LengthOctets

(* Whatever speaks of a number means the same device. *)
Consistent(given, msgs) ==
  /\ \A n \in DOMAIN plugged : plugged[n] = given[n]
  /\ \A k \in Keys(table) : k \in 1..lastNum /\ GetValue(table, k) = DeviceId(given[k])
  /\ \A j \in DOMAIN msgs : msgs[j].type = "Attached" /\ msgs[j].serial # Null
       => msgs[j].num \in 1..lastNum /\ msgs[j].serial = given[msgs[j].num]

(* The last message about a number, or else the table, says whether it is connected. *)
Current(msgs) ==
  \A n \in 1..lastNum :
    /\ About(msgs, n) = {} => (n \in Keys(table) <=> n \in DOMAIN plugged)
    /\ \A j \in About(msgs, n) :
         (\A i \in About(msgs, n) : i <= j)
           => (msgs[j].type = "Attached" <=> n \in DOMAIN plugged)

(* A number that is detached is known by then, and is not detached again. *)
Expected(msgs) ==
  /\ Clean(msgs)
  /\ \A j \in DOMAIN msgs : msgs[j].type = "Detached" =>
       /\ msgs[j].num \in 1..lastNum /\ msgs[j].num \notin DOMAIN plugged
       /\ \A i \in DOMAIN msgs :
            msgs[i].type = "Detached" /\ msgs[i].num = msgs[j].num => i = j
       /\ \/ msgs[j].num \in Keys(table)
          \/ \E i \in DOMAIN msgs : /\ i < j /\ msgs[i].type = "Attached"
                                    /\ msgs[i].num = msgs[j].num

Tracks(given, msgs) ==
  /\ Stream(msgs) /\ Consistent(given, msgs)
  /\ Clean(msgs) => Current(msgs)
  /\ odd = 0 => Expected(msgs)
  /\ \A d \in served : \E k \in Keys(table) : d = GetValue(table, k)

Given == [1..lastNum -> Serial \cup {Null}]

Base ==
  /\ wire \in Seq(Octet) /\ unread \in Seq(Octet)
  /\ lastNum \in 0..MaxNum /\ odd \in Nat
  /\ DOMAIN plugged \subseteq 1..lastNum /\ \A n \in DOMAIN plugged : plugged[n] \in Serial
  /\ listener \in {"off", "up", "down"} /\ Sound(table)
  /\ listener = "off" => /\ wire = <<>> /\ unread = <<>> /\ ~reading /\ ~hasLength
                         /\ table = New /\ served = {} /\ odd = 0
  /\ listener = "down" => ~reading /\ odd > 0

Inv ==
  /\ Base
  /\ listener = "up" => \E given \in Given, msgs \in Seq(Msg) : Tracks(given, msgs)

-----------------------------------------------------------------------------
(* The table. *)

LEMMA DeviceIds ==
  /\ DeviceId(Null) = Null
  /\ \A s \in Serial : DeviceId(s) \in Value /\ DeviceId(s) # Null
<1>1. \A s \in Serial : DeviceId(s) \in Value
  BY IdsAreValues DEF Ids
<1> QED
  BY <1>1, HashTableAssumption DEF DeviceId

(* What is known of a key is a value, and of no other. *)
LEMMA KnownKeys ==
  ASSUME NEW t, Sound(t), NEW k \in Key
  PROVE  GetValue(t, k) # Null <=> k \in Keys(t)
<1>1. CASE Found(t, k)
  <2>1. Chain(t, k)[Find(t, k)] \in Entry /\ Chain(t, k)[Find(t, k)].value = GetValue(t, k)
    BY <1>1, LookupsFindEntries
  <2>2. GetValue(t, k) \in Value
    BY <2>1 DEF Entry
  <2> QED
    BY <1>1, <2>2, KeysAreFound, HashTableAssumption
<1>2. CASE ~Found(t, k)
  BY <1>2, KeysAreFound DEF GetValue
<1> QED
  BY <1>1, <1>2

LEMMA NumsAreKeys == \A m \in Msg : m.num \in Key
  BY ListenerAssumption DEF Msg

(* What a message does to the table. *)
LEMMA TableStep ==
  ASSUME Sound(table), NEW m \in Msg, NEW t, t = TableAfter(m)
  PROVE  /\ Sound(t)
         /\ m.type = "Attached" /\ m.serial # Null =>
              Keys(t) = Keys(table) \cup {m.num} /\ GetValue(t, m.num) = DeviceId(m.serial)
         /\ m.type = "Detached" => Keys(t) = Keys(table) \ {m.num}
         /\ m.type \notin {"Attached", "Detached"} => t = table
         /\ \A q \in Key \ {m.num} : GetValue(t, q) = GetValue(table, q)
<1>1. m.num \in Key /\ m.serial \in Serial \cup {Null}
  BY NumsAreKeys DEF Msg
<1>2. CASE m.type = "Attached"
  <2>1. t = PutKey(table, m.num, DeviceId(m.serial))
    BY <1>2 DEF TableAfter
  <2>2. /\ DeviceId(m.serial) \in Value \cup {Null}
        /\ m.serial # Null => DeviceId(m.serial) # Null
    BY <1>1, DeviceIds
  <2> QED
    BY <1>1, <1>2, <2>1, <2>2, PutSets
<1>3. CASE m.type = "Detached"
  <2>1. t = RemoveKey(table, m.num)
    BY <1>3 DEF TableAfter
  <2> QED
    BY <1>1, <1>3, <2>1, RemoveTakesOut
<1>4. CASE m.type \notin {"Attached", "Detached"}
  BY <1>4 DEF TableAfter
<1> QED
  BY <1>2, <1>3, <1>4

-----------------------------------------------------------------------------
(* Usbmuxd tells of something: a message more. *)

LEMMA TellStreams ==
  ASSUME listener = "up", wire \in Seq(Octet), unread \in Seq(Octet),
         NEW msgs \in Seq(Msg), Stream(msgs), NEW m \in Msg, Tell(<<m>>),
         UNCHANGED <<unread, hasLength, bodyLength>>,
         NEW more, more = Append(msgs, m)
  PROVE  wire' \in Seq(Octet) /\ Stream(more)'
<1> PICK p \in Seq(Octet) : p = PacketOf(m)
  BY PacketOfType
<1>1. wire' = Joined(wire, p)
  <2>1. DOMAIN <<m>> = {1} /\ <<m>>[1] = m
    OBVIOUS
  <2>2. [i \in DOMAIN <<m>> |-> PacketOf(<<m>>[i])] = <<p>>
    <3>1. [i \in DOMAIN <<m>> |-> PacketOf(<<m>>[i])] = [i \in {1} |-> p]
      BY <2>1
    <3>2. [i \in {1} |-> p] = <<p>>
      OBVIOUS
    <3> QED
      BY <3>1, <3>2
  <2>3. FlattenSeq(<<p>>) = p
    BY FlattenSeqOne
  <2> QED
    BY <2>2, <2>3 DEF Tell, Joined
<1>2. wire' \in Seq(Octet)
  BY <1>1, JoinedType
<1>3. FlattenSeq(Packets(more)) = Joined(FlattenSeq(Packets(msgs)), p)
  BY PacketsAppend
<1>4. Joined(Joined(unread, wire), p) = Joined(unread, Joined(wire, p))
  BY JoinedAssociative
<1>5. FlattenSeq(Packets(more)) = Joined(unread', wire')
  BY <1>1, <1>3, <1>4 DEF Stream
<1>6. msgs # <<>> => more # <<>> /\ more[1] = msgs[1]
  <2> SUFFICES ASSUME msgs # <<>> PROVE more # <<>> /\ more[1] = msgs[1]
    OBVIOUS
  <2> PICK k \in Nat : k = Len(msgs)
    BY LenProperties
  <2>1. k # 0 /\ more \in Seq(Msg) /\ Len(more) = k + 1 /\ \A n \in 1..k : more[n] = msgs[n]
    BY Appended, EmptySeq
  <2>2. k + 1 # 0 /\ 1 \in 1..k
    BY <2>1
  <2> QED
    BY <2>1, <2>2, EmptySeq
<1>7. hasLength' => /\ more # <<>> /\ bodyLength' = Len(PacketOf(more[1]))
                    /\ Len(unread') >= LengthOctets
  BY <1>6 DEF Stream
<1> QED
  BY <1>2, <1>5, <1>7 DEF Stream

(* The last message about a number is now this one. *)
LEMMA TellIsCurrent ==
  ASSUME NEW msgs \in Seq(Msg), NEW m \in Msg, NEW more, more = Append(msgs, m),
         Clean(msgs) => Current(msgs), lastNum \in Nat, lastNum' \in Nat, table' = table,
         ~Fatal(m) /\ m.type \in {"Attached", "Detached"}
           => (m.type = "Attached" <=> m.num \in DOMAIN plugged'),
         \A n \in 1..lastNum' :
           \/ m.num = n /\ m.type \in {"Attached", "Detached"}
           \/ n \in 1..lastNum /\ (n \in DOMAIN plugged' <=> n \in DOMAIN plugged)
  PROVE  Clean(more) => Current(more)'
<1> PICK k \in Nat : k = Len(msgs) /\ DOMAIN msgs = 1..k /\ DOMAIN more = 1..(k + 1)
  BY Appended
<1>1. (\A j \in 1..k : more[j] = msgs[j]) /\ more[k + 1] = m
  BY Appended
<1> SUFFICES ASSUME Clean(more), NEW n \in 1..lastNum'
             PROVE  /\ About(more, n) = {} => (n \in Keys(table) <=> n \in DOMAIN plugged')
                    /\ \A j \in About(more, n) :
                         (\A i \in About(more, n) : i <= j)
                           => (more[j].type = "Attached" <=> n \in DOMAIN plugged')
  BY DEF Current
<1>2. ~Fatal(m) /\ Clean(msgs)
  <2>1. k + 1 \in 1..(k + 1) /\ \A j \in 1..k : j \in 1..(k + 1)
    OBVIOUS
  <2> QED
    BY <1>1, <2>1 DEF Clean
<1>3. CASE m.num = n /\ m.type \in {"Attached", "Detached"}
  <2>1. k + 1 \in About(more, n)
    BY <1>1, <1>3 DEF About
  <2>2. \A j \in About(more, n) : j \in 1..(k + 1) /\ (k + 1 <= j => j = k + 1)
    BY DEF About
  <2> QED
    BY <1>1, <1>2, <1>3, <2>1, <2>2
<1>4. CASE ~(m.num = n /\ m.type \in {"Attached", "Detached"})
  <2>1. n \in 1..lastNum /\ (n \in DOMAIN plugged' <=> n \in DOMAIN plugged)
    BY <1>4
  <2>2. About(more, n) = About(msgs, n)
    <3>1. k + 1 \notin About(more, n)
      BY <1>1, <1>4 DEF About
    <3>2. \A j \in 1..(k + 1) : j \in 1..k \/ j = k + 1
      OBVIOUS
    <3>3. \A j \in 1..k : j \in 1..(k + 1)
      OBVIOUS
    <3> QED
      BY <1>1, <3>1, <3>2, <3>3 DEF About
  <2>3. \A j \in About(msgs, n) : more[j] = msgs[j]
    BY <1>1 DEF About
  <2> QED
    BY <1>2, <2>1, <2>2, <2>3 DEF Current
<1> QED
  BY <1>3, <1>4

(* A message of a usbmuxd that has sent nothing unexpected. *)
LEMMA TellIsExpected ==
  ASSUME NEW msgs \in Seq(Msg), NEW m \in Msg, NEW more, more = Append(msgs, m),
         Expected(msgs), ~Fatal(m), table' = table,
         \A n \in 1..lastNum :
           n \in 1..lastNum' /\ (n \notin DOMAIN plugged => n \notin DOMAIN plugged'),
         m.type = "Detached" =>
           /\ m.num \in 1..lastNum' /\ m.num \in DOMAIN plugged /\ m.num \notin DOMAIN plugged'
           /\ \/ m.num \in Keys(table)
              \/ \E i \in DOMAIN msgs : msgs[i].type = "Attached" /\ msgs[i].num = m.num
  PROVE  Expected(more)'
<1> PICK k \in Nat : k = Len(msgs) /\ DOMAIN msgs = 1..k /\ DOMAIN more = 1..(k + 1)
  BY Appended
<1>1. (\A j \in 1..k : more[j] = msgs[j]) /\ more[k + 1] = m
  BY Appended
<1>2. /\ \A j \in 1..(k + 1) : j \in 1..k \/ j = k + 1
      /\ \A j \in 1..k : j \in 1..(k + 1) /\ j < k + 1
  OBVIOUS
<1>3. Clean(more)
  BY <1>1, <1>2 DEF Expected, Clean
<1>4. \A j \in 1..k : msgs[j].type = "Detached" =>
        /\ msgs[j].num \in 1..lastNum /\ msgs[j].num \notin DOMAIN plugged
        /\ \A i \in 1..k : msgs[i].type = "Detached" /\ msgs[i].num = msgs[j].num => i = j
        /\ \/ msgs[j].num \in Keys(table)
           \/ \E i \in 1..k : /\ i < j /\ msgs[i].type = "Attached"
                              /\ msgs[i].num = msgs[j].num
  BY DEF Expected
<1>5. ASSUME NEW j \in 1..(k + 1), more[j].type = "Detached"
      PROVE  more[j].num \in 1..lastNum' /\ more[j].num \notin DOMAIN plugged'
  BY <1>1, <1>2, <1>4, <1>5
<1>6. ASSUME NEW j \in 1..(k + 1), more[j].type = "Detached",
             NEW i \in 1..(k + 1), more[i].type = "Detached", more[i].num = more[j].num
      PROVE  i = j
  <2>1. CASE i \in 1..k /\ j \in 1..k
    BY <1>1, <1>4, <1>6, <2>1
  <2>2. CASE i = k + 1 /\ j \in 1..k
    BY <1>1, <1>4, <1>6, <2>2
  <2>3. CASE i \in 1..k /\ j = k + 1
    BY <1>1, <1>4, <1>6, <2>3
  <2> QED
    BY <1>2, <2>1, <2>2, <2>3
<1>7. ASSUME NEW j \in 1..(k + 1), more[j].type = "Detached"
      PROVE  \/ more[j].num \in Keys(table)
             \/ \E i \in 1..(k + 1) : /\ i < j /\ more[i].type = "Attached"
                                      /\ more[i].num = more[j].num
  <2>1. CASE j \in 1..k
    <3>1. CASE msgs[j].num \in Keys(table)
      BY <1>1, <2>1, <3>1
    <3>2. ASSUME NEW i \in 1..k, i < j, msgs[i].type = "Attached", msgs[i].num = msgs[j].num
          PROVE  \E i2 \in 1..(k + 1) : /\ i2 < j /\ more[i2].type = "Attached"
                                       /\ more[i2].num = more[j].num
      BY <1>1, <1>2, <2>1, <3>2
    <3> QED
      BY <1>1, <1>4, <1>7, <2>1, <3>1, <3>2
  <2>2. CASE j = k + 1
    <3>1. ASSUME NEW i \in 1..k, msgs[i].type = "Attached", msgs[i].num = m.num
          PROVE  \E i2 \in 1..(k + 1) : /\ i2 < j /\ more[i2].type = "Attached"
                                       /\ more[i2].num = more[j].num
      BY <1>1, <1>2, <2>2, <3>1
    <3> QED
      BY <1>1, <1>7, <2>2, <3>1
  <2> QED
    BY <1>2, <2>1, <2>2
<1> QED
  BY <1>3, <1>5, <1>6, <1>7 DEF Expected

LEMMA PlugStep ==
  ASSUME Base, listener = "up", NEW serial \in Serial, Plug(serial),
         NEW given \in Given, NEW msgs \in Seq(Msg), Tracks(given, msgs)
  PROVE  wire' \in Seq(Octet) /\ \E g \in Given', more \in Seq(Msg) : Tracks(g, more)'
<1> PICK n \in Nat : n = lastNum /\ n \in 0..MaxNum /\ n < MaxNum /\ n + 1 \in 0..MaxNum
  BY ListenerAssumption DEF Base, Plug
<1>1. /\ lastNum' = n + 1 /\ plugged' = [k \in DOMAIN plugged \cup {n + 1} |->
                                           IF k = n + 1 THEN serial ELSE plugged[k]]
      /\ UNCHANGED <<unread, reading, hasLength, bodyLength, odd, listener, table, served>>
  BY DEF Plug, listenerVars
<1> PICK m : m = Message("Attached", n + 1, serial)
  OBVIOUS
<1>2. m \in Msg /\ m.type = "Attached" /\ m.num = n + 1 /\ m.serial = serial /\ serial # Null
  BY ListenerAssumption DEF Message, Msg
<1>3. Tell(<<m>>)
  BY <1>1 DEF Plug
<1> PICK more : more = Append(msgs, m)
  OBVIOUS
<1>4. wire' \in Seq(Octet) /\ Stream(more)'
  BY <1>1, <1>2, <1>3, TellStreams DEF Base, Tracks
<1>5. Clean(more) => Current(more)'
  <2>1. \A i \in 1..lastNum' :
          \/ m.num = i /\ m.type \in {"Attached", "Detached"}
          \/ i \in 1..lastNum /\ (i \in DOMAIN plugged' <=> i \in DOMAIN plugged)
    BY <1>1, <1>2
  <2>2. m.num \in DOMAIN plugged'
    BY <1>1, <1>2
  <2>3. lastNum \in Nat /\ lastNum' \in Nat /\ table' = table /\ (Clean(msgs) => Current(msgs))
    BY <1>1 DEF Tracks
  <2> QED
    BY <1>2, <2>1, <2>2, <2>3, TellIsCurrent
<1> PICK k \in Nat : k = Len(msgs) /\ DOMAIN msgs = 1..k /\ DOMAIN more = 1..(k + 1)
  BY <1>2, Appended
<1>6. more \in Seq(Msg) /\ (\A j \in 1..k : more[j] = msgs[j]) /\ more[k + 1] = m
  BY <1>2, Appended
<1>7. \A j \in 1..(k + 1) : j \in 1..k \/ j = k + 1
  OBVIOUS
<1>8. n + 1 \notin DOMAIN plugged /\ n + 1 \notin Keys(table)
  BY DEF Base, Tracks, Consistent
<1> PICK g : g = [i \in 1..(n + 1) |-> IF i = n + 1 THEN serial ELSE given[i]]
  OBVIOUS
<1>9. g \in Given' /\ g[n + 1] = serial /\ \A i \in 1..n : i \in 1..(n + 1) /\ g[i] = given[i]
  <2>1. \A i \in 1..(n + 1) : i # n + 1 => i \in 1..n
    OBVIOUS
  <2> QED
    BY <1>1, <2>1 DEF Given
<1>10. Consistent(g, more)'
  <2>1. \A i \in DOMAIN plugged' : plugged'[i] = g[i]
    <3>1. DOMAIN plugged' = DOMAIN plugged \cup {n + 1} /\ DOMAIN plugged \subseteq 1..n
      BY <1>1 DEF Base
    <3>2. \A i \in DOMAIN plugged : i # n + 1 /\ plugged[i] = given[i] /\ g[i] = given[i]
      BY <1>8, <1>9, <3>1 DEF Tracks, Consistent
    <3> QED
      BY <1>1, <1>9, <3>1, <3>2
  <2>2. \A i \in Keys(table') : i \in 1..lastNum' /\ GetValue(table', i) = DeviceId(g[i])
    BY <1>1, <1>9 DEF Tracks, Consistent
  <2>3. \A j \in DOMAIN more : more[j].type = "Attached" /\ more[j].serial # Null
          => more[j].num \in 1..lastNum' /\ more[j].serial = g[more[j].num]
    <3>1. \A j \in 1..k : msgs[j].type = "Attached" /\ msgs[j].serial # Null
            => msgs[j].num \in 1..n /\ msgs[j].serial = given[msgs[j].num]
      BY DEF Tracks, Consistent
    <3>2. \A j \in 1..k : more[j].type = "Attached" /\ more[j].serial # Null
            => more[j].num \in 1..(n + 1) /\ more[j].serial = g[more[j].num]
      BY <1>6, <1>9, <3>1
    <3>3. n + 1 \in 1..(n + 1)
      OBVIOUS
    <3> QED
      BY <1>1, <1>2, <1>6, <1>7, <1>9, <3>2, <3>3
  <2> QED
    BY <2>1, <2>2, <2>3 DEF Consistent
<1>11. odd' = 0 => Expected(more)'
  <2> SUFFICES ASSUME odd = 0 PROVE Expected(more)'
    BY <1>1
  <2>1. Expected(msgs)
    BY DEF Tracks
  <2>2. \A i \in 1..lastNum : i \in 1..lastNum' /\ (i \notin DOMAIN plugged => i \notin DOMAIN plugged')
    BY <1>1
  <2> QED
    BY <1>1, <1>2, <2>1, <2>2, TellIsExpected DEF Fatal
<1>12. Tracks(g, more)'
  <2>1. \A d \in served' : \E i \in Keys(table') : d = GetValue(table', i)
    BY <1>1 DEF Tracks
  <2> QED
    BY <1>4, <1>5, <1>10, <1>11, <2>1 DEF Tracks
<1> QED
  BY <1>4, <1>6, <1>9, <1>12

LEMMA UnplugStep ==
  ASSUME Base, listener = "up", NEW num \in 1..MaxNum, Unplug(num),
         NEW given \in Given, NEW msgs \in Seq(Msg), Tracks(given, msgs)
  PROVE  wire' \in Seq(Octet) /\ \E g \in Given', more \in Seq(Msg) : Tracks(g, more)'
<1>1. /\ num \in DOMAIN plugged /\ num \in 1..lastNum
      /\ DOMAIN plugged' = DOMAIN plugged \ {num}
      /\ \A n \in DOMAIN plugged' : plugged'[n] = plugged[n]
      /\ UNCHANGED <<unread, reading, hasLength, bodyLength, lastNum, odd, listener, table, served>>
  BY DEF Unplug, listenerVars, Restrict, Base
<1> PICK m : m = Message("Detached", num, Null)
  OBVIOUS
<1>2. m \in Msg /\ m.type = "Detached" /\ m.num = num
  BY ListenerAssumption DEF Message, Msg
<1>3. Tell(<<m>>)
  BY DEF Unplug
<1> PICK more : more = Append(msgs, m)
  OBVIOUS
<1>4. wire' \in Seq(Octet) /\ Stream(more)'
  BY <1>1, <1>2, <1>3, TellStreams DEF Base, Tracks
<1>5. lastNum \in Nat /\ lastNum' = lastNum /\ table' = table
  BY <1>1, ListenerAssumption DEF Base
<1>6. Clean(more) => Current(more)'
  <2>1. \A i \in 1..lastNum' :
          \/ m.num = i /\ m.type \in {"Attached", "Detached"}
          \/ i \in 1..lastNum /\ (i \in DOMAIN plugged' <=> i \in DOMAIN plugged)
    BY <1>1, <1>2
  <2>2. m.num \notin DOMAIN plugged' /\ m.type # "Attached"
    BY <1>1, <1>2
  <2> QED
    BY <1>2, <1>5, <2>1, <2>2, TellIsCurrent DEF Tracks
<1> PICK k \in Nat : k = Len(msgs) /\ DOMAIN msgs = 1..k /\ DOMAIN more = 1..(k + 1)
  BY <1>2, Appended
<1>7. more \in Seq(Msg) /\ (\A j \in 1..k : more[j] = msgs[j]) /\ more[k + 1] = m
  BY <1>2, Appended
<1>8. \A j \in 1..(k + 1) : j \in 1..k \/ j = k + 1
  OBVIOUS
<1>9. Consistent(given, more)'
  <2>1. \A i \in DOMAIN plugged' : plugged'[i] = given[i]
    BY <1>1 DEF Tracks, Consistent
  <2>2. \A i \in Keys(table') : i \in 1..lastNum' /\ GetValue(table', i) = DeviceId(given[i])
    BY <1>1 DEF Tracks, Consistent
  <2>3. \A j \in DOMAIN more : more[j].type = "Attached" /\ more[j].serial # Null
          => more[j].num \in 1..lastNum' /\ more[j].serial = given[more[j].num]
    BY <1>1, <1>2, <1>7, <1>8 DEF Tracks, Consistent
  <2> QED
    BY <2>1, <2>2, <2>3 DEF Consistent
<1>10. odd' = 0 => Expected(more)'
  <2> SUFFICES ASSUME odd = 0 PROVE Expected(more)'
    BY <1>1
  <2>1. Expected(msgs) /\ Current(msgs)
    BY DEF Tracks, Expected
  <2>2. num \in Keys(table) \/ \E i \in DOMAIN msgs : msgs[i].type = "Attached" /\ msgs[i].num = num
    <3>1. CASE About(msgs, num) = {}
      BY <1>1, <2>1, <3>1 DEF Current
    <3>2. CASE About(msgs, num) # {}
      <4>1. PICK i \in DOMAIN msgs : msgs[i].type \in {"Attached", "Detached"} /\ msgs[i].num = num
        BY <3>2 DEF About
      <4> QED
        BY <1>1, <2>1, <4>1 DEF Expected
    <3> QED
      BY <3>1, <3>2
  <2>3. ~Fatal(m)
    BY <1>2 DEF Fatal
  <2>4. /\ \A n \in 1..lastNum :
             n \in 1..lastNum' /\ (n \notin DOMAIN plugged => n \notin DOMAIN plugged')
        /\ m.num \in 1..lastNum' /\ m.num \in DOMAIN plugged /\ m.num \notin DOMAIN plugged'
    BY <1>1, <1>2
  <2> QED
    BY <1>2, <1>5, <2>1, <2>2, <2>3, <2>4, TellIsExpected
<1>11. Tracks(given, more)'
  <2>1. \A d \in served' : \E i \in Keys(table') : d = GetValue(table', i)
    BY <1>1 DEF Tracks
  <2> QED
    BY <1>4, <1>6, <1>9, <1>10, <2>1 DEF Tracks
<1> QED
  BY <1>1, <1>4, <1>7, <1>11 DEF Given

LEMMA OddStep ==
  ASSUME Base, listener = "up", SendOdd,
         NEW given \in Given, NEW msgs \in Seq(Msg), Tracks(given, msgs)
  PROVE  wire' \in Seq(Octet) /\ \E g \in Given', more \in Seq(Msg) : Tracks(g, more)'
<1>1. /\ odd' = odd + 1 /\ odd \in Nat
      /\ UNCHANGED <<unread, reading, hasLength, bodyLength, plugged, lastNum, listener, table, served>>
  BY DEF SendOdd, listenerVars, Base
<1>2. PICK m \in OddMessages : Tell(<<m>>)
  BY DEF SendOdd
<1>3. /\ m \in Msg
      /\ m.type = "Attached" /\ m.serial # Null =>
           m.num \in DOMAIN plugged /\ m.serial = plugged[m.num]
      /\ m.type = "Detached" => m.num \notin DOMAIN plugged
  BY ListenerAssumption DEF OddMessages, Message, Msg, Base
<1> PICK more : more = Append(msgs, m)
  OBVIOUS
<1>4. wire' \in Seq(Octet) /\ Stream(more)'
  BY <1>1, <1>2, <1>3, TellStreams DEF Base, Tracks
<1>5. lastNum \in Nat /\ lastNum' = lastNum /\ table' = table /\ plugged' = plugged
  BY <1>1, ListenerAssumption DEF Base
<1>6. Clean(more) => Current(more)'
  <2>1. ~Fatal(m) /\ m.type \in {"Attached", "Detached"}
          => (m.type = "Attached" <=> m.num \in DOMAIN plugged')
    BY <1>3, <1>5 DEF Fatal
  <2>2. \A n \in 1..lastNum' :
          \/ m.num = n /\ m.type \in {"Attached", "Detached"}
          \/ n \in 1..lastNum /\ (n \in DOMAIN plugged' <=> n \in DOMAIN plugged)
    BY <1>5
  <2> QED
    BY <1>3, <1>5, <2>1, <2>2, TellIsCurrent DEF Tracks
<1> PICK k \in Nat : k = Len(msgs) /\ DOMAIN msgs = 1..k /\ DOMAIN more = 1..(k + 1)
  BY <1>3, Appended
<1>7. more \in Seq(Msg) /\ (\A j \in 1..k : more[j] = msgs[j]) /\ more[k + 1] = m
  BY <1>3, Appended
<1>8. \A j \in 1..(k + 1) : j \in 1..k \/ j = k + 1
  OBVIOUS
<1>9. Consistent(given, more)'
  <2>1. \A i \in DOMAIN plugged' : plugged'[i] = given[i]
    BY <1>5 DEF Tracks, Consistent
  <2>2. \A i \in Keys(table') : i \in 1..lastNum' /\ GetValue(table', i) = DeviceId(given[i])
    BY <1>5 DEF Tracks, Consistent
  <2>3. m.type = "Attached" /\ m.serial # Null => m.num \in 1..lastNum /\ m.serial = given[m.num]
    BY <1>3 DEF Base, Tracks, Consistent
  <2>4. \A j \in DOMAIN more : more[j].type = "Attached" /\ more[j].serial # Null
          => more[j].num \in 1..lastNum' /\ more[j].serial = given[more[j].num]
    BY <1>5, <1>7, <1>8, <2>3 DEF Tracks, Consistent
  <2> QED
    BY <2>1, <2>2, <2>4 DEF Consistent
<1>10. odd' # 0
  BY <1>1
<1>11. Tracks(given, more)'
  <2>1. \A d \in served' : \E i \in Keys(table') : d = GetValue(table', i)
    BY <1>1 DEF Tracks
  <2> QED
    BY <1>4, <1>6, <1>9, <1>10, <2>1 DEF Tracks
<1> QED
  BY <1>1, <1>4, <1>7, <1>11 DEF Given

-----------------------------------------------------------------------------
(* The start: usbmuxd announces the devices that are there. *)

Announcement(attached, ms) ==
  /\ FlattenSeq(Packets(ms))
       = Joined(PacketOf(Message("Result", 0, Null)), FlattenSeq(FlattenSeq(attached)))
  /\ \A j \in DOMAIN ms :
       \/ ms[j] = Message("Result", 0, Null)
       \/ ms[j].num \in DOMAIN plugged /\ ms[j] = Message("Attached", ms[j].num, plugged[ms[j].num])

Announces(ms, n) ==
  \A i \in 1..n : i \in DOMAIN plugged => \E j \in DOMAIN ms : ms[j].type = "Attached" /\ ms[j].num = i

LEMMA NothingAnnounced ==
  \E ms \in Seq(Msg) : Announcement(<<>>, ms) /\ Announces(ms, 0)
<1> PICK m : m = Message("Result", 0, Null)
  OBVIOUS
<1>1. m \in Msg
  BY ListenerAssumption DEF Message, Msg
<1> PICK ms : ms = Append(<<>>, m)
  OBVIOUS
<1>2. <<>> \in Seq(Msg) /\ Len(<<>>) = 0 /\ <<>> \in Seq(Octet)
  BY EmptySeq
<1>3. ms \in Seq(Msg) /\ DOMAIN ms = 1..1 /\ ms[1] = m
  BY <1>1, <1>2, Appended
<1>4. FlattenSeq(Packets(ms)) = Joined(<<>>, PacketOf(m))
  BY <1>1, <1>2, PacketsAppend, NoPackets
<1>5. PacketOf(m) \in Seq(Octet)
  BY <1>1, PacketOfType
<1>6. Joined(<<>>, PacketOf(m)) = PacketOf(m) /\ Joined(PacketOf(m), <<>>) = PacketOf(m)
  BY <1>5, ConcatEmptySeq DEF Joined
<1>7. FlattenSeq(FlattenSeq(<<>>)) = <<>>
  BY FlattenSeqEmpty
<1>8. Announcement(<<>>, ms)
  BY <1>3, <1>4, <1>6, <1>7 DEF Announcement
<1>9. Announces(ms, 0)
  BY DEF Announces
<1> QED
  BY <1>3, <1>8, <1>9

LEMMA OneMoreAnnounced ==
  ASSUME Base, NEW before \in Seq(Seq(Seq(Octet))), NEW ms \in Seq(Msg), NEW k \in 1..lastNum,
         Announcement(before, ms), Announces(ms, k - 1),
         NEW x, x = IF k \in DOMAIN plugged
                    THEN << PacketOf(Message("Attached", k, plugged[k])) >> ELSE <<>>
  PROVE  \E more \in Seq(Msg) : Announcement(Append(before, x), more) /\ Announces(more, k)
<1>0. \A i \in 1..k : i \in 1..(k - 1) \/ i = k
  BY DEF Base
<1>1. FlattenSeq(before) \in Seq(Seq(Octet)) /\ FlattenSeq(FlattenSeq(before)) \in Seq(Octet)
  BY FlattenSeqType
<1>2. CASE k \in DOMAIN plugged
  <2> PICK m : m = Message("Attached", k, plugged[k])
    OBVIOUS
  <2>1. m \in Msg /\ m.num = k /\ m.type = "Attached"
    <3>1. k \in 0..(MaxNum + 1) /\ plugged[k] \in Serial
      BY <1>2, ListenerAssumption DEF Base
    <3> QED
      BY <3>1 DEF Message, Msg
  <2> PICK p \in Seq(Octet) : p = PacketOf(m)
    BY <2>1, PacketOfType
  <2>2. x = <<p>> /\ x \in Seq(Seq(Octet))
    BY <1>2
  <2>3. FlattenSeq(Append(before, x)) = FlattenSeq(before) \o <<p>>
    BY <2>2, FlattenSeqAppend
  <2>4. FlattenSeq(Append(before, x)) = Append(FlattenSeq(before), p)
    BY <1>1, <2>3, AppendIsConcat
  <2>5. FlattenSeq(FlattenSeq(Append(before, x))) = Joined(FlattenSeq(FlattenSeq(before)), p)
    BY <1>1, <2>4, FlattenSeqAppend DEF Joined
  <2> PICK more : more = Append(ms, m)
    OBVIOUS
  <2>6. FlattenSeq(Packets(more)) = Joined(FlattenSeq(Packets(ms)), p)
    BY <2>1, PacketsAppend
  <2> PICK r \in Seq(Octet), f \in Seq(Octet) :
        r = PacketOf(Message("Result", 0, Null)) /\ f = FlattenSeq(FlattenSeq(before))
    <3>1. Message("Result", 0, Null) \in Msg
      BY ListenerAssumption DEF Message, Msg
    <3> QED
      BY <1>1, <3>1, PacketOfType
  <2>7. Joined(Joined(r, f), p) = Joined(r, Joined(f, p))
    BY JoinedAssociative
  <2>8. FlattenSeq(Packets(more)) = Joined(r, FlattenSeq(FlattenSeq(Append(before, x))))
    BY <2>5, <2>6, <2>7 DEF Announcement
  <2> PICK n \in Nat : n = Len(ms) /\ DOMAIN ms = 1..n /\ DOMAIN more = 1..(n + 1)
    BY <2>1, Appended
  <2>9. /\ more \in Seq(Msg) /\ (\A j \in 1..n : more[j] = ms[j]) /\ more[n + 1] = m
        /\ \A j \in 1..(n + 1) : j \in 1..n \/ j = n + 1
        /\ n + 1 \in 1..(n + 1) /\ \A j \in 1..n : j \in 1..(n + 1)
    BY <2>1, Appended
  <2>10. Announcement(Append(before, x), more)
    <3>1. \A j \in 1..(n + 1) :
            \/ more[j] = Message("Result", 0, Null)
            \/ /\ more[j].num \in DOMAIN plugged
               /\ more[j] = Message("Attached", more[j].num, plugged[more[j].num])
      BY <1>2, <2>1, <2>9 DEF Announcement
    <3> QED
      BY <2>8, <3>1 DEF Announcement
  <2>11. Announces(more, k)
    <3> SUFFICES ASSUME NEW i \in 1..k, i \in DOMAIN plugged
                 PROVE  \E j \in 1..(n + 1) : more[j].type = "Attached" /\ more[j].num = i
      BY DEF Announces
    <3>1. CASE i = k
      BY <2>1, <2>9, <3>1
    <3>2. CASE i \in 1..(k - 1)
      <4>1. PICK j \in 1..n : ms[j].type = "Attached" /\ ms[j].num = i
        BY <3>2 DEF Announces
      <4> QED
        BY <2>9, <4>1
    <3> QED
      BY <1>0, <3>1, <3>2
  <2> QED
    BY <2>9, <2>10, <2>11
<1>3. CASE k \notin DOMAIN plugged
  <2>1. x = <<>> /\ x \in Seq(Seq(Octet))
    BY <1>3, EmptySeq
  <2>2. FlattenSeq(Append(before, x)) = FlattenSeq(before) \o <<>>
    BY <2>1, FlattenSeqAppend
  <2>3. FlattenSeq(Append(before, x)) = FlattenSeq(before)
    BY <1>1, <2>2, ConcatEmptySeq
  <2>4. Announcement(Append(before, x), ms)
    BY <2>3 DEF Announcement
  <2>5. Announces(ms, k)
    BY <1>0, <1>3 DEF Announces
  <2> QED
    BY <2>4, <2>5
<1> QED
  BY <1>2, <1>3

LEMMA AllAnnounced ==
  ASSUME Base, NEW attached,
         attached = [k \in 1..lastNum |->
                       IF k \in DOMAIN plugged
                       THEN << PacketOf(Message("Attached", k, plugged[k])) >> ELSE <<>>]
  PROVE  \E ms \in Seq(Msg) : Announcement(attached, ms) /\ Announces(ms, lastNum)
<1> PICK n \in Nat : n = lastNum
  BY ListenerAssumption DEF Base
<1>1. attached \in Seq(Seq(Seq(Octet))) /\ Len(attached) = n
  <2>1. \A k \in DOMAIN plugged : PacketOf(Message("Attached", k, plugged[k])) \in Seq(Octet)
    <3>1. \A k \in DOMAIN plugged : k \in 0..(MaxNum + 1) /\ plugged[k] \in Serial
      BY ListenerAssumption DEF Base
    <3>2. \A k \in DOMAIN plugged : Message("Attached", k, plugged[k]) \in Msg
      BY <3>1 DEF Message, Msg
    <3> QED
      BY <3>2, PacketOfType
  <2>2. attached \in [1..n -> Seq(Seq(Octet))]
    BY <2>1
  <2> QED
    BY <2>2, SeqDef, LenProperties
<1> DEFINE set == {k \in 0..n : \E ms \in Seq(Msg) :
                     Announcement(SubSeq(attached, 1, k), ms) /\ Announces(ms, k)}
<1>2. /\ SubSeq(attached, 1, 0) = <<>> /\ SubSeq(attached, 1, n) = attached
      /\ \A k \in 1..n :
           /\ SubSeq(attached, 1, k - 1) \in Seq(Seq(Seq(Octet)))
           /\ SubSeq(attached, 1, k) = Append(SubSeq(attached, 1, k - 1), attached[k])
  BY <1>1, PrefixesGrow
<1>3. 0 \in set
  <2>1. 0 \in 0..n
    OBVIOUS
  <2> QED
    BY <1>2, <2>1, NothingAnnounced, Zenon
<1>4. ASSUME NEW k \in 1..n, k - 1 \in set PROVE k \in set
  <2>1. PICK ms \in Seq(Msg) : Announcement(SubSeq(attached, 1, k - 1), ms) /\ Announces(ms, k - 1)
    BY <1>4
  <2>2. attached[k] = IF k \in DOMAIN plugged
                      THEN << PacketOf(Message("Attached", k, plugged[k])) >> ELSE <<>>
    OBVIOUS
  <2> HIDE DEF set
  <2>3. \E more \in Seq(Msg) :
          /\ Announcement(Append(SubSeq(attached, 1, k - 1), attached[k]), more)
          /\ Announces(more, k)
    BY <1>2, <2>1, <2>2, OneMoreAnnounced
  <2>4. \E more \in Seq(Msg) : Announcement(SubSeq(attached, 1, k), more) /\ Announces(more, k)
    BY <1>2, <2>3
  <2>5. k \in 0..n
    OBVIOUS
  <2> QED
    BY <2>4, <2>5, Zenon DEF set
<1> HIDE DEF set
<1>5. \A k \in 0..n : k \in set
  BY <1>3, <1>4, NumbersUpTo
<1>6. n \in set
  BY <1>5
<1> QED
  BY <1>2, <1>6 DEF set

LEMMA StartStep ==
  ASSUME Base, Start
  PROVE  wire' \in Seq(Octet) /\ \E g \in Given', more \in Seq(Msg) : Tracks(g, more)'
<1> PICK attached : attached = [k \in 1..lastNum |->
                                 IF k \in DOMAIN plugged
                                 THEN << PacketOf(Message("Attached", k, plugged[k])) >> ELSE <<>>]
  OBVIOUS
<1>1. PICK ms \in Seq(Msg) : Announcement(attached, ms) /\ Announces(ms, lastNum)
  BY AllAnnounced
<1>2. /\ listener = "off" /\ listener' = "up"
      /\ wire' = Joined(PacketOf(Message("Result", 0, Null)), FlattenSeq(FlattenSeq(attached)))
      /\ UNCHANGED <<unread, reading, hasLength, bodyLength, plugged, lastNum, odd, table, served>>
  BY DEF Start, usbmuxdVars, Joined
<1>3. /\ unread' = <<>> /\ ~hasLength' /\ table' = New /\ served' = {}
      /\ Keys(New) = {}
  BY <1>2, NewIsEmpty DEF Base
<1>4. wire' = FlattenSeq(Packets(ms)) /\ wire' \in Seq(Octet)
  BY <1>1, <1>2, PacketsType DEF Announcement
<1>5. Stream(ms)'
  <2>1. Joined(<<>>, wire') = wire'
    BY <1>4, ConcatEmptySeq DEF Joined
  <2> QED
    BY <1>3, <1>4, <2>1 DEF Stream
<1>6. \A j \in DOMAIN ms :
        \/ ms[j].type = "Result" /\ ms[j].num = 0
        \/ /\ ms[j].num \in DOMAIN plugged /\ ms[j].type = "Attached"
           /\ ms[j].serial = plugged[ms[j].num]
  BY <1>1 DEF Announcement, Message
<1> PICK g : g = [n \in 1..lastNum |-> IF n \in DOMAIN plugged THEN plugged[n] ELSE Null]
  OBVIOUS
<1>7. g \in Given' /\ \A n \in DOMAIN plugged : n \in 1..lastNum /\ g[n] = plugged[n]
  BY <1>2 DEF Given, Base
<1>8. Consistent(g, ms)'
  <2>1. \A n \in DOMAIN plugged' : plugged'[n] = g[n]
    BY <1>2, <1>7
  <2>2. \A k \in Keys(table') : k \in 1..lastNum' /\ GetValue(table', k) = DeviceId(g[k])
    BY <1>3
  <2>3. \A j \in DOMAIN ms : ms[j].type = "Attached" /\ ms[j].serial # Null
          => ms[j].num \in 1..lastNum' /\ ms[j].serial = g[ms[j].num]
    BY <1>2, <1>6, <1>7
  <2> QED
    BY <2>1, <2>2, <2>3 DEF Consistent
<1>9. Current(ms)'
  <2> SUFFICES ASSUME NEW n \in 1..lastNum
               PROVE  /\ About(ms, n) = {} => (n \in Keys(table') <=> n \in DOMAIN plugged')
                      /\ \A j \in About(ms, n) : ms[j].type = "Attached" /\ n \in DOMAIN plugged'
    BY <1>2 DEF Current
  <2>1. n \in DOMAIN plugged => About(ms, n) # {}
    BY <1>1 DEF Announces, About
  <2>2. \A j \in About(ms, n) : ms[j].type = "Attached" /\ n \in DOMAIN plugged
    BY <1>6 DEF About
  <2> QED
    BY <1>2, <1>3, <2>1, <2>2
<1>10. Expected(ms)'
  <2>1. \A j \in DOMAIN ms : ~Fatal(ms[j]) /\ ms[j].type # "Detached"
    BY <1>6, ListenerAssumption DEF Fatal, Base
  <2> QED
    BY <2>1 DEF Expected, Clean
<1>11. Tracks(g, ms)'
  BY <1>3, <1>5, <1>8, <1>9, <1>10 DEF Tracks
<1> QED
  BY <1>1, <1>4, <1>7, <1>11

-----------------------------------------------------------------------------
(* The receive loop. *)

LEMMA ReadStep ==
  ASSUME Base, NEW n \in DOMAIN wire, OnRecv(n),
         NEW given \in Given, NEW msgs \in Seq(Msg), Tracks(given, msgs)
  PROVE  wire' \in Seq(Octet) /\ unread' \in Seq(Octet) /\ given \in Given' /\ Tracks(given, msgs)'
<1>1. UNCHANGED <<hasLength, bodyLength, plugged, lastNum, odd, listener, table, served>>
  BY DEF OnRecv, Read, usbmuxdVars, listenerVars
<1>2. unread' = Joined(unread, Beginning(wire, n)) /\ wire' = Rest(wire, n)
  BY DEF OnRecv, Read, Joined, Beginning, Rest
<1>3. /\ Joined(unread, Beginning(wire, n)) \in Seq(Octet) /\ Rest(wire, n) \in Seq(Octet)
      /\ Len(Joined(unread, Beginning(wire, n))) >= Len(unread)
      /\ Joined(Joined(unread, Beginning(wire, n)), Rest(wire, n)) = Joined(unread, wire)
  BY ReadMoves DEF Base
<1>4. Stream(msgs)'
  <2>1. FlattenSeq(Packets(msgs)) = Joined(unread', wire')
    BY <1>2, <1>3 DEF Tracks, Stream
  <2>2. ASSUME hasLength
        PROVE  msgs # <<>> /\ bodyLength = Len(PacketOf(msgs[1])) /\ Len(unread') >= LengthOctets
    <3> PICK a \in Nat, b \in Nat : a = Len(unread) /\ b = Len(unread')
      BY <1>2, <1>3, LenProperties DEF Base
    <3>1. b >= a /\ a >= LengthOctets
      BY <1>2, <1>3, <2>2 DEF Tracks, Stream
    <3> QED
      BY <2>2, <3>1, PacketAssumption DEF Tracks, Stream
  <2> QED
    BY <1>1, <2>1, <2>2 DEF Stream
<1>5. Tracks(given, msgs)'
  BY <1>1, <1>4 DEF Tracks, Consistent, Current, Expected
<1> QED
  BY <1>1, <1>2, <1>3, <1>5 DEF Given

LEMMA LengthStep ==
  ASSUME Base, LoopLength,
         NEW given \in Given, NEW msgs \in Seq(Msg), Tracks(given, msgs)
  PROVE  given \in Given' /\ Tracks(given, msgs)'
<1>1. /\ UNCHANGED <<wire, unread, reading, plugged, lastNum, odd, listener, table, served>>
      /\ bodyLength' = unread[1][2] /\ Len(unread) >= LengthOctets
  BY DEF LoopLength, TakeLength, LengthReady, usbmuxdVars, listenerVars
<1>2. unread \in Seq(Octet) /\ wire \in Seq(Octet)
  BY DEF Base
<1> PICK a \in Nat : a = Len(unread)
  BY <1>2, LenProperties
<1>3. a >= 1
  BY <1>1, PacketAssumption
<1>4. msgs # <<>>
  <2> SUFFICES ASSUME msgs = <<>> PROVE FALSE
    OBVIOUS
  <2>1. Joined(unread, wire) = <<>>
    BY NoPackets DEF Tracks, Stream
  <2>2. Len(Joined(unread, wire)) = 0
    BY <2>1, EmptySeq
  <2>3. Len(Joined(unread, wire)) = a + Len(wire) /\ Len(wire) \in Nat
    BY <1>2, JoinedElements
  <2> QED
    BY <1>3, <2>2, <2>3
<1>5. FlattenSeq(Packets(msgs)) = Joined(unread, wire)
  BY DEF Tracks, Stream
<1> PICK n : n = Len(PacketOf(msgs[1]))
  OBVIOUS
<1>6. unread[1] = <<"length", n>>
  BY <1>2, <1>3, <1>4, <1>5, FirstPacketRead
<1>7. Stream(msgs)'
  BY <1>1, <1>4, <1>5, <1>6 DEF Stream
<1>8. Tracks(given, msgs)'
  BY <1>1, <1>7 DEF Tracks, Consistent, Current, Expected
<1> QED
  BY <1>1, <1>8 DEF Given

(* The messages that are left when the first one has been handled. *)
LEMMA TailOfMessages ==
  ASSUME NEW msgs \in Seq(Msg), msgs # <<>>
  PROVE  \E k \in Nat :
           /\ DOMAIN msgs = 1..(k + 1) /\ DOMAIN Tail(msgs) = 1..k
           /\ \A j \in 1..k : Tail(msgs)[j] = msgs[j + 1]
<1> PICK n \in Nat : n = Len(msgs) /\ DOMAIN msgs = 1..n /\ n > 0
  BY LenProperties, EmptySeq
<1> PICK rest \in Seq(Msg) : rest = Tail(msgs)
  BY HeadTailProperties
<1>1. Len(rest) = n - 1 /\ n - 1 \in Nat /\ \A j \in 1..(n - 1) : rest[j] = msgs[j + 1]
  BY HeadTailProperties
<1>2. DOMAIN rest = 1..(n - 1)
  BY <1>1, LenProperties
<1>3. n = (n - 1) + 1
  OBVIOUS
<1> QED
  BY <1>1, <1>2, <1>3

LEMMA HandledIsConsistent ==
  ASSUME NEW msgs \in Seq(Msg), msgs # <<>>, NEW given, Consistent(given, msgs),
         Sound(table), table' = TableAfter(msgs[1]), ~Fatal(msgs[1]),
         UNCHANGED <<plugged, lastNum>>
  PROVE  Consistent(given, Tail(msgs))'
<1> PICK k \in Nat : /\ DOMAIN msgs = 1..(k + 1) /\ DOMAIN Tail(msgs) = 1..k
                     /\ \A j \in 1..k : Tail(msgs)[j] = msgs[j + 1]
  BY TailOfMessages
<1> PICK m \in Msg : m = msgs[1]
  BY PacketsFirst
<1>1. 1 \in DOMAIN msgs /\ \A j \in 1..k : j + 1 \in DOMAIN msgs
  OBVIOUS
<1>2. \A i \in Keys(table) :
        i \in Key /\ i \in 1..lastNum /\ GetValue(table, i) = DeviceId(given[i])
  BY KeysAreFound DEF Consistent
<1>3. \A i \in Keys(table') : i \in 1..lastNum' /\ GetValue(table', i) = DeviceId(given[i])
  <2>1. CASE m.type = "Attached"
    <3>1. /\ Keys(table') = Keys(table) \cup {m.num} /\ GetValue(table', m.num) = DeviceId(m.serial)
          /\ \A q \in Key \ {m.num} : GetValue(table', q) = GetValue(table, q)
      BY <2>1, TableStep DEF Fatal
    <3>2. m.num \in 1..lastNum /\ m.serial = given[m.num]
      BY <1>1, <2>1 DEF Consistent, Fatal
    <3> QED
      BY <1>2, <3>1, <3>2
  <2>2. CASE m.type = "Detached"
    <3>1. /\ Keys(table') = Keys(table) \ {m.num}
          /\ \A q \in Key \ {m.num} : GetValue(table', q) = GetValue(table, q)
      BY <2>2, TableStep
    <3> QED
      BY <1>2, <3>1
  <2>3. CASE m.type \notin {"Attached", "Detached"}
    <3>1. table' = table
      BY <2>3, TableStep
    <3> QED
      BY <1>2, <3>1
  <2> QED
    BY <2>1, <2>2, <2>3
<1>4. \A j \in 1..k : msgs[j + 1].type = "Attached" /\ msgs[j + 1].serial # Null
        => msgs[j + 1].num \in 1..lastNum /\ msgs[j + 1].serial = given[msgs[j + 1].num]
  BY <1>1 DEF Consistent
<1>5. \A j \in DOMAIN Tail(msgs) : Tail(msgs)[j].type = "Attached" /\ Tail(msgs)[j].serial # Null
        => Tail(msgs)[j].num \in 1..lastNum' /\ Tail(msgs)[j].serial = given[Tail(msgs)[j].num]
  BY <1>4
<1>6. \A n \in DOMAIN plugged' : plugged'[n] = given[n]
  BY DEF Consistent
<1> QED
  BY <1>3, <1>5, <1>6 DEF Consistent

(* What the first message said is now what the table says. *)
LEMMA HandledIsCurrent ==
  ASSUME NEW msgs \in Seq(Msg), msgs # <<>>, Current(msgs),
         Sound(table), table' = TableAfter(msgs[1]), ~Fatal(msgs[1]),
         UNCHANGED <<plugged, lastNum>>
  PROVE  Current(Tail(msgs))'
<1> PICK k \in Nat : /\ DOMAIN msgs = 1..(k + 1) /\ DOMAIN Tail(msgs) = 1..k
                     /\ \A j \in 1..k : Tail(msgs)[j] = msgs[j + 1]
  BY TailOfMessages
<1> PICK m \in Msg : m = msgs[1]
  BY PacketsFirst
<1> PICK rest : rest = Tail(msgs)
  OBVIOUS
<1> SUFFICES ASSUME NEW n \in 1..lastNum
             PROVE  /\ About(rest, n) = {} => (n \in Keys(table') <=> n \in DOMAIN plugged)
                    /\ \A j \in About(rest, n) : (\A i \in About(rest, n) : i <= j)
                         => (rest[j].type = "Attached" <=> n \in DOMAIN plugged)
  BY DEF Current
<1>1. \A j \in 1..k : j \in About(rest, n) <=> j + 1 \in About(msgs, n)
  BY DEF About
<1>2. About(rest, n) \subseteq 1..k /\ About(msgs, n) \subseteq 1..(k + 1)
  BY DEF About
<1>3. \A i \in 1..(k + 1) : i = 1 \/ (i - 1 \in 1..k /\ i = (i - 1) + 1)
  OBVIOUS
<1>4. /\ About(msgs, n) = {} => (n \in Keys(table) <=> n \in DOMAIN plugged)
      /\ \A j \in About(msgs, n) : (\A i \in About(msgs, n) : i <= j)
           => (msgs[j].type = "Attached" <=> n \in DOMAIN plugged)
  BY DEF Current
<1>5. ASSUME NEW j \in About(rest, n), \A i \in About(rest, n) : i <= j
      PROVE  rest[j].type = "Attached" <=> n \in DOMAIN plugged
  <2>1. j \in 1..k /\ j + 1 \in About(msgs, n) /\ rest[j] = msgs[j + 1]
    BY <1>1, <1>2
  <2>2. ASSUME NEW i \in About(msgs, n) PROVE i <= j + 1
    <3>1. i \in 1..(k + 1)
      BY <1>2
    <3>2. i = 1 \/ i - 1 \in About(rest, n)
      BY <1>1, <1>3, <3>1
    <3>3. i = 1 \/ i - 1 <= j
      BY <1>5, <3>2
    <3> QED
      BY <2>1, <3>1, <3>3
  <2> QED
    BY <1>4, <2>1, <2>2
<1>6. ASSUME About(rest, n) = {} PROVE n \in Keys(table') <=> n \in DOMAIN plugged
  <2>0. \A i \in About(msgs, n) : i = 1
    BY <1>1, <1>2, <1>3, <1>6, SMTT(30)
  <2>1. CASE m.type \in {"Attached", "Detached"} /\ m.num = n
    <3>1. 1 \in About(msgs, n) /\ 1 <= 1
      BY <2>1 DEF About
    <3>2. m.type = "Attached" <=> n \in DOMAIN plugged
      BY <1>4, <2>0, <3>1
    <3>3. n \in Keys(table') <=> m.type = "Attached"
      <4>1. CASE m.type = "Attached"
        <5>1. Keys(table') = Keys(table) \cup {m.num}
          BY <4>1, TableStep DEF Fatal
        <5> QED
          BY <2>1, <4>1, <5>1
      <4>2. CASE m.type = "Detached"
        <5>1. Keys(table') = Keys(table) \ {m.num}
          BY <4>2, TableStep
        <5> QED
          BY <2>1, <4>2, <5>1
      <4> QED
        BY <2>1, <4>1, <4>2
    <3> QED
      BY <3>2, <3>3
  <2>2. CASE ~(m.type \in {"Attached", "Detached"} /\ m.num = n)
    <3>1. 1 \notin About(msgs, n)
      BY <2>2 DEF About
    <3>2. About(msgs, n) = {}
      BY <2>0, <3>1
    <3>3. n \in Keys(table') <=> n \in Keys(table)
      <4>1. CASE m.type = "Attached"
        <5>1. Keys(table') = Keys(table) \cup {m.num}
          BY <4>1, TableStep DEF Fatal
        <5> QED
          BY <2>2, <4>1, <5>1
      <4>2. CASE m.type = "Detached"
        <5>1. Keys(table') = Keys(table) \ {m.num}
          BY <4>2, TableStep
        <5> QED
          BY <2>2, <4>2, <5>1
      <4>3. CASE m.type \notin {"Attached", "Detached"}
        BY <4>3, TableStep
      <4> QED
        BY <4>1, <4>2, <4>3
    <3> QED
      BY <1>4, <3>2, <3>3
  <2> QED
    BY <2>1, <2>2
<1> QED
  BY <1>5, <1>6

LEMMA HandledIsExpected ==
  ASSUME NEW msgs \in Seq(Msg), msgs # <<>>, Expected(msgs),
         Sound(table), table' = TableAfter(msgs[1]), UNCHANGED <<plugged, lastNum>>
  PROVE  Expected(Tail(msgs))'
<1> PICK k \in Nat : /\ DOMAIN msgs = 1..(k + 1) /\ DOMAIN Tail(msgs) = 1..k
                     /\ \A j \in 1..k : Tail(msgs)[j] = msgs[j + 1]
  BY TailOfMessages
<1> PICK m \in Msg : m = msgs[1]
  BY PacketsFirst
<1> PICK rest : rest = Tail(msgs)
  OBVIOUS
<1>1. 1 \in 1..(k + 1) /\ \A j \in 1..k : j + 1 \in 1..(k + 1) /\ j + 1 # 1 /\ rest[j] = msgs[j + 1]
  OBVIOUS
<1>2. (\A j \in 1..(k + 1) : ~Fatal(msgs[j])) /\ ~Fatal(m)
  BY <1>1 DEF Expected, Clean
<1>3. Clean(rest)
  BY <1>1, <1>2 DEF Clean
<1>4. \A j \in 1..(k + 1) : msgs[j].type = "Detached" =>
        /\ msgs[j].num \in 1..lastNum /\ msgs[j].num \notin DOMAIN plugged
        /\ \A i \in 1..(k + 1) : msgs[i].type = "Detached" /\ msgs[i].num = msgs[j].num => i = j
        /\ \/ msgs[j].num \in Keys(table)
           \/ \E i \in 1..(k + 1) : /\ i < j /\ msgs[i].type = "Attached"
                                    /\ msgs[i].num = msgs[j].num
  BY DEF Expected
<1>5. ASSUME NEW j \in 1..k, rest[j].type = "Detached"
      PROVE  rest[j].num \in 1..lastNum' /\ rest[j].num \notin DOMAIN plugged'
  BY <1>1, <1>4, <1>5
<1>6. ASSUME NEW j \in 1..k, rest[j].type = "Detached",
             NEW i \in 1..k, rest[i].type = "Detached", rest[i].num = rest[j].num
      PROVE  i = j
  <2>1. i + 1 = j + 1
    BY <1>1, <1>4, <1>6
  <2> QED
    BY <2>1
<1>7. ASSUME NEW j \in 1..k, rest[j].type = "Detached"
      PROVE  \/ rest[j].num \in Keys(table')
             \/ \E i \in 1..k : i < j /\ rest[i].type = "Attached" /\ rest[i].num = rest[j].num
  <2>1. m.type = "Detached" => m.num # rest[j].num
    BY <1>1, <1>4, <1>7
  <2>2. CASE msgs[j + 1].num \in Keys(table)
    <3>1. CASE m.type = "Attached"
      <4>1. Keys(table') = Keys(table) \cup {m.num}
        BY <1>2, <3>1, TableStep DEF Fatal
      <4> QED
        BY <1>1, <2>2, <4>1
    <3>2. CASE m.type = "Detached"
      <4>1. Keys(table') = Keys(table) \ {m.num}
        BY <3>2, TableStep
      <4> QED
        BY <1>1, <2>1, <2>2, <3>2, <4>1
    <3>3. CASE m.type \notin {"Attached", "Detached"}
      <4>1. table' = table
        BY <3>3, TableStep
      <4> QED
        BY <1>1, <2>2, <4>1
    <3> QED
      BY <3>1, <3>2, <3>3
  <2>3. ASSUME NEW i \in 1..(k + 1), i < j + 1, msgs[i].type = "Attached",
               msgs[i].num = msgs[j + 1].num
        PROVE  \/ rest[j].num \in Keys(table')
               \/ \E l \in 1..k : l < j /\ rest[l].type = "Attached" /\ rest[l].num = rest[j].num
    <3>1. CASE i = 1
      <4>1. m.type = "Attached" /\ m.num = rest[j].num
        BY <1>1, <2>3, <3>1
      <4>2. Keys(table') = Keys(table) \cup {m.num}
        BY <1>2, <4>1, TableStep DEF Fatal
      <4> QED
        BY <4>1, <4>2
    <3>2. CASE i # 1
      <4>1. i - 1 \in 1..k /\ i = (i - 1) + 1 /\ i - 1 < j
        BY <2>3, <3>2
      <4>2. rest[i - 1] = msgs[i]
        BY <1>1, <4>1
      <4> QED
        BY <1>1, <2>3, <4>1, <4>2
    <3> QED
      BY <3>1, <3>2
  <2>4. msgs[j + 1].type = "Detached" /\ j + 1 \in 1..(k + 1)
    BY <1>1, <1>7
  <2> QED
    BY <1>4, <2>2, <2>3, <2>4
<1> QED
  BY <1>3, <1>5, <1>6, <1>7 DEF Expected

(* The ports are those of known devices, as before. *)
LEMMA HandledIsServed ==
  ASSUME NEW msgs \in Seq(Msg), msgs # <<>>, NEW given,
         Consistent(given, msgs), Consistent(given, Tail(msgs))',
         \A d \in served : \E k \in Keys(table) : d = GetValue(table, k),
         Sound(table), table' = TableAfter(msgs[1]), ~Fatal(msgs[1]),
         NEW listens, served' = Served(msgs[1], listens)
  PROVE  \A d \in served' : \E k \in Keys(table') : d = GetValue(table', k)
<1> PICK m \in Msg : m = msgs[1]
  BY PacketsFirst
<1>1. \A k \in Keys(table) : k \in Key /\ GetValue(table, k) = DeviceId(given[k])
  BY KeysAreFound DEF Consistent
<1>2. \A k \in Keys(table') : GetValue(table', k) = DeviceId(given[k])
  BY DEF Consistent
<1>3. \A d \in served : \E k \in Keys(table) : d = DeviceId(given[k])
  BY <1>1
<1>4. CASE m.type = "Attached"
  <2>1. Keys(table') = Keys(table) \cup {m.num} /\ GetValue(table', m.num) = DeviceId(m.serial)
    BY <1>4, TableStep DEF Fatal
  <2>2. \A d \in served' : d \in served \/ d = DeviceId(m.serial)
    BY <1>4 DEF Served
  <2>3. \A d \in served : \E k \in Keys(table') : d = GetValue(table', k)
    BY <1>2, <1>3, <2>1
  <2> QED
    BY <2>1, <2>2, <2>3
<1>5. CASE m.type = "Detached"
  <2>1. Keys(table') = Keys(table) \ {m.num}
    BY <1>5, TableStep
  <2>2. \A d \in served' : d \in served /\ d # GetValue(table, m.num)
    BY <1>5 DEF Served, KnownId
  <2>3. \A d \in served' : \E k \in Keys(table) : d = DeviceId(given[k]) /\ k # m.num
    BY <1>1, <1>3, <2>2
  <2> QED
    BY <1>2, <2>1, <2>3
<1>6. CASE m.type \notin {"Attached", "Detached"}
  <2>1. table' = table /\ served' = served
    BY <1>6, TableStep DEF Served
  <2> QED
    BY <2>1
<1> QED
  BY <1>4, <1>5, <1>6

LEMMA PacketStep ==
  ASSUME Base, NEW listens \in BOOLEAN, LoopPacket(listens),
         NEW given \in Given, NEW msgs \in Seq(Msg), Tracks(given, msgs)
  PROVE  /\ wire' \in Seq(Octet) /\ unread' \in Seq(Octet) /\ Sound(table')
         /\ listener' \in {listener, "down"}
         /\ listener' = "down" /\ listener # "down" => ~reading' /\ odd' > 0
         /\ listener' # "down" => given \in Given' /\ \E more \in Seq(Msg) : Tracks(given, more)'
<1>1. reading /\ hasLength /\ Len(unread) >= Total /\ UNCHANGED <<plugged, lastNum, odd, wire>>
  BY DEF LoopPacket, PacketReady, TakePacket, usbmuxdVars
<1>2. /\ msgs # <<>> /\ bodyLength = Len(PacketOf(msgs[1])) /\ Total = bodyLength + 0
      /\ FlattenSeq(Packets(msgs)) = Joined(unread, wire)
  BY <1>1, ListenerAssumption DEF Tracks, Stream, Total
<1> PICK n : n = Len(PacketOf(msgs[1]))
  OBVIOUS
<1>3. unread \in Seq(Octet) /\ wire \in Seq(Octet) /\ Sound(table) /\ odd \in Nat
  BY DEF Base
<1>4. n \in Nat
  BY <1>2, <1>3, FirstPacketRead
<1>5. Total = n
  BY <1>2, <1>4
<1>6. /\ PacketBody(unread, n)[1] = <<"data", msgs[1]>>
      /\ Rest(unread, n) \in Seq(Octet)
      /\ FlattenSeq(Packets(Tail(msgs))) = Joined(Rest(unread, n), wire)
  <2> PICK s \in Seq(Octet), t \in Seq(Octet) : s = unread /\ t = wire
    BY <1>3
  <2>1. msgs # <<>> /\ FlattenSeq(Packets(msgs)) = Joined(s, t)
    BY <1>2
  <2>2. Len(s) >= n
    BY <1>1, <1>5
  <2>3. /\ PacketBody(s, n)[1] = <<"data", msgs[1]>>
        /\ Rest(s, n) \in Seq(Octet)
        /\ FlattenSeq(Packets(Tail(msgs))) = Joined(Rest(s, n), t)
    BY <2>1, <2>2, FirstPacketRead
  <2> QED
    BY <2>3
<1> PICK m \in Msg : m = msgs[1]
  BY <1>2, PacketsFirst
<1> PICK rest \in Seq(Msg) : rest = Tail(msgs)
  BY <1>2, PacketsFirst
<1>7. Body[1][2] = m
  <2>1. Body = PacketBody(unread, n)
    BY <1>5 DEF Body, PacketBody
  <2>2. Body[1] = <<"data", m>>
    BY <1>6, <2>1
  <2> QED
    BY <2>2
<1>8. /\ unread' = Rest(unread, n) /\ ~hasLength' /\ reading' = ~Refused(m)
      /\ listener' = (IF Refused(m) THEN "down" ELSE listener)
      /\ table' = TableAfter(m) /\ served' = Served(m, listens)
  BY <1>5, <1>7 DEF LoopPacket, TakePacket, Rest
<1>9. Sound(table')
  BY <1>3, <1>8, TableStep
<1>10. ASSUME Refused(m) PROVE odd > 0
  <2> SUFFICES ASSUME odd = 0 PROVE FALSE
    BY <1>3
  <2> PICK k \in Nat : DOMAIN msgs = 1..(k + 1)
    BY <1>2, TailOfMessages
  <2>1. 1 \in DOMAIN msgs /\ ~ \E i \in DOMAIN msgs : i < 1
    OBVIOUS
  <2>2. Expected(msgs)
    BY DEF Tracks
  <2>3. ~Fatal(m)
    BY <2>1, <2>2 DEF Expected, Clean
  <2>4. m.type = "Detached" /\ KnownId(m.num) = Null
    BY <1>10, <2>3 DEF Refused, Fatal
  <2>5. m.num \in Keys(table)
    BY <2>1, <2>2, <2>4 DEF Expected
  <2>6. m.num \in Key
    BY NumsAreKeys
  <2>7. GetValue(table, m.num) # Null
    BY <1>3, <2>5, <2>6, KnownKeys
  <2> QED
    BY <2>4, <2>7 DEF KnownId
<1>11. ASSUME ~Refused(m) PROVE Tracks(given, rest)'
  <2>1. ~Fatal(m)
    BY <1>11 DEF Refused, Fatal
  <2>2. Consistent(given, msgs) /\ Consistent(given, rest)'
    BY <1>1, <1>2, <1>3, <1>8, <2>1, HandledIsConsistent DEF Tracks
  <2>3. Stream(rest)'
    BY <1>1, <1>6, <1>8 DEF Stream
  <2>4. ASSUME Clean(rest) PROVE Current(rest)'
    <3>1. Clean(msgs)
      <4> PICK k \in Nat : /\ DOMAIN msgs = 1..(k + 1) /\ DOMAIN Tail(msgs) = 1..k
                           /\ \A j \in 1..k : Tail(msgs)[j] = msgs[j + 1]
        BY <1>2, TailOfMessages
      <4>1. \A j \in 1..(k + 1) : j = 1 \/ (j - 1 \in 1..k /\ j = (j - 1) + 1)
        OBVIOUS
      <4>2. \A j \in 1..k : ~Fatal(msgs[j + 1])
        BY <2>4 DEF Clean
      <4> QED
        BY <2>1, <4>1, <4>2 DEF Clean
    <3>2. Current(msgs)
      BY <3>1 DEF Tracks
    <3> QED
      BY <1>1, <1>2, <1>3, <1>8, <2>1, <3>2, HandledIsCurrent
  <2>5. ASSUME odd = 0 PROVE Expected(rest)'
    <3>1. Expected(msgs)
      BY <2>5 DEF Tracks
    <3> QED
      BY <1>1, <1>2, <1>3, <1>8, <3>1, HandledIsExpected
  <2>6. \A d \in served' : \E k \in Keys(table') : d = GetValue(table', k)
    BY <1>2, <1>3, <1>8, <2>1, <2>2, HandledIsServed DEF Tracks
  <2> QED
    BY <1>1, <2>2, <2>3, <2>4, <2>5, <2>6 DEF Tracks
<1> QED
  BY <1>1, <1>3, <1>6, <1>8, <1>9, <1>10, <1>11 DEF Given

-----------------------------------------------------------------------------
(* Every step keeps the invariant. *)

LEMMA InitInv == Init => Inv
<1> SUFFICES ASSUME Init PROVE Inv
  OBVIOUS
<1>1. <<>> \in Seq(Octet) /\ DOMAIN <<>> = {} /\ Sound(New)
  BY EmptySeq, NewIsEmpty
<1> QED
  BY <1>1, ListenerAssumption DEF Init, ReaderInit, Inv, Base

LEMMA PlugInv ==
  ASSUME Inv, NEW serial \in Serial, Plug(serial)
  PROVE  Inv'
<1>1. /\ lastNum' = lastNum + 1 /\ lastNum < MaxNum /\ lastNum \in 0..MaxNum
      /\ plugged' = [n \in DOMAIN plugged \cup {lastNum'} |->
                       IF n = lastNum' THEN serial ELSE plugged[n]]
      /\ UNCHANGED <<unread, reading, hasLength, bodyLength, odd, listener, table, served>>
  BY DEF Plug, listenerVars, Inv, Base
<1>2. lastNum' \in 0..MaxNum /\ DOMAIN plugged' \subseteq 1..lastNum'
  BY <1>1, ListenerAssumption DEF Inv, Base
<1>3. \A n \in DOMAIN plugged' : plugged'[n] \in Serial
  BY <1>1 DEF Inv, Base
<1>4. CASE listener = "up"
  <2>1. PICK given \in Given, msgs \in Seq(Msg) : Tracks(given, msgs)
    BY <1>4 DEF Inv
  <2>2. wire' \in Seq(Octet) /\ \E g \in Given', more \in Seq(Msg) : Tracks(g, more)'
    BY <1>4, <2>1, PlugStep DEF Inv
  <2>3. Base'
    BY <1>1, <1>2, <1>3, <1>4, <2>2 DEF Inv, Base
  <2> QED
    BY <2>2, <2>3 DEF Inv
<1>5. CASE listener # "up"
  <2>1. wire' = wire
    BY <1>5 DEF Plug, Tell
  <2>2. Base'
    BY <1>1, <1>2, <1>3, <1>5, <2>1 DEF Inv, Base
  <2> QED
    BY <1>1, <1>5, <2>2 DEF Inv
<1> QED
  BY <1>4, <1>5

LEMMA UnplugInv ==
  ASSUME Inv, NEW num \in 1..MaxNum, Unplug(num)
  PROVE  Inv'
<1>1. /\ DOMAIN plugged' = DOMAIN plugged \ {num}
      /\ \A n \in DOMAIN plugged' : plugged'[n] = plugged[n]
      /\ UNCHANGED <<unread, reading, hasLength, bodyLength, lastNum, odd, listener, table, served>>
  BY DEF Unplug, listenerVars, Restrict
<1>2. DOMAIN plugged' \subseteq 1..lastNum' /\ \A n \in DOMAIN plugged' : plugged'[n] \in Serial
  BY <1>1 DEF Inv, Base
<1>3. CASE listener = "up"
  <2>1. PICK given \in Given, msgs \in Seq(Msg) : Tracks(given, msgs)
    BY <1>3 DEF Inv
  <2>2. wire' \in Seq(Octet) /\ \E g \in Given', more \in Seq(Msg) : Tracks(g, more)'
    BY <1>3, <2>1, UnplugStep DEF Inv
  <2>3. Base'
    BY <1>1, <1>2, <1>3, <2>2 DEF Inv, Base
  <2> QED
    BY <2>2, <2>3 DEF Inv
<1>4. CASE listener # "up"
  <2>1. wire' = wire
    BY <1>4 DEF Unplug, Tell
  <2>2. Base'
    BY <1>1, <1>2, <1>4, <2>1 DEF Inv, Base
  <2> QED
    BY <1>1, <1>4, <2>2 DEF Inv
<1> QED
  BY <1>3, <1>4

LEMMA OddInv ==
  ASSUME Inv, SendOdd
  PROVE  Inv'
<1>1. /\ listener = "up" /\ odd' = odd + 1 /\ odd' \in Nat
      /\ UNCHANGED <<unread, reading, hasLength, bodyLength, plugged, lastNum, listener, table, served>>
  BY DEF SendOdd, listenerVars, Inv, Base
<1>2. PICK given \in Given, msgs \in Seq(Msg) : Tracks(given, msgs)
  BY <1>1 DEF Inv
<1>3. wire' \in Seq(Octet) /\ \E g \in Given', more \in Seq(Msg) : Tracks(g, more)'
  BY <1>1, <1>2, OddStep DEF Inv
<1>4. Base'
  BY <1>1, <1>3 DEF Inv, Base
<1> QED
  BY <1>3, <1>4 DEF Inv

LEMMA StartInv ==
  ASSUME Inv, Start
  PROVE  Inv'
<1>1. /\ listener = "off" /\ listener' = "up"
      /\ UNCHANGED <<unread, reading, hasLength, bodyLength, plugged, lastNum, odd, table, served>>
  BY DEF Start, usbmuxdVars
<1>2. wire' \in Seq(Octet) /\ \E g \in Given', more \in Seq(Msg) : Tracks(g, more)'
  BY StartStep DEF Inv
<1>3. Base'
  BY <1>1, <1>2 DEF Inv, Base
<1> QED
  BY <1>2, <1>3 DEF Inv

LEMMA RecvInv ==
  ASSUME Inv, RecvNext
  PROVE  Inv'
<1>0. listener \in {"off", "up", "down"}
  BY DEF Inv, Base
<1>1. ASSUME NEW n \in DOMAIN wire, OnRecv(n) PROVE Inv'
  <2>1. /\ listener = "up"
        /\ UNCHANGED <<hasLength, bodyLength, plugged, lastNum, odd, listener, table, served>>
    BY <1>1 DEF OnRecv, Read, usbmuxdVars, listenerVars
  <2>2. PICK given \in Given, msgs \in Seq(Msg) : Tracks(given, msgs)
    BY <2>1 DEF Inv
  <2>3. wire' \in Seq(Octet) /\ unread' \in Seq(Octet) /\ given \in Given' /\ Tracks(given, msgs)'
    BY <1>1, <2>2, ReadStep DEF Inv
  <2>4. Base'
    BY <2>1, <2>3 DEF Inv, Base
  <2> QED
    BY <2>3, <2>4 DEF Inv
<1>2. ASSUME LoopLength PROVE Inv'
  <2>1. reading /\ UNCHANGED <<wire, unread, reading, plugged, lastNum, odd, listener, table, served>>
    BY <1>2 DEF LoopLength, TakeLength, LengthReady, usbmuxdVars, listenerVars
  <2>2. listener = "up"
    BY <1>0, <2>1 DEF Inv, Base
  <2>3. PICK given \in Given, msgs \in Seq(Msg) : Tracks(given, msgs)
    BY <2>2 DEF Inv
  <2>4. given \in Given' /\ Tracks(given, msgs)'
    BY <1>2, <2>3, LengthStep DEF Inv
  <2>5. Base'
    BY <2>1, <2>2 DEF Inv, Base
  <2> QED
    BY <2>4, <2>5 DEF Inv
<1>3. ASSUME NEW listens \in BOOLEAN, LoopPacket(listens) PROVE Inv'
  <2>1. reading /\ UNCHANGED <<plugged, lastNum, odd>>
    BY <1>3 DEF LoopPacket, PacketReady, usbmuxdVars
  <2>2. listener = "up"
    BY <1>0, <2>1 DEF Inv, Base
  <2>3. PICK given \in Given, msgs \in Seq(Msg) : Tracks(given, msgs)
    BY <2>2 DEF Inv
  <2>4. /\ wire' \in Seq(Octet) /\ unread' \in Seq(Octet) /\ Sound(table')
        /\ listener' \in {listener, "down"}
        /\ listener' = "down" /\ listener # "down" => ~reading' /\ odd' > 0
        /\ listener' # "down" => given \in Given' /\ \E more \in Seq(Msg) : Tracks(given, more)'
    BY <1>3, <2>3, PacketStep DEF Inv
  <2>5. Base'
    BY <2>1, <2>2, <2>4 DEF Inv, Base
  <2> QED
    BY <2>2, <2>4, <2>5 DEF Inv
<1>4. ASSUME LoopEnds PROVE Inv'
  <2>1. /\ reading /\ ~reading'
        /\ UNCHANGED <<wire, unread, hasLength, bodyLength, plugged, lastNum, odd, listener, table, served>>
    BY <1>4 DEF LoopEnds, NeedMore, usbmuxdVars, listenerVars
  <2>2. listener = "up"
    BY <1>0, <2>1 DEF Inv, Base
  <2>3. PICK given \in Given, msgs \in Seq(Msg) : Tracks(given, msgs)
    BY <2>2 DEF Inv
  <2>4. given \in Given' /\ Tracks(given, msgs)'
    BY <2>1, <2>3 DEF Given, Tracks, Stream, Consistent, Current, Expected
  <2>5. Base'
    BY <2>1, <2>2 DEF Inv, Base
  <2> QED
    BY <2>4, <2>5 DEF Inv
<1> QED
  BY <1>1, <1>2, <1>3, <1>4 DEF RecvNext

LEMMA CloseInv ==
  ASSUME Inv, NEW id \in served, PortCloses(id)
  PROVE  Inv'
<1>1. /\ served' \subseteq served
      /\ UNCHANGED <<wire, unread, reading, hasLength, bodyLength, plugged, lastNum, odd, listener, table>>
  BY DEF PortCloses, readerVars, usbmuxdVars
<1>2. Base'
  BY <1>1 DEF Inv, Base
<1>3. ASSUME listener = "up" PROVE \E given \in Given', msgs \in Seq(Msg) : Tracks(given, msgs)'
  <2>1. PICK given \in Given, msgs \in Seq(Msg) : Tracks(given, msgs)
    BY <1>3 DEF Inv
  <2>2. given \in Given' /\ Tracks(given, msgs)'
    BY <1>1, <2>1 DEF Given, Tracks, Stream, Consistent, Current, Expected
  <2> QED
    BY <2>2
<1> QED
  BY <1>1, <1>2, <1>3 DEF Inv

LEMMA StepInv == Inv /\ [Next]_vars => Inv'
<1> SUFFICES ASSUME Inv, [Next]_vars PROVE Inv'
  OBVIOUS
<1>1. CASE UNCHANGED vars
  <2>1. UNCHANGED <<wire, unread, reading, hasLength, bodyLength, plugged, lastNum, odd,
                    listener, table, served>>
    BY <1>1 DEF vars, readerVars, usbmuxdVars, listenerVars
  <2>2. Base'
    BY <2>1 DEF Inv, Base
  <2>3. ASSUME listener = "up" PROVE \E given \in Given', msgs \in Seq(Msg) : Tracks(given, msgs)'
    <3>1. PICK given \in Given, msgs \in Seq(Msg) : Tracks(given, msgs)
      BY <2>3 DEF Inv
    <3>2. given \in Given' /\ Tracks(given, msgs)'
      BY <2>1, <3>1 DEF Given, Tracks, Stream, Consistent, Current, Expected
    <3> QED
      BY <3>2
  <2> QED
    BY <2>1, <2>2, <2>3 DEF Inv
<1>2. CASE Next
  BY <1>2, PlugInv, UnplugInv, OddInv, StartInv, RecvInv, CloseInv DEF Next
<1> QED
  BY <1>1, <1>2

-----------------------------------------------------------------------------
(* What the invariant means. *)

LEMMA CurrentTable == Inv => TableIsCurrent
<1> SUFFICES ASSUME Inv, listener = "up", wire = <<>>, unread = <<>>
             PROVE  deviceId = [n \in DOMAIN plugged |-> DeviceId(plugged[n])]
  BY DEF TableIsCurrent
<1>1. PICK given \in Given, msgs \in Seq(Msg) : Tracks(given, msgs)
  BY DEF Inv
<1>2. msgs = <<>>
  <2>1. Joined(unread, wire) = <<>>
    <3>1. <<>> \in Seq(Octet)
      BY EmptySeq
    <3> QED
      BY <3>1, ConcatEmptySeq DEF Joined
  <2> QED
    BY <1>1, <2>1, NoPackets DEF Tracks, Stream
<1>3. DOMAIN msgs = {}
  BY <1>2, EmptySeq
<1>4. Current(msgs)
  BY <1>1, <1>3 DEF Tracks, Clean
<1>5. \A n \in 1..lastNum : n \in Keys(table) <=> n \in DOMAIN plugged
  BY <1>3, <1>4 DEF Current, About
<1>6. \A k \in Keys(table) : k \in 1..lastNum /\ GetValue(table, k) = DeviceId(given[k])
  BY <1>1 DEF Tracks, Consistent
<1>7. DOMAIN plugged \subseteq 1..lastNum /\ \A n \in DOMAIN plugged : plugged[n] = given[n]
  BY <1>1 DEF Inv, Base, Tracks, Consistent
<1>8. Keys(table) = DOMAIN plugged
  BY <1>5, <1>6, <1>7
<1>9. deviceId = [k \in Keys(table) |-> GetValue(table, k)]
  BY DEF deviceId, Contents
<1>10. \A k \in Keys(table) : GetValue(table, k) = DeviceId(plugged[k])
  BY <1>6, <1>7, <1>8
<1> QED
  BY <1>8, <1>9, <1>10

LEMMA KnownServed == Inv => ServedAreKnown
<1> SUFFICES ASSUME Inv, listener = "up", NEW d \in served PROVE d \in Range(deviceId)
  BY DEF ServedAreKnown
<1>1. PICK given \in Given, msgs \in Seq(Msg) : Tracks(given, msgs)
  BY DEF Inv
<1>2. PICK k \in Keys(table) : d = GetValue(table, k)
  BY <1>1 DEF Tracks
<1>3. k \in DOMAIN deviceId /\ d = deviceId[k]
  BY <1>2 DEF deviceId, Contents
<1> QED
  BY <1>3 DEF Range

(* The inductive invariant holds in every state. *)
LEMMA Always == Spec => []Inv
  BY InitInv, StepInv, PTL DEF Spec

(* The hash table of the listener stays sound whatever usbmuxd sends: no entry
   where ht_find does not look, no key twice, num_keys as many as there are. *)
THEOREM ListenerTableSound == Spec => []TableSound
<1>1. Inv => TableSound
  BY DEF Inv, Base, TableSound
<1> QED
  BY <1>1, Always, PTL

(* Whenever the listener has handled all that usbmuxd sent, in whatever portions it
   read it, its table has exactly the devices that are connected. *)
THEOREM ListenerTableIsCurrent == Spec => []TableIsCurrent
  BY CurrentTable, Always, PTL

(* While the listener is up, every device that has a port has a number in the table. *)
THEOREM ListenerServesKnown == Spec => []ServedAreKnown
  BY KnownServed, Always, PTL

(* Only a message that the code does not expect of usbmuxd closes the listener: the
   numbers it detaches are in the table by then, however reads cut the stream. *)
THEOREM ListenerStaysUp == Spec => []OnlyOddMessagesClose
<1>1. Inv => OnlyOddMessagesClose
  BY DEF Inv, Base, OnlyOddMessagesClose
<1> QED
  BY <1>1, Always, PTL
=============================================================================
