-------------------------------- MODULE HashTable --------------------------------
(***************************************************************************)
(* The hash table of hash_table.c, as operators from tables to tables:     *)
(* buckets with chains of entries, of which a lookup moves the one it      *)
(* finds to the front, and the number of keys, which sizes the arrays that *)
(* ht_keys and ht_values return.  What it is for is a function from keys   *)
(* to values, its Contents.                                                *)
(*                                                                         *)
(* The hash code of an entry is that of its key.  Keys that compare as     *)
(* equal are one key here.                                                 *)
(***************************************************************************)
EXTENDS Integers, Sequences, FiniteSets

CONSTANTS
  Key,
  Value,
  Null,        \* NULL, which is no value: to put it is to remove the key
  Hash,        \* on_hash as a size_t, or the key itself
  NumBuckets   \* NUM_BUCKETS

ASSUME HashTableAssumption ==
  /\ Null \notin Value
  /\ NumBuckets \in Nat \ {0}
  /\ Hash \in [Key -> Nat]

Bucket == 0..(NumBuckets - 1)

Entry == [key : Key, value : Value]

Table == [buckets : [Bucket -> Seq(Entry)], num_keys : Nat]

New == [buckets |-> [b \in Bucket |-> <<>>], num_keys |-> 0]

-----------------------------------------------------------------------------
(* ht_find: the entry of a key in its chain.  A chain holds a key once. *)

BucketOf(k) == Hash[k] % NumBuckets

Chain(t, k) == t.buckets[BucketOf(k)]

Found(t, k) == \E i \in DOMAIN Chain(t, k) : Chain(t, k)[i].key = k

Find(t, k) == CHOOSE i \in DOMAIN Chain(t, k) : Chain(t, k)[i].key = k

(* Faulty: unlinks the entries in front of the one that goes. *)
WithoutFront(chain, i) == SubSeq(chain, i + 1, Len(chain))

Without(chain, i) ==
  [j \in 1..(Len(chain) - 1) |-> IF j < i THEN chain[j] ELSE chain[j + 1]]

WithFirst(e, chain) == [j \in 1..(Len(chain) + 1) |-> IF j = 1 THEN e ELSE chain[j - 1]]

WithChain(t, k, chain, n) ==
  [buckets |-> [t.buckets EXCEPT ![BucketOf(k)] = chain], num_keys |-> n]

-----------------------------------------------------------------------------
(* The operations. *)

(* ht_get: what it returns, and what it does to the table. *)
GetValue(t, k) == IF Found(t, k) THEN Chain(t, k)[Find(t, k)].value ELSE Null

MoveToFront(t, k) ==
  LET i == Find(t, k)
      chain == Chain(t, k)
  IN  IF Found(t, k)
      THEN WithChain(t, k, WithFirst(chain[i], Without(chain, i)), t.num_keys)
      ELSE t

RemoveKey(t, k) ==
  IF Found(t, k)
  THEN WithChain(t, k, Without(Chain(t, k), Find(t, k)), t.num_keys - 1)
  ELSE t

(* The entry of a known key keeps its place. *)
Replace(t, k, v) ==
  WithChain(t, k, [Chain(t, k) EXCEPT ![Find(t, k)] = [key |-> k, value |-> v]], t.num_keys)

Insert(t, k, v) ==
  WithChain(t, k, WithFirst([key |-> k, value |-> v], Chain(t, k)), t.num_keys + 1)

PutKey(t, k, v) ==
  IF v = Null THEN RemoveKey(t, k)
  ELSE IF Found(t, k) THEN Replace(t, k, v)
  ELSE Insert(t, k, v)

(* ht_get_all *)
Entries(t) == UNION {{t.buckets[b][i] : i \in DOMAIN t.buckets[b]} : b \in Bucket}

Keys(t) == {e.key : e \in Entries(t)}

Contents(t) == [k \in Keys(t) |-> GetValue(t, k)]

-----------------------------------------------------------------------------
(* Every entry is in the chain where its key is looked for, no key is there twice,
   and num_keys counts the keys: ht_find would overlook an entry in another
   chain or behind one with its key, and ht_get_all would write beyond an array
   that num_keys makes too short. *)
Sound(t) ==
  /\ t \in Table
  /\ \A b \in Bucket : \A i \in DOMAIN t.buckets[b] : BucketOf(t.buckets[b][i].key) = b
  /\ \A b \in Bucket : \A i, j \in DOMAIN t.buckets[b] :
       t.buckets[b][i].key = t.buckets[b][j].key => i = j
  /\ IsFiniteSet(Keys(t)) /\ t.num_keys = Cardinality(Keys(t))
=============================================================================
