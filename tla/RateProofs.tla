----------------------------- MODULE RateProofs -----------------------------
(***************************************************************************)
(* The rate limit of the dispatch pipeline, for any limits, keys, bounds on *)
(* the buckets and schedules.  That a window of time holds at most so many  *)
(* tokens is not inductive.  The invariant Rates says that, for every key   *)
(* and every moment s of the past, the tokens the key took since s and the  *)
(* tokens it would find now together fit in its capacity and the refills    *)
(* since s.  A check moves one token from what is found to what was taken,  *)
(* time adds a refill to both sides, and a bucket that is evicted was full, *)
(* so that the full one the key gets in its place makes no difference.      *)
(***************************************************************************)
EXTENDS Dispatch, FiniteSetTheorems, TLAPS

USE Zenon

Limits == DOMAIN CapacityOf
Bucket == [key : Limits, tokens : Nat, lastRefill : Nat, lastTouched : Nat]

\* A map of buckets at time t: one bucket per key, never above its capacity, and
\* refilled whenever it is touched.
IsMap(bs, t) ==
  /\ bs \in Seq(Bucket)
  /\ \A i, j \in 1..Len(bs) : bs[i].key = bs[j].key => i = j
  /\ \A i \in 1..Len(bs) : /\ bs[i].tokens <= CapacityOf[bs[i].key]
                           /\ bs[i].lastTouched = bs[i].lastRefill /\ bs[i].lastRefill <= t

\* Key k would find n tokens at time t: in its bucket, or in the full one it would get.
Finds(bs, k, t, n) ==
  \/ \E i \in 1..Len(bs) : bs[i].key = k /\ n = TokensAt(bs[i], t)
  \/ (\A i \in 1..Len(bs) : bs[i].key # k) /\ n = CapacityOf[k]

\* kept holds some of the buckets of bs, each once.
SomeOf(kept, bs) ==
  /\ kept \in Seq(Bucket)
  /\ \A m \in 1..Len(kept) : \E j \in 1..Len(bs) : kept[m] = bs[j]
  /\ \A m, n \in 1..Len(kept) : kept[m].key = kept[n].key => m = n

\* An idle bucket has had the time to fill up.
IdleIsFull == \A k \in Limits : (IdleEvict + 1) * RefillOf[k] >= CapacityOf[k]

-----------------------------------------------------------------------------
(* One bucket                                                                *)

LEMMA Grows ==
  ASSUME NEW x \in Nat, NEW y \in Nat, x <= y, NEW r \in Nat
  PROVE  x * r <= y * r /\ x * r \in Nat /\ y * r \in Nat
<1>1. (y - x) * r \in Nat
  BY SMTT(30)
<1>2. y * r = x * r + (y - x) * r
  BY SMTT(30)
<1> QED
  BY <1>1, <1>2, SMTT(30)

LEMMA OneMore ==
  ASSUME NEW x \in Nat, NEW r \in Nat
  PROVE  (x + 1) * r = x * r + r
BY SMTT(30)

LEMMA LimitTypes ==
  ASSUME NEW k \in Limits
  PROVE  CapacityOf[k] \in Nat /\ RefillOf[k] \in Nat
BY LimiterAssumption DEF Limits

LEMMA TokensType ==
  ASSUME NEW b \in Bucket, NEW t \in Nat, b.lastRefill <= t
  PROVE  TokensAt(b, t) \in Nat /\ TokensAt(b, t) <= CapacityOf[b.key]
<1>1. b.key \in Limits /\ b.tokens \in Nat /\ b.lastRefill \in Nat
  BY DEF Bucket
<1>2. CapacityOf[b.key] \in Nat /\ RefillOf[b.key] \in Nat
  BY <1>1, LimitTypes
<1>3. t - b.lastRefill \in Nat
  BY <1>1, SMTT(30)
<1>4. (t - b.lastRefill) * RefillOf[b.key] \in Nat
  BY <1>2, <1>3, Grows, SMTT(30)
<1> QED
  BY <1>1, <1>2, <1>4, SMTT(30) DEF TokensAt

\* A bucket that was refilled at t holds what it had before the refill.
LEMMA RefilledHolds ==
  ASSUME NEW b \in Bucket, NEW t \in Nat, b.lastRefill = t, b.tokens <= CapacityOf[b.key]
  PROVE  TokensAt(b, t) = b.tokens
<1>1. b.key \in Limits /\ b.tokens \in Nat
  BY DEF Bucket
<1>2. CapacityOf[b.key] \in Nat /\ RefillOf[b.key] \in Nat
  BY <1>1, LimitTypes
<1>3. (t - b.lastRefill) * RefillOf[b.key] = 0
  BY <1>2, SMTT(30)
<1> QED
  BY <1>1, <1>2, <1>3, SMTT(30) DEF TokensAt

LEMMA IdleBucketFull ==
  ASSUME IdleIsFull, NEW b \in Bucket, NEW t \in Nat, b.lastTouched = b.lastRefill, Idle(b, t)
  PROVE  TokensAt(b, t) = CapacityOf[b.key]
<1>1. b.key \in Limits /\ b.tokens \in Nat /\ b.lastRefill \in Nat
  BY DEF Bucket
<1>2. CapacityOf[b.key] \in Nat /\ RefillOf[b.key] \in Nat /\ IdleEvict \in Nat
  BY <1>1, LimitTypes, LimiterAssumption
<1>3. t - b.lastRefill \in Nat /\ IdleEvict + 1 \in Nat /\ IdleEvict + 1 <= t - b.lastRefill
  BY <1>1, <1>2, SMTT(30) DEF Idle
<1>4. (IdleEvict + 1) * RefillOf[b.key] <= (t - b.lastRefill) * RefillOf[b.key]
      /\ (t - b.lastRefill) * RefillOf[b.key] \in Nat /\ (IdleEvict + 1) * RefillOf[b.key] \in Nat
  BY <1>2, <1>3, Grows
<1>5. (IdleEvict + 1) * RefillOf[b.key] >= CapacityOf[b.key]
  BY <1>1 DEF IdleIsFull
<1>6. b.tokens + (t - b.lastRefill) * RefillOf[b.key] >= CapacityOf[b.key]
  BY <1>1, <1>2, <1>4, <1>5, SMTT(30)
<1> QED
  BY <1>1, <1>2, <1>4, <1>6, SMTT(30) DEF TokensAt

\* In one unit of time a bucket gains at most one refill.
LEMMA TokensNextTick ==
  ASSUME NEW b \in Bucket, NEW t \in Nat, b.lastRefill <= t
  PROVE  TokensAt(b, t + 1) <= TokensAt(b, t) + RefillOf[b.key]
<1>1. b.key \in Limits /\ b.tokens \in Nat /\ b.lastRefill \in Nat
  BY DEF Bucket
<1>2. CapacityOf[b.key] \in Nat /\ RefillOf[b.key] \in Nat
  BY <1>1, LimitTypes
<1> DEFINE d == t - b.lastRefill
<1>3. d \in Nat /\ (t + 1) - b.lastRefill = d + 1
  BY <1>1, SMTT(30)
<1>4. (d + 1) * RefillOf[b.key] = d * RefillOf[b.key] + RefillOf[b.key] /\ d * RefillOf[b.key] \in Nat
  BY <1>2, <1>3, OneMore, Grows, SMTT(30)
<1> QED
  BY <1>1, <1>2, <1>3, <1>4, SMTT(30) DEF TokensAt

-----------------------------------------------------------------------------
(* The map of buckets                                                        *)

\* Some of the buckets of a map are a map.
LEMMA SomeIsMap ==
  ASSUME NEW bs, NEW t \in Nat, IsMap(bs, t), NEW kept, SomeOf(kept, bs)
  PROVE  IsMap(kept, t)
<1>1. ASSUME NEW m \in 1..Len(kept)
      PROVE  /\ kept[m].tokens <= CapacityOf[kept[m].key]
             /\ kept[m].lastTouched = kept[m].lastRefill /\ kept[m].lastRefill <= t
  <2>1. PICK j \in 1..Len(bs) : kept[m] = bs[j]
    BY DEF SomeOf
  <2> QED
    BY <2>1 DEF IsMap
<1> QED
  BY <1>1 DEF IsMap, SomeOf

\* As time goes by a map stays one.
LEMMA MapAges ==
  ASSUME NEW bs, NEW t \in Nat, IsMap(bs, t)
  PROVE  IsMap(bs, t + 1)
<1>1. \A i \in 1..Len(bs) : bs[i].lastRefill \in Nat
  <2>1. \A i \in 1..Len(bs) : bs[i] \in Bucket
    BY SMTT(30) DEF IsMap
  <2> QED
    BY <2>1 DEF Bucket
<1> QED
  BY <1>1, SMTT(30) DEF IsMap

\* What a key would find is a number of tokens within its capacity.
LEMMA FindsType ==
  ASSUME NEW bs, NEW t \in Nat, IsMap(bs, t), NEW k \in Limits, NEW n, Finds(bs, k, t, n)
  PROVE  n \in Nat /\ n <= CapacityOf[k]
<1>1. CASE \E i \in 1..Len(bs) : bs[i].key = k /\ n = TokensAt(bs[i], t)
  <2>1. PICK i \in 1..Len(bs) : bs[i].key = k /\ n = TokensAt(bs[i], t)
    BY <1>1
  <2>2. bs[i] \in Bucket /\ bs[i].lastRefill <= t
    BY <2>1, SMTT(30) DEF IsMap
  <2> QED
    BY <2>1, <2>2, TokensType
<1>2. CASE n = CapacityOf[k]
  BY <1>2, LimitTypes, SMTT(30)
<1> QED
  BY <1>1, <1>2 DEF Finds

\* A key finds something.
LEMMA SomethingFound ==
  ASSUME NEW bs, NEW t, NEW k
  PROVE  \E n : Finds(bs, k, t, n)
BY DEF Finds

\* Dropping the buckets that are idle changes nothing for any key.
LEMMA DroppedUnnoticed ==
  ASSUME IdleIsFull, NEW bs, NEW t \in Nat, IsMap(bs, t), NEW kept, SomeOf(kept, bs), NEW k,
         \A j \in 1..Len(bs) : bs[j].key = k => Idle(bs[j], t) \/ \E m \in 1..Len(kept) : kept[m] = bs[j],
         NEW n, Finds(kept, k, t, n)
  PROVE  Finds(bs, k, t, n)
<1>1. CASE \E m \in 1..Len(kept) : kept[m].key = k /\ n = TokensAt(kept[m], t)
  <2>1. PICK m \in 1..Len(kept) : kept[m].key = k /\ n = TokensAt(kept[m], t)
    BY <1>1
  <2>2. PICK j \in 1..Len(bs) : kept[m] = bs[j]
    BY <2>1 DEF SomeOf
  <2> QED
    BY <2>1, <2>2 DEF Finds
<1>2. CASE (\A m \in 1..Len(kept) : kept[m].key # k) /\ n = CapacityOf[k]
  <2>1. CASE \E j \in 1..Len(bs) : bs[j].key = k
    <3>1. PICK j \in 1..Len(bs) : bs[j].key = k
      BY <2>1
    <3>2. Idle(bs[j], t)
      BY <1>2, <3>1
    <3>3. bs[j] \in Bucket /\ bs[j].lastTouched = bs[j].lastRefill
      BY <3>1, SMTT(30) DEF IsMap
    <3>4. TokensAt(bs[j], t) = CapacityOf[k]
      BY <3>1, <3>2, <3>3, IdleBucketFull
    <3> QED
      BY <1>2, <3>1, <3>4 DEF Finds
  <2>2. CASE \A j \in 1..Len(bs) : bs[j].key # k
    BY <1>2, <2>2 DEF Finds
  <2> QED
    BY <2>1, <2>2
<1> QED
  BY <1>1, <1>2 DEF Finds

\* A bucket of a key that has none among the kept ones goes to the end.
LEMMA Placed ==
  ASSUME NEW kept, NEW t \in Nat, IsMap(kept, t), NEW b \in Bucket,
         b.tokens <= CapacityOf[b.key], b.lastTouched = t, b.lastRefill = t,
         \A m \in 1..Len(kept) : kept[m].key # b.key
  PROVE  /\ IsMap(Append(kept, b), t)
         /\ \A n : Finds(Append(kept, b), b.key, t, n) => n = b.tokens
         /\ \A k, n : k # b.key /\ Finds(Append(kept, b), k, t, n) => Finds(kept, k, t, n)
<1> DEFINE new == Append(kept, b)
<1>1. kept \in Seq(Bucket) /\ Len(kept) \in Nat
  BY SMTT(30) DEF IsMap
<1>2. new \in Seq(Bucket) /\ Len(new) = Len(kept) + 1 /\ new[Len(kept) + 1] = b
  BY <1>1, SMTT(30)
<1>3. \A m \in 1..Len(kept) : new[m] = kept[m]
  BY <1>1, SMTT(30)
<1> HIDE DEF new
<1>4. IsMap(new, t)
  <2>1. \A i \in 1..Len(new) : i \in 1..Len(kept) \/ i = Len(kept) + 1
    BY <1>1, <1>2, SMTT(30)
  <2>2. \A i, j \in 1..Len(new) : new[i].key = new[j].key => i = j
    BY <1>2, <1>3, <2>1, ZenonT(60) DEF IsMap
  <2>3. \A i \in 1..Len(new) : /\ new[i].tokens <= CapacityOf[new[i].key]
                              /\ new[i].lastTouched = new[i].lastRefill /\ new[i].lastRefill <= t
    BY <1>2, <1>3, <2>1, SMTT(30) DEF IsMap
  <2> QED
    BY <1>2, <2>2, <2>3 DEF IsMap
<1>5. ASSUME NEW n, Finds(new, b.key, t, n) PROVE n = b.tokens
  <2>1. \A i \in 1..Len(new) : new[i].key = b.key => i = Len(kept) + 1
    BY <1>1, <1>2, <1>3, SMTT(30)
  <2>2. Len(kept) + 1 \in 1..Len(new)
    BY <1>1, <1>2, SMTT(30)
  <2>3. n = TokensAt(b, t)
    BY <1>2, <1>5, <2>1, <2>2 DEF Finds
  <2> QED
    BY <2>3, RefilledHolds
<1>6. ASSUME NEW k, NEW n, k # b.key, Finds(new, k, t, n) PROVE Finds(kept, k, t, n)
  <2>1. CASE \E i \in 1..Len(new) : new[i].key = k /\ n = TokensAt(new[i], t)
    <3>1. PICK i \in 1..Len(new) : new[i].key = k /\ n = TokensAt(new[i], t)
      BY <2>1
    <3>2. i \in 1..Len(kept)
      BY <1>1, <1>2, <1>6, <3>1, SMTT(30)
    <3> QED
      BY <1>3, <3>1, <3>2 DEF Finds
  <2>2. CASE (\A i \in 1..Len(new) : new[i].key # k) /\ n = CapacityOf[k]
    BY <1>1, <1>2, <1>3, <2>2, SMTT(30) DEF Finds
  <2> QED
    BY <1>6, <2>1, <2>2 DEF Finds
<1> QED
  BY <1>4, <1>5, <1>6 DEF new

-----------------------------------------------------------------------------
(* getBucket and check                                                       *)

LEMMA IndexFinds ==
  ASSUME NEW bs \in Seq(Bucket), NEW k
  PROVE  \/ Index(bs, {k}) = 0 /\ \A i \in 1..Len(bs) : bs[i].key # k
         \/ Index(bs, {k}) \in 1..Len(bs) /\ bs[Index(bs, {k})].key = k
<1> DEFINE at == {i \in DOMAIN bs : bs[i].key \in {k}}
<1>1. DOMAIN bs = 1..Len(bs)
  BY SMTT(30)
<1>2. CASE at = {}
  BY <1>1, <1>2 DEF Index
<1>3. CASE at # {}
  <2>1. Index(bs, {k}) \in at
    BY <1>3 DEF Index
  <2> QED
    BY <1>1, <2>1
<1> QED
  BY <1>2, <1>3

\* Without drops one bucket and keeps the others.
LEMMA WithoutKeeps ==
  ASSUME NEW bs, NEW t \in Nat, IsMap(bs, t), NEW i \in 1..Len(bs)
  PROVE  /\ SomeOf(Without(bs, i), bs)
         /\ \A j \in 1..Len(bs) : j # i => \E m \in 1..Len(Without(bs, i)) : Without(bs, i)[m] = bs[j]
         /\ \A m \in 1..Len(Without(bs, i)) : Without(bs, i)[m].key # bs[i].key
<1> DEFINE front == SubSeq(bs, 1, i - 1)  back == SubSeq(bs, i + 1, Len(bs))  kept == Without(bs, i)
<1>1. bs \in Seq(Bucket) /\ Len(bs) \in Nat
  BY SMTT(30) DEF IsMap
<1>2. front \in Seq(Bucket) /\ Len(front) = i - 1 /\ \A m \in 1..(i - 1) : front[m] = bs[m]
  BY <1>1, SMTT(30)
<1>3. back \in Seq(Bucket) /\ Len(back) = Len(bs) - i /\ \A m \in 1..(Len(bs) - i) : back[m] = bs[m + i]
  BY <1>1, SMTT(30)
<1> HIDE DEF front, back
<1>4. kept = front \o back
  BY DEF Without, front, back
<1>5. kept \in Seq(Bucket) /\ Len(kept) = Len(bs) - 1
  BY <1>1, <1>2, <1>3, <1>4, SMTT(30)
<1>6. \A m \in 1..(Len(bs) - 1) : kept[m] = bs[IF m < i THEN m ELSE m + 1]
  BY <1>1, <1>2, <1>3, <1>4, SMTT(30)
<1> HIDE DEF kept
<1>7. ASSUME NEW m \in 1..Len(kept)
      PROVE  \E j \in 1..Len(bs) : j # i /\ j = (IF m < i THEN m ELSE m + 1) /\ kept[m] = bs[j]
  <2> DEFINE j == IF m < i THEN m ELSE m + 1
  <2>1. j \in 1..Len(bs) /\ j # i
    BY <1>1, <1>5, SMTT(30)
  <2>2. kept[m] = bs[j]
    BY <1>5, <1>6
  <2> QED
    BY <2>1, <2>2
<1>8. ASSUME NEW m \in 1..Len(kept), NEW n \in 1..Len(kept), kept[m].key = kept[n].key PROVE m = n
  <2>1. PICK j \in 1..Len(bs) : j = (IF m < i THEN m ELSE m + 1) /\ kept[m] = bs[j]
    BY <1>7
  <2>2. PICK l \in 1..Len(bs) : l = (IF n < i THEN n ELSE n + 1) /\ kept[n] = bs[l]
    BY <1>7
  <2>3. j = l
    BY <1>8, <2>1, <2>2 DEF IsMap
  <2> QED
    BY <1>1, <1>5, <2>1, <2>2, <2>3, SMTT(30)
<1>9. ASSUME NEW j \in 1..Len(bs), j # i PROVE \E m \in 1..Len(kept) : kept[m] = bs[j]
  <2>1. CASE j < i
    BY <1>1, <1>5, <1>6, <2>1, SMTT(30)
  <2>2. CASE j > i
    <3>1. j - 1 \in 1..Len(kept) /\ ~(j - 1 < i) /\ (j - 1) + 1 = j
      BY <1>1, <1>5, <2>2, SMTT(30)
    <3> QED
      BY <1>5, <1>6, <3>1
  <2> QED
    BY <1>1, <1>9, <2>1, <2>2, SMTT(30)
<1>10. ASSUME NEW m \in 1..Len(kept) PROVE kept[m].key # bs[i].key
  <2>1. PICK j \in 1..Len(bs) : j # i /\ kept[m] = bs[j]
    BY <1>7
  <2> QED
    BY <2>1 DEF IsMap
<1>11. SomeOf(kept, bs)
  BY <1>5, <1>7, <1>8 DEF SomeOf
<1> QED
  BY <1>9, <1>10, <1>11 DEF kept

\* Dropping the oldest bucket keeps the others.
LEMMA TailKeeps ==
  ASSUME NEW bs, NEW t \in Nat, IsMap(bs, t), Len(bs) > 0
  PROVE  /\ SomeOf(Tail(bs), bs)
         /\ \A j \in 1..Len(bs) : j # 1 => \E m \in 1..Len(Tail(bs)) : Tail(bs)[m] = bs[j]
<1>1. bs \in Seq(Bucket) /\ Len(bs) \in Nat
  BY SMTT(30) DEF IsMap
<1> DEFINE kept == Tail(bs)
<1>2. kept \in Seq(Bucket) /\ Len(kept) = Len(bs) - 1 /\ \A m \in 1..(Len(bs) - 1) : kept[m] = bs[m + 1]
  BY <1>1, SMTT(30)
<1> HIDE DEF kept
<1>3. \A m \in 1..Len(kept) : m + 1 \in 1..Len(bs) /\ kept[m] = bs[m + 1]
  BY <1>1, <1>2, SMTT(30)
<1>4. ASSUME NEW m \in 1..Len(kept), NEW n \in 1..Len(kept), kept[m].key = kept[n].key PROVE m = n
  <2>1. m + 1 = n + 1
    BY <1>3, <1>4, SMTT(30) DEF IsMap
  <2> QED
    BY <2>1, SMTT(30)
<1>5. ASSUME NEW j \in 1..Len(bs), j # 1 PROVE \E m \in 1..Len(kept) : kept[m] = bs[j]
  <2>1. j - 1 \in 1..Len(kept) /\ (j - 1) + 1 = j
    BY <1>1, <1>2, <1>5, SMTT(30)
  <2> QED
    BY <1>3, <2>1
<1>6. SomeOf(kept, bs)
  BY <1>2, <1>3, <1>4 DEF SomeOf
<1> QED
  BY <1>5, <1>6 DEF kept

LEMMA LimiterFields ==
  ASSUME NEW lim, NEW bs, NEW os, lim = [buckets |-> bs, overflow |-> os], NEW x
  PROVE  /\ [lim EXCEPT !.buckets = x] = [buckets |-> x, overflow |-> os]
         /\ [lim EXCEPT !.overflow = x] = [buckets |-> bs, overflow |-> x]
BY SMTT(30)

\* getBucket's answer g to key k: bucket b at the end of the map, after the kept ones.  b
\* holds what k would have found in bs, and the other keys find in kept what they would.
Gives(g, bs, k, t, kept, b) ==
  /\ g.lim.buckets = Append(kept, b)
  /\ IsMap(kept, t) /\ \A m \in 1..Len(kept) : kept[m].key # k
  /\ b.key = k /\ b.lastTouched = t /\ b.lastRefill <= t
  /\ Finds(bs, k, t, TokensAt(b, t))
  /\ \A j, n : j # k /\ Finds(kept, j, t, n) => Finds(bs, j, t, n)

\* getBucket gives a key a bucket of its own at the end of the map, holding what the key
\* would have found, and nothing changes for the other keys; or it leaves the map alone.
LEMMA GetBucketKeeps ==
  ASSUME IdleIsFull, NEW lim, NEW t \in Nat, IsMap(lim.buckets, t), NEW k \in Limits,
         lim = [buckets |-> lim.buckets, overflow |-> lim.overflow]
  PROVE  LET g == GetBucket(lim, k, t)
         IN  /\ g.lim = [buckets |-> g.lim.buckets, overflow |-> g.lim.overflow]
             /\ \/ g.in = "overflow" /\ g.lim.buckets = lim.buckets
                \/ /\ g.in = "buckets"
                   /\ \E kept \in Seq(Bucket), b \in Bucket : Gives(g, lim.buckets, k, t, kept, b)
<1> DEFINE bs == lim.buckets
           g == GetBucket(lim, k, t)
           i == Index(bs, {k})
           full == Len(bs) >= MaxEntries
<1>1. bs \in Seq(Bucket) /\ Len(bs) \in Nat /\ MaxEntries \in Nat \ {0}
  BY LimiterAssumption, SMTT(30) DEF IsMap
<1>2. \/ i = 0 /\ \A m \in 1..Len(bs) : bs[m].key # k
      \/ i \in 1..Len(bs) /\ bs[i].key = k
  BY <1>1, IndexFinds
<1>3. CASE i \in 1..Len(bs) /\ bs[i].key = k
  <2> DEFINE kept == Without(bs, i)  b == [bs[i] EXCEPT !.lastTouched = t]
  <2>1. i > 0
    BY <1>1, <1>3, SMTT(30)
  <2>2. g = [lim |-> [lim EXCEPT !.buckets = Append(kept, b)], in |-> "buckets"]
    BY <2>1, SMTT(30) DEF GetBucket
  <2>3. g.lim = [buckets |-> Append(kept, b), overflow |-> lim.overflow] /\ g.in = "buckets"
    <3> HIDE DEF kept, b, g
    <3>1. [lim EXCEPT !.buckets = Append(kept, b)] = [buckets |-> Append(kept, b), overflow |-> lim.overflow]
      BY LimiterFields, SMTT(30)
    <3> QED
      BY <2>2, <3>1
  <2>4. bs[i] \in Bucket /\ bs[i].lastRefill <= t
    BY <1>3, SMTT(30) DEF IsMap
  <2>5. b \in Bucket /\ b.key = k /\ b.lastTouched = t /\ b.lastRefill = bs[i].lastRefill /\ b.tokens = bs[i].tokens
    BY <1>3, <2>4 DEF Bucket
  <2>6. TokensAt(b, t) = TokensAt(bs[i], t)
    BY <1>3, <2>5, SMTT(30) DEF TokensAt
  <2>7. Finds(bs, k, t, TokensAt(b, t))
    BY <1>3, <2>6 DEF Finds
  <2> HIDE DEF b, bs, g, i
  <2>8. /\ SomeOf(kept, bs)
        /\ \A j \in 1..Len(bs) : j # i => \E m \in 1..Len(kept) : kept[m] = bs[j]
        /\ \A m \in 1..Len(kept) : kept[m].key # k
    <3>1. IsMap(bs, t)
      BY DEF bs
    <3> QED
      BY <1>3, <3>1, WithoutKeeps, ZenonT(60)
  <2> HIDE DEF kept, b, bs, g, i
  <2>9. IsMap(kept, t) /\ kept \in Seq(Bucket)
    BY <2>8, SomeIsMap DEF SomeOf, bs
  <2>10. ASSUME NEW j, NEW n, j # k, Finds(kept, j, t, n) PROVE Finds(bs, j, t, n)
    <3>1. \A l \in 1..Len(bs) : bs[l].key = j => \E m \in 1..Len(kept) : kept[m] = bs[l]
      BY <1>3, <2>8, <2>10
    <3> QED
      BY <2>8, <2>10, <3>1, DroppedUnnoticed DEF bs
  <2>11. Gives(g, bs, k, t, kept, b)
    BY <2>3, <2>4, <2>5, <2>7, <2>8, <2>9, <2>10, SMTT(30) DEF Gives
  <2> QED
    BY <2>3, <2>5, <2>9, <2>11 DEF g, bs
<1>4. CASE i = 0 /\ full /\ ~Idle(bs[1], t)
  <2> DEFINE o == Index(lim.overflow, Sharing(k))
             os == IF o = 0 THEN Append(lim.overflow, NewBucket(k, t))
                   ELSE Append(Without(lim.overflow, o), [lim.overflow[o] EXCEPT !.lastTouched = t])
  <2>1. g = [lim |-> [lim EXCEPT !.overflow = os], in |-> "overflow"]
    BY <1>4, SMTT(30) DEF GetBucket
  <2> HIDE DEF g, os
  <2>2. [lim EXCEPT !.overflow = os] = [buckets |-> bs, overflow |-> os]
    BY LimiterFields, ZenonT(60)
  <2>3. g.lim = [buckets |-> bs, overflow |-> os] /\ g.in = "overflow"
    BY <2>1, <2>2
  <2> QED
    BY <2>3, SMTT(30) DEF g
<1>5. CASE i = 0 /\ ~(full /\ ~Idle(bs[1], t)) /\ \A m \in 1..Len(bs) : bs[m].key # k
  <2> DEFINE kept == IF full THEN Tail(bs) ELSE bs  b == NewBucket(k, t)
  <2>1. g = [lim |-> [lim EXCEPT !.buckets = Append(kept, b)], in |-> "buckets"]
    BY <1>5, SMTT(30) DEF GetBucket
  <2>2. g.lim = [buckets |-> Append(kept, b), overflow |-> lim.overflow] /\ g.in = "buckets"
    <3> HIDE DEF kept, b, g
    <3>1. [lim EXCEPT !.buckets = Append(kept, b)] = [buckets |-> Append(kept, b), overflow |-> lim.overflow]
      BY LimiterFields, SMTT(30)
    <3> QED
      BY <2>1, <3>1
  <2>3. b \in Bucket /\ b.key = k /\ b.lastTouched = t /\ b.lastRefill = t /\ b.tokens = CapacityOf[k]
    BY LimitTypes DEF NewBucket, Bucket
  <2>4. TokensAt(b, t) = CapacityOf[k]
    BY <2>3, LimitTypes, RefilledHolds, SMTT(30)
  <2>5. Finds(bs, k, t, TokensAt(b, t))
    BY <1>5, <2>4 DEF Finds
  <2>6. /\ SomeOf(kept, bs)
        /\ \A j \in 1..Len(bs) : Idle(bs[j], t) \/ \E m \in 1..Len(kept) : kept[m] = bs[j]
    <3>1. CASE full
      <4>1. Idle(bs[1], t) /\ Len(bs) > 0 /\ kept = Tail(bs)
        BY <1>1, <1>5, <3>1, SMTT(30)
      <4> QED
        BY <4>1, TailKeeps
    <3>2. CASE ~full
      <4>1. kept = bs
        BY <3>2
      <4> QED
        BY <4>1 DEF SomeOf, IsMap
    <3> QED
      BY <3>1, <3>2
  <2> HIDE DEF kept, b, bs, g, i
  <2>7. IsMap(kept, t) /\ kept \in Seq(Bucket)
    BY <2>6, SomeIsMap DEF SomeOf, bs
  <2>8. \A m \in 1..Len(kept) : kept[m].key # k
    BY <1>5, <2>6, SMTT(30) DEF SomeOf
  <2>9. ASSUME NEW j, NEW n, j # k, Finds(kept, j, t, n) PROVE Finds(bs, j, t, n)
    BY <2>6, <2>9, DroppedUnnoticed DEF bs
  <2>10. Gives(g, bs, k, t, kept, b)
    BY <2>2, <2>3, <2>5, <2>7, <2>8, <2>9, SMTT(30) DEF Gives
  <2> QED
    BY <2>2, <2>3, <2>7, <2>10 DEF g, bs
<1> QED
  BY <1>2, <1>3, <1>4, <1>5

\* check takes a token from what the key would have found, or nothing; the other keys
\* find what they would have found.  A shared bucket leaves the map alone.
LEMMA CheckTakes ==
  ASSUME IdleIsFull, NEW lim, NEW t \in Nat, IsMap(lim.buckets, t), NEW k \in Limits,
         lim = [buckets |-> lim.buckets, overflow |-> lim.overflow]
  PROVE  LET c == Check(lim, k, t)
         IN  /\ c.lim = [buckets |-> c.lim.buckets, overflow |-> c.lim.overflow]
             /\ IsMap(c.lim.buckets, t)
             /\ \/ c.shared = TRUE /\ c.lim.buckets = lim.buckets
                \/ /\ c.shared = FALSE
                   /\ \A j, n : j # k /\ Finds(c.lim.buckets, j, t, n) => Finds(lim.buckets, j, t, n)
                   /\ \A n : Finds(c.lim.buckets, k, t, n) =>
                        Finds(lim.buckets, k, t, IF c.ok THEN n + 1 ELSE n)
<1> DEFINE bs == lim.buckets
           g == GetBucket(lim, k, t)
           n0 == Len(g.lim[g.in])
           b1 == Refilled(g.lim[g.in][n0], t)
           ok == b1.tokens >= 1
           left == IF ok THEN [b1 EXCEPT !.tokens = @ - 1] ELSE b1
           c == Check(lim, k, t)
<1>1. c = [ok |-> ok, shared |-> g.in = "overflow", lim |-> [g.lim EXCEPT ![g.in][n0] = left]]
  BY DEF Check
<1>2. g.lim = [buckets |-> g.lim.buckets, overflow |-> g.lim.overflow]
  BY GetBucketKeeps
<1>3. CASE g.in = "overflow" /\ g.lim.buckets = bs
  <2>1. c.lim = [g.lim EXCEPT !.overflow = [g.lim.overflow EXCEPT ![n0] = left]] /\ c.shared = TRUE
    <3> HIDE DEF g, left, n0, c
    <3> QED
      BY <1>1, <1>2, <1>3
  <2> HIDE DEF g, left, n0, c
  <2>2. c.lim = [buckets |-> bs, overflow |-> [g.lim.overflow EXCEPT ![n0] = left]]
    BY <1>2, <1>3, <2>1, LimiterFields
  <2> QED
    BY <2>1, <2>2, SMTT(30) DEF c
<1>4. CASE g.in = "buckets" /\ \E kept \in Seq(Bucket), b \in Bucket : Gives(g, bs, k, t, kept, b)
  <2>1. PICK kept \in Seq(Bucket), b \in Bucket : Gives(g, bs, k, t, kept, b)
    BY <1>4
  <2>a. /\ g.lim.buckets = Append(kept, b)
        /\ IsMap(kept, t) /\ \A m \in 1..Len(kept) : kept[m].key # k
        /\ b.key = k /\ b.lastTouched = t /\ b.lastRefill <= t
        /\ Finds(bs, k, t, TokensAt(b, t))
        /\ \A j, n : j # k /\ Finds(kept, j, t, n) => Finds(bs, j, t, n)
    BY <2>1 DEF Gives
  <2>2. g.lim[g.in] = Append(kept, b)
    BY <1>4, <2>a
  <2> HIDE DEF g, bs
  <2>3. n0 = Len(kept) + 1 /\ g.lim[g.in][n0] = b /\ Len(kept) \in Nat
    BY <2>2, SMTT(30)
  <2>4. b1 = Refilled(b, t)
    BY <2>3
  <2>5. TokensAt(b, t) \in Nat /\ TokensAt(b, t) <= CapacityOf[k]
    BY <2>a, TokensType
  <2>6. b1 \in Bucket /\ b1.key = k /\ b1.tokens = TokensAt(b, t) /\ b1.lastRefill = t /\ b1.lastTouched = t
    BY <2>a, <2>4, <2>5 DEF Refilled, Bucket
  <2> HIDE DEF b1
  <2>7. /\ left \in Bucket /\ left.key = k /\ left.lastRefill = t /\ left.lastTouched = t
        /\ left.tokens \in Nat /\ left.tokens <= CapacityOf[k]
        /\ TokensAt(b, t) = IF ok THEN left.tokens + 1 ELSE left.tokens
    <3>1. CapacityOf[k] \in Nat
      BY LimitTypes
    <3>2. CASE ok
      <4>1. left = [b1 EXCEPT !.tokens = b1.tokens - 1]
        BY <3>2
      <4>2. b1.tokens - 1 \in Nat /\ b1.tokens - 1 <= CapacityOf[k] /\ (b1.tokens - 1) + 1 = b1.tokens
        BY <2>5, <2>6, <3>1, <3>2, SMTT(30)
      <4> HIDE DEF left
      <4>3. left \in Bucket /\ left.tokens = b1.tokens - 1
        BY <2>6, <4>1, <4>2 DEF Bucket
      <4>4. left.key = b1.key /\ left.lastRefill = b1.lastRefill /\ left.lastTouched = b1.lastTouched
        BY <4>1, SMTT(30)
      <4> QED
        BY <2>6, <3>2, <4>2, <4>3, <4>4
    <3>3. CASE ~ok
      BY <2>5, <2>6, <3>1, <3>3
    <3> QED
      BY <3>2, <3>3
  <2> HIDE DEF left, n0, ok
  <2>8. [Append(kept, b) EXCEPT ![n0] = left] = Append(kept, left)
    <3> DEFINE a == Append(kept, b)  z == Append(kept, left)
    <3>1. a \in Seq(Bucket) /\ z \in Seq(Bucket) /\ Len(a) = n0 /\ Len(z) = n0 /\ n0 \in Nat
      BY <2>3, <2>7, SMTT(30)
    <3>2. \A m \in 1..n0 : z[m] = IF m = n0 THEN left ELSE a[m]
      BY <2>3, <2>7, SMTT(30)
    <3> HIDE DEF a, z
    <3>3. a = [m \in 1..n0 |-> a[m]] /\ z = [m \in 1..n0 |-> z[m]]
      BY <3>1, SMTT(30)
    <3> QED
      BY <3>2, <3>3 DEF a, z
  <2> DEFINE new == Append(kept, left)
  <2>9. c.lim = [g.lim EXCEPT !.buckets = new] /\ c.shared = FALSE /\ c.ok = ok
    <3> HIDE DEF c, new
    <3>1. [g.lim.buckets EXCEPT ![n0] = left] = new
      BY <2>a, <2>8 DEF new
    <3>2. [g.lim EXCEPT !["buckets"][n0] = left] = [g.lim EXCEPT !.buckets = [g.lim.buckets EXCEPT ![n0] = left]]
      OBVIOUS
    <3> QED
      BY <1>1, <1>4, <3>1, <3>2
  <2>10. c.lim = [buckets |-> new, overflow |-> g.lim.overflow]
    <3> HIDE DEF c, new
    <3> QED
      BY <1>2, <2>9, LimiterFields
  <2>11. /\ IsMap(new, t)
         /\ \A n : Finds(new, k, t, n) => n = left.tokens
         /\ \A j, n : j # k /\ Finds(new, j, t, n) => Finds(kept, j, t, n)
    <3>1. /\ IsMap(new, t)
          /\ \A n : Finds(new, left.key, t, n) => n = left.tokens
          /\ \A j, n : j # left.key /\ Finds(new, j, t, n) => Finds(kept, j, t, n)
      <4>1. left.tokens <= CapacityOf[left.key] /\ \A m \in 1..Len(kept) : kept[m].key # left.key
        BY <2>a, <2>7
      <4> QED
        BY <2>a, <2>7, <4>1, Placed
    <3> HIDE DEF new
    <3> QED
      BY <2>7, <3>1
  <2> HIDE DEF c, new
  <2>12. ASSUME NEW n, Finds(new, k, t, n) PROVE Finds(bs, k, t, IF c.ok THEN n + 1 ELSE n)
    <3>1. n = left.tokens
      BY <2>11, <2>12
    <3>2. TokensAt(b, t) = IF c.ok THEN n + 1 ELSE n
      BY <2>7, <2>9, <3>1
    <3> QED
      BY <2>a, <3>2
  <2>13. \A j, n : j # k /\ Finds(new, j, t, n) => Finds(bs, j, t, n)
    BY <2>a, <2>11
  <2> QED
    BY <2>9, <2>10, <2>11, <2>12, <2>13 DEF c, bs
<1>5. \/ g.in = "overflow" /\ g.lim.buckets = bs
      \/ g.in = "buckets" /\ \E kept \in Seq(Bucket), b \in Bucket : Gives(g, bs, k, t, kept, b)
  BY GetBucketKeeps
<1> HIDE DEF g, c, bs
<1> QED
  BY <1>3, <1>4, <1>5 DEF c, bs

-----------------------------------------------------------------------------
(* evictIdle                                                                 *)

\* The place of a bucket among the ones that stay: no two share one, and none is empty.
LEMMA FreshPlaces ==
  ASSUME NEW bs \in Seq(Bucket), NEW t
  PROVE  LET F == Fresh(bs, t)
             place(i) == Cardinality(FreshUpTo(bs, t, i))
         IN  /\ F \subseteq 1..Len(bs) /\ Cardinality(F) \in Nat
             /\ \A i \in F : place(i) \in 1..Cardinality(F)
             /\ \A i, j \in F : place(i) = place(j) => i = j
             /\ \A n \in 1..Cardinality(F) : \E i \in F : place(i) = n
<1> DEFINE F == Fresh(bs, t)  Upto(i) == FreshUpTo(bs, t, i)  c == Cardinality(F)
           place == [i \in F |-> Cardinality(Upto(i))]
<1>1. F \subseteq 1..Len(bs) /\ Len(bs) \in Nat
  BY SMTT(30) DEF Fresh
<1>2. IsFiniteSet(1..Len(bs))
  BY <1>1, FS_Interval, SMTT(30)
<1>3. IsFiniteSet(F)
  BY <1>1, <1>2, FS_Subset
<1>4. \A i : Upto(i) \subseteq F /\ (i \in F => i \in Upto(i))
  BY <1>1, SMTT(30) DEF FreshUpTo
<1>5. \A i : IsFiniteSet(Upto(i)) /\ Cardinality(Upto(i)) <= c
  <2> TAKE i
  <2> QED
    BY <1>3, <1>4, FS_Subset
<1>6. c \in Nat /\ \A i : Cardinality(Upto(i)) \in Nat
  BY <1>3, <1>5, FS_CardinalityType
<1>7. \A i \in F : Cardinality(Upto(i)) # 0
  <2> TAKE i \in F
  <2>1. Upto(i) # {}
    BY <1>4
  <2> QED
    BY <1>5, <2>1, FS_EmptySet
<1>8. ASSUME NEW i \in F, NEW j \in F, i < j PROVE Cardinality(Upto(i)) # Cardinality(Upto(j))
  <2>1. i \in Nat /\ j \in Nat /\ F \subseteq Nat
    BY <1>1, SMTT(30)
  <2>2. Upto(i) \subseteq Upto(j)
    BY <1>8, <2>1, SMTT(30) DEF FreshUpTo
  <2>3. j \notin Upto(i)
    BY <1>8, <2>1, SMTT(30) DEF FreshUpTo
  <2>4. Upto(i) # Upto(j)
    BY <1>4, <2>3
  <2> HIDE DEF Upto
  <2> QED
    BY <1>5, <2>2, <2>4, FS_Subset
<1> HIDE DEF Upto, F
<1>9. \A i, j \in F : Cardinality(Upto(i)) = Cardinality(Upto(j)) => i = j
  BY <1>1, <1>8, SMTT(30)
<1>10. \A i \in F : Cardinality(Upto(i)) \in 1..c
  BY <1>5, <1>6, <1>7, SMTT(30)
<1>11. place \in Injection(F, 1..c)
  BY <1>9, <1>10 DEF Injection, IsInjective
<1>12. IsFiniteSet(1..c) /\ Cardinality(1..c) = c
  BY <1>6, FS_Interval, SMTT(30)
<1>13. place \in Surjection(F, 1..c)
  BY <1>11, <1>12, FS_Injection
<1>14. \A n \in 1..c : \E i \in F : Cardinality(Upto(i)) = n
  BY <1>13 DEF Surjection
<1> QED
  BY <1>1, <1>6, <1>9, <1>10, <1>14 DEF F, Upto

\* What evictIdle leaves is the buckets that are not idle.
LEMMA EvictKeeps ==
  ASSUME NEW bs, NEW t \in Nat, IsMap(bs, t)
  PROVE  /\ SomeOf(KeptOf(bs, t), bs)
         /\ \A j \in 1..Len(bs) : Idle(bs[j], t) \/ \E m \in 1..Len(KeptOf(bs, t)) : KeptOf(bs, t)[m] = bs[j]
<1> DEFINE F == Fresh(bs, t)  c == Cardinality(F)  place(i) == Cardinality(FreshUpTo(bs, t, i))
           pick(n) == CHOOSE i \in F : place(i) = n
           kept == KeptOf(bs, t)
<1>1. bs \in Seq(Bucket) /\ Len(bs) \in Nat
  BY SMTT(30) DEF IsMap
<1>2. /\ F \subseteq 1..Len(bs) /\ c \in Nat
      /\ \A i \in F : place(i) \in 1..c
      /\ \A i, j \in F : place(i) = place(j) => i = j
      /\ \A n \in 1..c : \E i \in F : place(i) = n
  BY <1>1, FreshPlaces
<1>3. kept = [n \in 1..c |-> bs[pick(n)]]
  BY DEF KeptOf
<1>4. \A i \in 1..Len(bs) : Idle(bs[i], t) \/ i \in F
  BY <1>1, SMTT(30) DEF Fresh
<1> HIDE DEF F, c, place, kept
<1>5. \A n \in 1..c : pick(n) \in F /\ place(pick(n)) = n
  BY <1>2
<1>6. \A i \in F : pick(place(i)) = i
  BY <1>2
<1> HIDE DEF pick
<1>7. \A n \in 1..c : kept[n] = bs[pick(n)] /\ pick(n) \in 1..Len(bs)
  BY <1>2, <1>3, <1>5
<1>8. kept \in Seq(Bucket) /\ Len(kept) = c
  <2>1. \A n \in 1..c : bs[pick(n)] \in Bucket
    BY <1>1, <1>7, SMTT(30)
  <2> QED
    BY <1>2, <1>3, <2>1, SMTT(30)
<1>9. ASSUME NEW m \in 1..c, NEW n \in 1..c, kept[m].key = kept[n].key PROVE m = n
  <2>1. pick(m) = pick(n)
    BY <1>7, <1>9, SMTT(30) DEF IsMap
  <2> QED
    BY <1>5, <2>1
<1>10. SomeOf(kept, bs)
  BY <1>7, <1>8, <1>9 DEF SomeOf
<1>11. ASSUME NEW j \in 1..Len(bs), ~Idle(bs[j], t) PROVE \E m \in 1..Len(kept) : kept[m] = bs[j]
  <2>1. j \in F /\ place(j) \in 1..c /\ pick(place(j)) = j
    BY <1>2, <1>4, <1>6, <1>11
  <2> QED
    BY <1>7, <1>8, <2>1
<1> QED
  BY <1>10, <1>11 DEF kept

-----------------------------------------------------------------------------
(* The tokens taken so far                                                   *)

\* The tokens key k took between the times s and e.
Between(tk, k, s, e) == {x \in tk : x.key = k /\ x.at \in s..e}

\* What k took since s and what it would find now fit in its capacity and the refills since.
Room(bs, tk, t) ==
  \A k \in Limits, s \in 0..t : (\A x \in Between(tk, k, s, t) : ~x.shared) =>
    \A n : Finds(bs, k, t, n) =>
      Cardinality(Between(tk, k, s, t)) + n <= CapacityOf[k] + (t - s) * RefillOf[k]

\* What k took in a window of the past fits in its capacity and the refills in the window.
Windows(tk, t) ==
  \A k \in Limits, s, e \in 0..t : s <= e /\ (\A x \in Between(tk, k, s, e) : ~x.shared) =>
    Cardinality(Between(tk, k, s, e)) <= CapacityOf[k] + (e - s) * RefillOf[k]

Taken(tk, t) == IsFiniteSet(tk) /\ \A x \in tk : x.key \in Limits /\ x.at \in Nat /\ x.at <= t

Rated(lim, tk, t) ==
  /\ lim = [buckets |-> lim.buckets, overflow |-> lim.overflow] /\ IsMap(lim.buckets, t)
  /\ Taken(tk, t) /\ Room(lim.buckets, tk, t) /\ Windows(tk, t)

LEMMA BetweenFinite ==
  ASSUME NEW tk, NEW t, Taken(tk, t), NEW k, NEW s, NEW e
  PROVE  IsFiniteSet(Between(tk, k, s, e)) /\ Cardinality(Between(tk, k, s, e)) \in Nat
<1>1. Between(tk, k, s, e) \subseteq tk
  BY DEF Between
<1>2. IsFiniteSet(tk)
  BY DEF Taken
<1>3. IsFiniteSet(Between(tk, k, s, e))
  BY <1>1, <1>2, FS_Subset
<1> QED
  BY <1>3, FS_CardinalityType

\* One more token counts at most one more, for its key, in the windows that hold its time.
LEMMA BetweenAdd ==
  ASSUME NEW tk, NEW t, Taken(tk, t), NEW x, NEW k, NEW s, NEW e
  PROVE  /\ Between(tk, k, s, e) \subseteq Between(tk \cup {x}, k, s, e)
         /\ x.key # k \/ x.at \notin s..e => Between(tk \cup {x}, k, s, e) = Between(tk, k, s, e)
         /\ x.key = k /\ x.at \in s..e => x \in Between(tk \cup {x}, k, s, e)
         /\ Cardinality(Between(tk \cup {x}, k, s, e)) <= Cardinality(Between(tk, k, s, e)) + 1
<1> DEFINE old == Between(tk, k, s, e)  new == Between(tk \cup {x}, k, s, e)
<1>1. new = old \/ new = old \cup {x}
  BY DEF Between
<1>2. old \subseteq new /\ (x.key # k \/ x.at \notin s..e => new = old) /\ (x.key = k /\ x.at \in s..e => x \in new)
  BY DEF Between
<1>3. IsFiniteSet(old) /\ Cardinality(old) \in Nat
  BY BetweenFinite
<1> HIDE DEF old, new
<1>4. Cardinality(old \cup {x}) <= Cardinality(old) + 1 /\ Cardinality(old) <= Cardinality(old) + 1
  <2>1. Cardinality(old \cup {x}) = IF x \in old THEN Cardinality(old) ELSE Cardinality(old) + 1
    BY <1>3, FS_AddElement
  <2> QED
    BY <1>3, <2>1, SMTT(30)
<1>5. Cardinality(new) <= Cardinality(old) + 1
  BY <1>1, <1>4
<1> QED
  BY <1>2, <1>5 DEF old, new

\* A window that ends now is bounded by what there was room for.
LEMMA WindowNow ==
  ASSUME NEW bs, NEW tk, NEW t \in Nat, IsMap(bs, t), Taken(tk, t), Room(bs, tk, t),
         NEW k \in Limits, NEW s \in 0..t, \A x \in Between(tk, k, s, t) : ~x.shared
  PROVE  Cardinality(Between(tk, k, s, t)) <= CapacityOf[k] + (t - s) * RefillOf[k]
<1>1. PICK n : Finds(bs, k, t, n)
  BY SomethingFound
<1>2. n \in Nat
  BY <1>1, FindsType
<1> DEFINE size == Cardinality(Between(tk, k, s, t))  most == CapacityOf[k] + (t - s) * RefillOf[k]
<1>3. size + n <= most
  BY <1>1 DEF Room
<1>4. size \in Nat
  BY BetweenFinite
<1>5. most \in Nat
  <2>1. CapacityOf[k] \in Nat /\ RefillOf[k] \in Nat /\ t - s \in Nat
    BY LimitTypes, SMTT(30)
  <2>2. (t - s) * RefillOf[k] \in Nat
    BY <2>1, Grows, SMTT(30)
  <2> QED
    BY <2>1, <2>2, SMTT(30)
<1> HIDE DEF size, most
<1>6. size <= most
  BY <1>2, <1>3, <1>4, <1>5, SMTT(30)
<1> QED
  BY <1>6 DEF size, most

\* A step at time t only adds tokens taken at t: the windows that ended before are unchanged.
LEMMA WindowsGrow ==
  ASSUME NEW bs, NEW tk, NEW new, NEW t \in Nat, IsMap(bs, t), Taken(new, t), Room(bs, new, t), Windows(tk, t),
         \A k, s, e : e \in 0..t /\ e # t => Between(new, k, s, e) = Between(tk, k, s, e)
  PROVE  Windows(new, t)
<1> SUFFICES ASSUME NEW k \in Limits, NEW s \in 0..t, NEW e \in 0..t, s <= e,
                    \A x \in Between(new, k, s, e) : ~x.shared
             PROVE  Cardinality(Between(new, k, s, e)) <= CapacityOf[k] + (e - s) * RefillOf[k]
  BY DEF Windows
<1>1. CASE e = t
  BY <1>1, WindowNow
<1>2. CASE e # t
  BY <1>2 DEF Windows
<1> QED
  BY <1>1, <1>2

-----------------------------------------------------------------------------
(* The steps of the limiter                                                  *)

\* check: whoever takes a token finds one less afterwards.
LEMMA CheckRated ==
  ASSUME IdleIsFull, NEW lim, NEW tk, NEW t \in Nat, Rated(lim, tk, t), NEW k \in Limits, NEW r
  PROVE  LET c == Check(lim, k, t)
             x == [r |-> r, key |-> k, at |-> t, shared |-> c.shared]
         IN  Rated(c.lim, IF c.ok THEN tk \cup {x} ELSE tk, t)
<1> DEFINE c == Check(lim, k, t)
           x == [r |-> r, key |-> k, at |-> t, shared |-> c.shared]
           new == IF c.ok THEN tk \cup {x} ELSE tk
<1>1. /\ lim = [buckets |-> lim.buckets, overflow |-> lim.overflow] /\ IsMap(lim.buckets, t)
      /\ Taken(tk, t) /\ Room(lim.buckets, tk, t) /\ Windows(tk, t)
  BY DEF Rated
<1>2. /\ c.lim = [buckets |-> c.lim.buckets, overflow |-> c.lim.overflow]
      /\ IsMap(c.lim.buckets, t)
      /\ \/ c.shared = TRUE /\ c.lim.buckets = lim.buckets
         \/ /\ c.shared = FALSE
            /\ \A j, n : j # k /\ Finds(c.lim.buckets, j, t, n) => Finds(lim.buckets, j, t, n)
            /\ \A n : Finds(c.lim.buckets, k, t, n) =>
                 Finds(lim.buckets, k, t, IF c.ok THEN n + 1 ELSE n)
  BY <1>1, CheckTakes
<1> HIDE DEF c
<1>3. x.key = k /\ x.at = t /\ x.shared = c.shared
  OBVIOUS
<1> HIDE DEF x
<1>4. Taken(new, t)
  <2>1. IsFiniteSet(tk \cup {x})
    BY <1>1, FS_AddElement DEF Taken
  <2> QED
    BY <1>1, <1>3, <2>1, SMTT(30) DEF Taken
<1>5. /\ \A j, s, e : Between(tk, j, s, e) \subseteq Between(new, j, s, e)
      /\ \A j, s, e : j # k \/ t \notin s..e => Between(new, j, s, e) = Between(tk, j, s, e)
      /\ \A s, e : c.ok /\ t \in s..e => x \in Between(new, k, s, e)
  <2>1. CASE c.ok
    <3>1. new = tk \cup {x}
      BY <2>1
    <3> HIDE DEF new
    <3> QED
      BY <1>3, <3>1 DEF Between
  <2>2. CASE ~c.ok
    BY <2>2
  <2> QED
    BY <2>1, <2>2
<1>6. \A s, e : Cardinality(Between(new, k, s, e)) <= Cardinality(Between(tk, k, s, e)) + 1
  BY <1>1, BetweenAdd, BetweenFinite, SMTT(30)
<1>7. ~c.ok => new = tk
  OBVIOUS
<1> HIDE DEF new
<1>8. ASSUME NEW j \in Limits, NEW s \in 0..t, \A y \in Between(new, j, s, t) : ~y.shared,
             NEW n, Finds(c.lim.buckets, j, t, n)
      PROVE  Cardinality(Between(new, j, s, t)) + n <= CapacityOf[j] + (t - s) * RefillOf[j]
  <2>1. \A y \in Between(tk, j, s, t) : ~y.shared
    BY <1>5, <1>8
  <2>2. \A m : Finds(lim.buckets, j, t, m) =>
          Cardinality(Between(tk, j, s, t)) + m <= CapacityOf[j] + (t - s) * RefillOf[j]
    BY <1>1, <2>1 DEF Room
  <2>3. t \in s..t
    BY SMTT(30)
  <2>4. CASE j # k
    <3>1. Between(new, j, s, t) = Between(tk, j, s, t)
      BY <1>5, <2>4
    <3>2. Finds(lim.buckets, j, t, n)
      BY <1>2, <1>8, <2>4
    <3> QED
      BY <2>2, <3>1, <3>2
  <2>5. CASE j = k /\ ~c.ok
    <3>1. Finds(lim.buckets, j, t, n)
      BY <1>2, <1>8, <2>5
    <3> QED
      BY <1>7, <2>2, <2>5, <3>1
  <2>6. CASE j = k /\ c.ok
    <3>1. x \in Between(new, j, s, t)
      BY <1>5, <2>3, <2>6
    <3>2. ~c.shared
      BY <1>3, <1>8, <3>1
    <3>3. Finds(lim.buckets, j, t, n + 1)
      BY <1>2, <1>8, <2>6, <3>2
    <3> DEFINE before == Cardinality(Between(tk, j, s, t))  after == Cardinality(Between(new, j, s, t))
               most == CapacityOf[j] + (t - s) * RefillOf[j]
    <3>4. before + (n + 1) <= most
      BY <2>2, <3>3
    <3>5. before \in Nat /\ after \in Nat /\ after <= before + 1
      BY <1>1, <1>4, <1>6, <2>6, BetweenFinite
    <3>6. n \in Nat
      BY <1>2, <1>8, FindsType
    <3>7. most \in Nat
      <4>1. CapacityOf[j] \in Nat /\ RefillOf[j] \in Nat /\ t - s \in Nat
        BY LimitTypes, SMTT(30)
      <4>2. (t - s) * RefillOf[j] \in Nat
        BY <4>1, Grows, SMTT(30)
      <4> QED
        BY <4>1, <4>2, SMTT(30)
    <3> HIDE DEF before, after, most
    <3>8. after + n <= most
      BY <3>4, <3>5, <3>6, <3>7, SMTT(30)
    <3> QED
      BY <3>8 DEF after, most
  <2> QED
    BY <2>4, <2>5, <2>6
<1>9. Room(c.lim.buckets, new, t)
  BY <1>8 DEF Room
<1>10. \A j, s, e : e \in 0..t /\ e # t => Between(new, j, s, e) = Between(tk, j, s, e)
  <2> SUFFICES ASSUME NEW j, NEW s, NEW e \in 0..t, e # t PROVE Between(new, j, s, e) = Between(tk, j, s, e)
    OBVIOUS
  <2>1. t \notin s..e
    BY SMTT(30)
  <2> QED
    BY <1>5, <2>1
<1>11. Windows(new, t)
  BY <1>1, <1>2, <1>4, <1>9, <1>10, WindowsGrow
<1>12. Rated(c.lim, new, t)
  BY <1>2, <1>4, <1>9, <1>11 DEF Rated
<1> QED
  BY <1>12 DEF c, x, new

\* evictIdle: whoever loses a bucket would have found it full.
LEMMA EvictRated ==
  ASSUME IdleIsFull, NEW lim, NEW tk, NEW t \in Nat, Rated(lim, tk, t)
  PROVE  Rated(EvictIdle(lim, t), tk, t)
<1> DEFINE kept == KeptOf(lim.buckets, t)  left == EvictIdle(lim, t)
<1>1. IsMap(lim.buckets, t) /\ Taken(tk, t) /\ Room(lim.buckets, tk, t) /\ Windows(tk, t)
  BY DEF Rated
<1>2. /\ SomeOf(kept, lim.buckets)
      /\ \A j \in 1..Len(lim.buckets) : ~Idle(lim.buckets[j], t) => \E m \in 1..Len(kept) : kept[m] = lim.buckets[j]
  BY <1>1, EvictKeeps
<1>3. left = [buckets |-> left.buckets, overflow |-> left.overflow] /\ left.buckets = kept
  BY DEF EvictIdle
<1> HIDE DEF kept, left
<1>4. IsMap(kept, t)
  BY <1>1, <1>2, SomeIsMap
<1>5. \A k \in Limits : \A n : Finds(kept, k, t, n) => Finds(lim.buckets, k, t, n)
  BY <1>1, <1>2, DroppedUnnoticed
<1>6. Room(kept, tk, t)
  BY <1>1, <1>5 DEF Room
<1>7. Rated(left, tk, t)
  BY <1>1, <1>3, <1>4, <1>6 DEF Rated
<1> QED
  BY <1>7 DEF left

\* As time passes a bucket gains at most the refill of the time that passed.
LEMMA TickRated ==
  ASSUME NEW lim, NEW tk, NEW t \in Nat, Rated(lim, tk, t)
  PROVE  Rated(lim, tk, t + 1)
<1> DEFINE bs == lim.buckets
<1>1. /\ lim = [buckets |-> bs, overflow |-> lim.overflow] /\ IsMap(bs, t)
      /\ Taken(tk, t) /\ Room(bs, tk, t) /\ Windows(tk, t)
  BY DEF Rated
<1> HIDE DEF bs
<1>2. IsMap(bs, t + 1)
  BY <1>1, MapAges
<1>3. Taken(tk, t + 1)
  BY <1>1, SMTT(30) DEF Taken
<1>4. \A k, s : Between(tk, k, s, t + 1) = Between(tk, k, s, t)
  BY <1>1, SMTT(30) DEF Between, Taken
<1>5. ASSUME NEW k \in Limits, NEW s \in 0..(t + 1), \A x \in Between(tk, k, s, t + 1) : ~x.shared,
             NEW n, Finds(bs, k, t + 1, n)
      PROVE  Cardinality(Between(tk, k, s, t + 1)) + n <= CapacityOf[k] + ((t + 1) - s) * RefillOf[k]
  <2>1. CapacityOf[k] \in Nat /\ RefillOf[k] \in Nat
    BY LimitTypes
  <2>2. n \in Nat /\ n <= CapacityOf[k]
    BY <1>2, <1>5, FindsType, SMTT(30)
  <2>3. CASE s = t + 1
    <3>1. Between(tk, k, s, t + 1) = {}
      BY <1>1, <2>3, SMTT(30) DEF Between, Taken
    <3>2. Cardinality(Between(tk, k, s, t + 1)) = 0
      BY <3>1, FS_EmptySet
    <3>3. ((t + 1) - s) * RefillOf[k] = 0
      BY <2>1, <2>3, SMTT(30)
    <3> QED
      BY <2>1, <2>2, <3>2, <3>3, SMTT(30)
  <2>4. CASE s \in 0..t
    <3> DEFINE size == Cardinality(Between(tk, k, s, t))  more == (t - s) * RefillOf[k]
    <3>1. PICK m \in Nat : Finds(bs, k, t, m) /\ n <= m + RefillOf[k]
      <4>1. CASE \E i \in 1..Len(bs) : bs[i].key = k
        <5>1. PICK i \in 1..Len(bs) : bs[i].key = k /\ n = TokensAt(bs[i], t + 1)
          BY <1>5, <4>1 DEF Finds
        <5>2. bs[i] \in Bucket /\ bs[i].lastRefill <= t
          BY <1>1, SMTT(30) DEF IsMap
        <5>3. TokensAt(bs[i], t) \in Nat /\ n <= TokensAt(bs[i], t) + RefillOf[k]
          BY <5>1, <5>2, TokensType, TokensNextTick
        <5>4. Finds(bs, k, t, TokensAt(bs[i], t))
          BY <5>1 DEF Finds
        <5> QED
          BY <5>3, <5>4
      <4>2. CASE \A i \in 1..Len(bs) : bs[i].key # k
        <5>1. Finds(bs, k, t, CapacityOf[k])
          BY <4>2 DEF Finds
        <5> QED
          BY <2>1, <2>2, <5>1, SMTT(30)
      <4> QED
        BY <4>1, <4>2
    <3>2. size + m <= CapacityOf[k] + more
      BY <1>1, <1>4, <1>5, <2>4, <3>1 DEF Room
    <3>3. size \in Nat
      BY <1>1, BetweenFinite
    <3>4. t - s \in Nat /\ (t + 1) - s = (t - s) + 1
      BY <2>4, SMTT(30)
    <3>5. more \in Nat /\ ((t + 1) - s) * RefillOf[k] = more + RefillOf[k]
      <4>1. more \in Nat
        BY <2>1, <3>4, Grows, SMTT(30)
      <4>2. ((t - s) + 1) * RefillOf[k] = (t - s) * RefillOf[k] + RefillOf[k]
        BY <2>1, <3>4, OneMore
      <4> QED
        BY <3>4, <4>1, <4>2
    <3>6. size = Cardinality(Between(tk, k, s, t + 1))
      BY <1>4
    <3> HIDE DEF size, more
    <3>7. size + n <= CapacityOf[k] + (more + RefillOf[k])
      BY <2>1, <2>2, <3>1, <3>2, <3>3, <3>5, SMTT(30)
    <3> QED
      BY <3>5, <3>6, <3>7
  <2> QED
    BY <2>3, <2>4, SMTT(30)
<1>6. Room(bs, tk, t + 1)
  BY <1>5 DEF Room
<1>7. ASSUME NEW k \in Limits, NEW s \in 0..(t + 1), NEW e \in 0..(t + 1), s <= e,
             \A x \in Between(tk, k, s, e) : ~x.shared
      PROVE  Cardinality(Between(tk, k, s, e)) <= CapacityOf[k] + (e - s) * RefillOf[k]
  <2>1. CASE e = t + 1
    BY <1>2, <1>3, <1>6, <1>7, <2>1, WindowNow, SMTT(30)
  <2>2. CASE e # t + 1
    <3>1. s \in 0..t /\ e \in 0..t
      BY <1>7, <2>2, SMTT(30)
    <3> QED
      BY <1>1, <1>7, <3>1 DEF Windows
  <2> QED
    BY <2>1, <2>2
<1>8. Windows(tk, t + 1)
  BY <1>7 DEF Windows
<1> QED
  BY <1>1, <1>2, <1>3, <1>6, <1>8 DEF Rated, bs

-----------------------------------------------------------------------------
(* The limiter of a service                                                  *)

Rates == opts \in Options /\ now \in Nat /\ Rated(limiter, taken, now)

\* A rate-limited request is counted under a key that has a limit.
LEMMA KeyHasLimit ==
  ASSUME opts \in Options, opts.rate, NEW r \in opts.requests
  PROVE  LimiterKey(r, Identity(r)) \in Limits
<1>1. Identity(r) \in {Req[r].service, NoCaller}
  BY DEF Identity
<1> QED
  BY <1>1, LimiterAssumption DEF Limits

LEMMA RatesNext ==
  ASSUME IdleIsFull, Rates, [Next]_vars
  PROVE  Rates'
<1>1. opts \in Options /\ now \in Nat /\ Rated(limiter, taken, now)
  BY DEF Rates
<1>2. CASE UNCHANGED <<opts, now, limiter, taken>>
  BY <1>1, <1>2 DEF Rates
<1>3. ASSUME NEW r \in opts.requests, Proceeds(r)
      PROVE  Rates'
  <2>1. CASE Admit(r) /\ opts.rate /\ ~Rejected(r)
    <3> DEFINE k == LimiterKey(r, Identity(r))
               c == Check(limiter, k, now)
               x == [r |-> r, key |-> k, at |-> now, shared |-> c.shared]
    <3>1. limiter' = c.lim /\ taken' = (IF c.ok THEN taken \cup {x} ELSE taken) /\ opts' = opts /\ now' = now
      BY <2>1 DEF Admit, world
    <3>2. k \in Limits
      BY <1>1, <2>1, KeyHasLimit
    <3>3. Rated(c.lim, IF c.ok THEN taken \cup {x} ELSE taken, now)
      BY <1>1, <3>2, CheckRated
    <3> QED
      BY <1>1, <3>1, <3>3 DEF Rates
  <2>2. CASE Admit(r) /\ ~(opts.rate /\ ~Rejected(r))
    <3>1. UNCHANGED <<opts, now, limiter, taken>>
      BY <2>2 DEF Admit, world
    <3> QED
      BY <1>2, <3>1
  <2>3. CASE Receive(r)
    BY <1>2, <2>3 DEF Receive, world
  <2>4. CASE HandleBuiltin(r)
    BY <1>2, <2>4 DEF HandleBuiltin, world, guards
  <2>5. CASE BeginIdempotent(r)
    BY <1>2, <2>5 DEF BeginIdempotent, world, guards
  <2>6. CASE Before(r)
    BY <1>2, <2>6 DEF Before, world, guards
  <2>7. CASE Invoke(r)
    BY <1>2, <2>7 DEF Invoke, world, guards
  <2>8. CASE After(r)
    BY <1>2, <2>8 DEF After, world, guards
  <2>9. CASE Cached(r) \/ Committed(r) \/ DeadLetter(r)
    BY <1>2, <2>9 DEF Cached, Committed, DeadLetter, world, guards
  <2> QED
    BY <1>3, <2>1, <2>2, <2>3, <2>4, <2>5, <2>6, <2>7, <2>8, <2>9 DEF Proceeds
<1>4. CASE EvictTimer
  <2>1. limiter' = EvictIdle(limiter, now) /\ taken' = taken /\ opts' = opts /\ now' = now
    BY <1>4 DEF EvictTimer, world
  <2> QED
    BY <1>1, <2>1, EvictRated DEF Rates
<1>5. CASE Tick
  <2>1. limiter' = limiter /\ taken' = taken /\ opts' = opts /\ now' = now + 1
    BY <1>5 DEF Tick, guards
  <2>2. now + 1 \in Nat
    BY <1>1, SMTT(30)
  <2> QED
    BY <1>1, <2>1, <2>2, TickRated DEF Rates
<1>6. ASSUME NEW t, SetEnabled(t) PROVE Rates'
  BY <1>2, <1>6 DEF SetEnabled, guards
<1>7. ASSUME NEW k, Forget(k) PROVE Rates'
  BY <1>2, <1>7 DEF Forget, guards, world
<1>8. CASE UNCHANGED vars
  BY <1>2, <1>8 DEF vars
<1> QED
  BY <1>3, <1>4, <1>5, <1>6, <1>7, <1>8 DEF Next

LEMMA RatesInit ==
  ASSUME Init
  PROVE  Rates
<1>1. opts \in Options /\ now = 0 /\ limiter = [buckets |-> <<>>, overflow |-> <<>>] /\ taken = {}
  BY DEF Init, NewLimiter
<1>2. IsMap(<<>>, 0)
  BY SMTT(30) DEF IsMap
<1>3. Taken({}, 0)
  BY FS_EmptySet DEF Taken
<1>4. \A k, s, e : Cardinality(Between({}, k, s, e)) = 0
  BY FS_EmptySet DEF Between
<1>5. \A k \in Limits : CapacityOf[k] \in Nat /\ RefillOf[k] \in Nat
  BY LimitTypes
<1>6. Room(<<>>, {}, 0)
  BY <1>2, <1>4, <1>5, FindsType, SMTT(30) DEF Room
<1>7. Windows({}, 0)
  BY <1>2, <1>3, <1>6, WindowNow, SMTT(30) DEF Windows
<1> QED
  BY <1>1, <1>2, <1>3, <1>6, <1>7 DEF Rates, Rated

\* The rate limit holds in every window of time, through every eviction, by the timer or
\* for room, of an idle bucket (rate-limit.ts check, getBucket, evictIdle): provided that a
\* bucket counts as idle only after the time it needs to fill up, a key whose requests
\* never shared an overflow bucket takes at most its capacity and the refills meanwhile.
THEOREM RatesAreKept ==
  ASSUME IdleIsFull
  PROVE  Spec => []RateBound
<1>1. Init => Rates
  BY RatesInit
<1>2. Rates /\ [Next]_vars => Rates'
  BY RatesNext
<1>3. Rates => RateBound
  <2> SUFFICES ASSUME Rates, NEW a \in taken, NEW b \in taken, a.key = b.key, a.at <= b.at,
                      \A x \in Between(taken, a.key, a.at, b.at) : ~x.shared
               PROVE  Cardinality(Between(taken, a.key, a.at, b.at))
                        <= CapacityOf[a.key] + (b.at - a.at) * RefillOf[a.key]
    BY DEF RateBound, Between
  <2>1. now \in Nat /\ Taken(taken, now) /\ Windows(taken, now)
    BY DEF Rates, Rated
  <2>2. a.key \in Limits /\ a.at \in 0..now /\ b.at \in 0..now
    BY <2>1, SMTT(30) DEF Taken
  <2> QED
    BY <2>1, <2>2 DEF Windows
<1> QED
  BY <1>1, <1>2, <1>3, PTL DEF Spec

=============================================================================
