--------------------------- MODULE Stores_proofs ----------------------------
(***************************************************************************)
(* That the stores keep what they acknowledged, for any number of runs,    *)
(* any records and any caps: the file-backed run store, and the migration  *)
(* of the file-backed stores to Postgres.                                  *)
(***************************************************************************)
EXTENDS RunStore, Migration, SetFacts, TLAPS

\* What Append does to a sequence.
LEMMA AppendFacts ==
    ASSUME NEW S, NEW s \in Seq(S), NEW e \in S
    PROVE  /\ Append(s, e) \in Seq(S) /\ Len(Append(s, e)) = Len(s) + 1
           /\ Append(s, e)[Len(s) + 1] = e
           /\ \A i \in 1 .. Len(s) : Append(s, e)[i] = s[i]
OBVIOUS

\* What a subsequence holds.
LEMMA SubSeqFacts ==
    ASSUME NEW S, NEW s, NEW m \in Int, NEW n \in Int, \A i \in m .. n : s[i] \in S
    PROVE  LET t == SubSeq(s, m, n)
           IN  /\ t \in Seq(S) /\ Len(t) = IF m <= n THEN n - m + 1 ELSE 0
               /\ \A i \in 1 .. n - m + 1 : t[i] = s[m + i - 1]
OBVIOUS

-----------------------------------------------------------------------------
(* Lists without repetition *)

\* Such a list has as many elements as positions.
CountedLists ==
    \A S : \A s \in Seq(S) :
        IsInjective(s) => IsFiniteSet(Range(s)) /\ Cardinality(Range(s)) = Len(s)

\* One with as many positions as a set has elements lists all of them, once.
FullLists ==
    \A S : \A order \in [1 .. Cardinality(S) -> S] :
        IsFiniteSet(S) /\ IsInjective(order) =>
            order \in Seq(S) /\ Len(order) = Cardinality(S) /\ Range(order) = S

\* evictLocked takes the first n of a list and leaves the others in their order.
LEMMA ListSplit ==
    ASSUME NEW S, NEW s \in Seq(S), IsInjective(s), NEW n \in 0 .. Len(s)
    PROVE  LET rest == SubSeq(s, n + 1, Len(s))
               gone == Range(SubSeq(s, 1, n))
           IN /\ rest \in Seq(S) /\ Len(rest) = Len(s) - n /\ IsInjective(rest)
              /\ \A i \in 1 .. Len(rest) : rest[i] = s[n + i]
              /\ gone = {s[i] : i \in 1 .. n}
              /\ Range(rest) = Range(s) \ gone
<1>. DEFINE rest == SubSeq(s, n + 1, Len(s))
            gone == Range(SubSeq(s, 1, n))
<1>1. Len(s) \in Nat /\ n \in Nat /\ n <= Len(s) /\ DOMAIN s = 1 .. Len(s)  OBVIOUS
<1>2. /\ rest \in Seq(S) /\ Len(rest) = Len(s) - n /\ DOMAIN rest = 1 .. Len(s) - n
      /\ \A i \in 1 .. Len(s) - n : rest[i] = s[n + i]
  <2>1. \A i \in n + 1 .. Len(s) : s[i] \in S  BY <1>1
  <2>2. /\ rest \in Seq(S) /\ Len(rest) = IF n + 1 <= Len(s) THEN Len(s) - (n + 1) + 1 ELSE 0
        /\ \A i \in 1 .. Len(s) - (n + 1) + 1 : rest[i] = s[n + 1 + i - 1]
    BY <1>1, <2>1, SubSeqFacts, SMTT(30)
  <2>. HIDE DEF rest
  <2>3. Len(rest) = Len(s) - n
    <3>1. CASE n + 1 <= Len(s)  BY <3>1, <1>1, <2>2
    <3>2. CASE n = Len(s)  BY <3>2, <1>1, <2>2
    <3>3. \A a, b \in Nat : a <= b => a + 1 <= b \/ a = b  OBVIOUS
    <3>4. n + 1 <= Len(s) \/ n = Len(s)  BY <1>1, <3>3, Zenon
    <3>. QED  BY <3>1, <3>2, <3>4
  <2>4. DOMAIN rest = 1 .. Len(s) - n  BY <2>2, <2>3
  <2>5. \A i \in 1 .. Len(s) - n : i \in 1 .. Len(s) - (n + 1) + 1 /\ n + 1 + i - 1 = n + i
    BY <1>1
  <2>. QED  BY <2>2, <2>3, <2>4, <2>5
<1>3. gone = {s[i] : i \in 1 .. n}
  <2>. DEFINE first == SubSeq(s, 1, n)
  <2>1. \A i \in 1 .. n : s[i] \in S  BY <1>1
  <2>2. /\ first \in Seq(S) /\ Len(first) = IF 1 <= n THEN n - 1 + 1 ELSE 0
        /\ \A i \in 1 .. n - 1 + 1 : first[i] = s[1 + i - 1]
    BY <1>1, <2>1, SubSeqFacts
  <2>. HIDE DEF first
  <2>3. DOMAIN first = 1 .. n /\ \A i \in 1 .. n : first[i] = s[i]  BY <1>1, <2>2
  <2>4. Range(first) = {s[i] : i \in 1 .. n}  BY <2>3 DEF Range
  <2>. QED  BY <2>4 DEF first
<1>. HIDE DEF rest, gone
<1>4. IsInjective(rest)
  <2>1. DOMAIN rest = 1 .. Len(s) - n  BY <1>1, <1>2
  <2>2. ASSUME NEW i \in 1 .. Len(s) - n, NEW j \in 1 .. Len(s) - n, rest[i] = rest[j]
        PROVE  i = j
    <3>1. n + i \in DOMAIN s /\ n + j \in DOMAIN s  BY <1>1
    <3>2. s[n + i] = s[n + j]  BY <2>2, <1>2
    <3>3. n + i = n + j  BY <3>1, <3>2, Zenon DEF IsInjective
    <3>. QED  BY <3>3, <1>1
  <2>. QED  BY <2>1, <2>2, Zenon DEF IsInjective
<1>5. ASSUME NEW x \in Range(rest)  PROVE x \in Range(s) \ gone
  <2>1. PICK i \in 1 .. Len(s) - n : x = s[n + i]  BY <1>2 DEF Range
  <2>2. n + i \in DOMAIN s /\ \A j \in 1 .. n : j \in DOMAIN s /\ j # n + i  BY <1>1
  <2>. QED  BY <2>1, <2>2, <1>3 DEF Range, IsInjective
<1>6. ASSUME NEW x \in Range(s), x \notin gone  PROVE x \in Range(rest)
  <2>1. PICK j \in 1 .. Len(s) : x = s[j]  BY <1>1 DEF Range
  <2>2. j \notin 1 .. n  BY <2>1, <1>3, <1>6
  <2>3. j - n \in 1 .. Len(s) - n /\ n + (j - n) = j  BY <2>2, <1>1
  <2>4. rest[j - n] = x  BY <2>1, <2>3, <1>2
  <2>. QED  BY <2>3, <2>4, <1>2 DEF Range
<1>7. Range(rest) = Range(s) \ gone  BY <1>5, <1>6
<1>. QED  BY <1>2, <1>3, <1>4, <1>7 DEF rest, gone

\* When nothing is to be evicted, the list stays as it is.
LEMMA NothingTaken ==
    ASSUME NEW S, NEW s \in Seq(S)
    PROVE  SubSeq(s, 0 + 1, Len(s)) = s /\ Range(SubSeq(s, 1, 0)) = {}
<1>1. SubSeq(s, 0 + 1, Len(s)) = s  OBVIOUS
<1>2. SubSeq(s, 1, 0) = <<>>  OBVIOUS
<1>3. Range(<<>>) = {}  BY DEF Range
<1>. QED  BY <1>1, <1>2, <1>3, Zenon

\* How many elements a list of n has without its p-th one, if there is one.
Without(n, p) == IF p = n + 1 THEN n ELSE n - 1

\* Where the i-th element of a list without its p-th one was in it.
Skipping(p, i) == IF i < p THEN i ELSE i + 1

\* It runs in order over all positions but p, of a list of n elements (p = n + 1:
\* over all of them).
LEMMA SkippingOne ==
    \A n, m \in Nat : \A p \in 1 .. n + 1 : m = Without(n, p) =>
        /\ \A i \in 1 .. m : Skipping(p, i) \in 1 .. n /\ Skipping(p, i) # p
        /\ \A i, j \in 1 .. m : i < j => Skipping(p, i) < Skipping(p, j)
        /\ \A c \in 1 .. n : c # p => \E i \in 1 .. m : Skipping(p, i) = c
<1>. TAKE n, m \in Nat
<1>. TAKE p \in 1 .. n + 1
<1>. HAVE m = Without(n, p)
<1>1. \A i \in 1 .. m : Skipping(p, i) \in 1 .. n /\ Skipping(p, i) # p  BY DEF Skipping, Without
<1>2. \A i, j \in 1 .. m : i < j => Skipping(p, i) < Skipping(p, j)  BY DEF Skipping, Without
<1>3. ASSUME NEW c \in 1 .. n, c # p PROVE \E i \in 1 .. m : Skipping(p, i) = c
  <2>1. CASE c < p
    <3>1. c \in 1 .. m /\ Skipping(p, c) = c  BY <2>1 DEF Skipping, Without
    <3>. QED  BY <3>1
  <2>2. CASE ~(c < p)
    <3>1. c - 1 \in 1 .. m /\ Skipping(p, c - 1) = c  BY <2>2, <1>3 DEF Skipping, Without
    <3>. QED  BY <3>1, Zenon
  <2>. QED  BY <2>1, <2>2
<1>. QED  BY <1>1, <1>2, <1>3, Zenon

\* r is s without its element k at a position p, or s when k is not in it.
Removed(S, s, k, r) ==
    \E p \in 1 .. Len(s) + 1 :
        /\ p = Len(s) + 1 => k \notin Range(s)
        /\ p # Len(s) + 1 => s[p] = k
        /\ r \in Seq(S)
        /\ Len(r) = Without(Len(s), p)
        /\ \A i \in 1 .. Len(r) : r[i] = s[Skipping(p, i)]

\* What is left of a list when the first and only k is removed.
LEMMA FirstRemoved ==
    ASSUME NEW S, NEW s \in Seq(S), NEW k \in S, IsInjective(s)
    PROVE  Removed(S, s, k, Unlist(s, k))
<1>. SUFFICES \E p \in 1 .. Len(s) + 1 :
                 /\ p = Len(s) + 1 => k \notin Range(s)
                 /\ p # Len(s) + 1 => s[p] = k
                 /\ Unlist(s, k) \in Seq(S)
                 /\ Len(Unlist(s, k)) = Without(Len(s), p)
                 /\ \A i \in 1 .. Len(Unlist(s, k)) :
                       Unlist(s, k)[i] = s[Skipping(p, i)]
  BY Zenon DEF Removed
<1>1. Len(s) \in Nat /\ DOMAIN s = 1 .. Len(s)  OBVIOUS
<1>2. CASE k \notin Range(s)
  <2>1. {i \in DOMAIN s : s[i] = k} = {}  BY <1>1, <1>2 DEF Range
  <2>2. Unlist(s, k) = s  BY <2>1 DEF Unlist
  <2>3. Len(s) + 1 \in 1 .. Len(s) + 1 /\ \A i \in 1 .. Len(s) : i < Len(s) + 1  BY <1>1
  <2>4. \A i \in 1 .. Len(s) : Skipping(Len(s) + 1, i) = i  BY <2>3 DEF Skipping
  <2>. QED  BY <1>2, <2>2, <2>3, <2>4 DEF Without
<1>3. ASSUME NEW p \in 1 .. Len(s), s[p] = k
      PROVE  /\ p \in 1 .. Len(s) + 1 /\ p # Len(s) + 1
             /\ Unlist(s, k) \in Seq(S) /\ Len(Unlist(s, k)) = Len(s) - 1
             /\ \A i \in 1 .. Len(s) - 1 :
                   Unlist(s, k)[i] = s[Skipping(p, i)]
  <2>. DEFINE at == {i \in 1 .. Len(s) : s[i] = k}
              before == SubSeq(s, 1, p - 1)
              after == SubSeq(s, p + 1, Len(s))
              r == Unlist(s, k)
  <2>1. at = {p}  BY <1>1, <1>3 DEF IsInjective
  <2>2. (CHOOSE i \in at : \A j \in at : i <= j) = p
    <3>. HIDE DEF at
    <3>. QED  BY <2>1
  <2>3. r = before \o after
    <3>1. DOMAIN s = 1 .. Len(s) /\ at # {}  BY <1>1, <2>1
    <3>. QED  BY <2>2, <3>1, Zenon DEF Unlist
  <2>4. p \in Nat /\ p >= 1 /\ p <= Len(s)  BY <1>1
  <2>5. /\ before \in Seq(S) /\ Len(before) = p - 1
        /\ \A i \in 1 .. p - 1 : before[i] = s[i]
    BY SubSeqFacts
  <2>6. /\ after \in Seq(S) /\ Len(after) = Len(s) - p
        /\ \A i \in 1 .. Len(s) - p : after[i] = s[p + i]
    BY SubSeqFacts
  <2>. HIDE DEF before, after, r
  <2>7. /\ r \in Seq(S) /\ Len(r) = Len(before) + Len(after)
        /\ \A i \in 1 .. Len(before) + Len(after) :
              r[i] = IF i <= Len(before) THEN before[i] ELSE after[i - Len(before)]
    <3>1. before \in Seq(S) /\ after \in Seq(S)  BY <2>5, <2>6
    <3>. QED  BY <3>1, <2>3
  <2>8. Len(r) = Len(s) - 1  BY <1>1, <2>4, <2>5, <2>6, <2>7
  <2>9. ASSUME NEW i \in 1 .. Len(s) - 1
        PROVE  r[i] = s[Skipping(p, i)]
    <3>1. CASE i < p
      <4>1. i \in 1 .. p - 1 /\ i <= Len(before)  BY <3>1, <2>4, <2>5
      <4>2. i \in 1 .. Len(before) + Len(after)  BY <1>1, <2>4, <2>5, <2>6
      <4>3. Skipping(p, i) = i  BY <3>1 DEF Skipping
      <4>. QED  BY <4>1, <4>2, <4>3, <2>5, <2>7
    <3>2. CASE ~(i < p)
      <4>1. i - (p - 1) \in 1 .. Len(s) - p /\ p + (i - (p - 1)) = i + 1  BY <3>2, <1>1, <2>4
      <4>2. i \in 1 .. Len(before) + Len(after) /\ ~(i <= Len(before))
        BY <3>2, <1>1, <2>4, <2>5, <2>6
      <4>3. r[i] = after[i - (p - 1)]  BY <4>2, <2>5, <2>7
      <4>4. after[i - (p - 1)] = s[i + 1]  BY <4>1, <2>6
      <4>5. Skipping(p, i) = i + 1  BY <3>2 DEF Skipping
      <4>. QED  BY <4>3, <4>4, <4>5
    <3>. QED  BY <3>1, <3>2
  <2>10. p \in 1 .. Len(s) + 1 /\ p # Len(s) + 1  BY <1>1, <2>4
  <2>. QED  BY <2>7, <2>8, <2>9, <2>10 DEF r
<1>4. CASE k \in Range(s)
  <2>1. PICK p \in 1 .. Len(s) : s[p] = k  BY <1>1, <1>4 DEF Range
  <2>. HIDE DEF Unlist
  <2>2. Without(Len(s), p) = Len(s) - 1  BY <2>1, <1>3 DEF Without
  <2>. QED  BY <2>1, <2>2, <1>3, Zenon
<1>. QED  BY <1>2, <1>4

\* touchOrderLocked on such a list: k comes last, the others keep their order.
LEMMA MovedToEnd ==
    ASSUME NEW S, NEW s \in Seq(S), NEW k \in S, IsInjective(s)
    PROVE  LET t == Append(Unlist(s, k), k)
           IN /\ t \in Seq(S) /\ IsInjective(t) /\ Range(t) = Range(s) \cup {k}
              /\ Len(t) >= 1 /\ t[Len(t)] = k
              /\ \A i, j \in 1 .. Len(t) - 1 :
                    i < j => \E a, b \in 1 .. Len(s) : a < b /\ s[a] = t[i] /\ s[b] = t[j]
<1>. DEFINE r == Unlist(s, k)
            t == Append(r, k)
<1>1. Len(s) \in Nat /\ DOMAIN s = 1 .. Len(s)  OBVIOUS
<1>r. Removed(S, s, k, r)  BY FirstRemoved, Zenon
<1>. HIDE DEF r
<1>2. PICK p \in 1 .. Len(s) + 1 :
        /\ p = Len(s) + 1 => k \notin Range(s)
        /\ p # Len(s) + 1 => s[p] = k
        /\ r \in Seq(S)
        /\ Len(r) = Without(Len(s), p)
        /\ \A i \in 1 .. Len(r) : r[i] = s[Skipping(p, i)]
  BY <1>r, Zenon DEF Removed
<1>3. /\ t \in Seq(S) /\ Len(t) = Len(r) + 1 /\ t[Len(r) + 1] = k /\ Len(r) \in Nat
      /\ \A i \in 1 .. Len(r) : t[i] = r[i]
  BY <1>2, AppendFacts
<1>. HIDE DEF t
<1>4. /\ \A i \in 1 .. Len(r) : Skipping(p, i) \in 1 .. Len(s) /\ Skipping(p, i) # p
      /\ \A i, j \in 1 .. Len(r) : i < j => Skipping(p, i) < Skipping(p, j)
      /\ \A c \in 1 .. Len(s) : c # p => \E i \in 1 .. Len(r) : Skipping(p, i) = c
  <2>1. Len(r) \in Nat /\ Len(s) \in Nat  BY <1>1, <1>3
  <2>2. Len(r) = Without(Len(s), p)  BY <1>2
  <2>. QED  BY <2>1, <2>2, SkippingOne
<1>5. \A i \in 1 .. Len(r) : t[i] = s[Skipping(p, i)] /\ t[i] # k
  <2>1. SUFFICES ASSUME NEW i \in 1 .. Len(r) PROVE s[Skipping(p, i)] # k
    BY <1>2, <1>3
  <2>2. Skipping(p, i) \in 1 .. Len(s) /\ Skipping(p, i) # p  BY <1>4
  <2>3. CASE p = Len(s) + 1  BY <2>2, <2>3, <1>1, <1>2 DEF Range
  <2>4. CASE p # Len(s) + 1
    <3>1. p \in 1 .. Len(s) /\ s[p] = k  BY <2>4, <1>1, <1>2
    <3>. QED  BY <3>1, <2>2, <1>1 DEF IsInjective
  <2>. QED  BY <2>3, <2>4
<1>6. \A i \in 1 .. Len(t) : i = Len(r) + 1 \/ i \in 1 .. Len(r)  BY <1>3
<1>7. IsInjective(t)
  <2>1. ASSUME NEW i \in 1 .. Len(t), NEW j \in 1 .. Len(t), t[i] = t[j]
        PROVE  i = j
    <3>1. CASE i \in 1 .. Len(r) /\ j \in 1 .. Len(r)
      <4>1. s[Skipping(p, i)] = s[Skipping(p, j)]  BY <3>1, <2>1, <1>5
      <4>2. Skipping(p, i) = Skipping(p, j)  BY <4>1, <3>1, <1>1, <1>4 DEF IsInjective
      <4>3. ~(i < j) /\ ~(j < i)
        <5>1. \A x \in 1 .. Len(s) : ~(x < x)  OBVIOUS
        <5>. QED  BY <5>1, <4>2, <3>1, <1>4, Zenon
      <4>. QED  BY <4>3
    <3>. QED  BY <3>1, <2>1, <1>3, <1>5, <1>6
  <2>2. DOMAIN t = 1 .. Len(t)  BY <1>3
  <2>. QED  BY <2>1, <2>2 DEF IsInjective
<1>8. Range(t) = Range(s) \cup {k}
  <2>1. Range(t) = {t[i] : i \in 1 .. Len(t)} /\ Range(s) = {s[i] : i \in 1 .. Len(s)}
    BY <1>3, <1>1, SMTT(30) DEF Range
  <2>2. \A i \in 1 .. Len(t) : t[i] \in Range(s) \cup {k}  BY <2>1, <1>3, <1>4, <1>5, <1>6, Zenon
  <2>3. Len(r) + 1 \in 1 .. Len(t) /\ \A i \in 1 .. Len(r) : i \in 1 .. Len(t)  BY <1>3
  <2>4. \A m \in 1 .. Len(s) : s[m] \in Range(t)
    <3>1. ASSUME NEW m \in 1 .. Len(s) PROVE s[m] \in Range(t)
      <4>1. CASE m = p
        <5>1. s[m] = k
          <6>1. p # Len(s) + 1  BY <4>1, <1>1
          <6>. QED  BY <6>1, <4>1, <1>2
        <5>. QED  BY <5>1, <2>1, <2>3, <1>3
      <4>2. CASE m # p  BY <4>2, <2>1, <2>3, <1>4, <1>5, Zenon
      <4>. QED  BY <4>1, <4>2
    <3>. QED  BY <3>1
  <2>5. k \in Range(t)  BY <2>1, <2>3, <1>3
  <2>6. Range(t) \subseteq Range(s) \cup {k}  BY <2>1, <2>2, Zenon
  <2>7. Range(s) \subseteq Range(t)  BY <2>1, <2>4, Zenon
  <2>. QED  BY <2>5, <2>6, <2>7, Zenon
<1>9. \A i, j \in 1 .. Len(r) :
          i < j => \E a, b \in 1 .. Len(s) : a < b /\ s[a] = t[i] /\ s[b] = t[j]
  BY <1>4, <1>5, Zenon
<1>10. Len(t) >= 1 /\ Len(t) - 1 = Len(r) /\ t[Len(t)] = k  BY <1>3
<1>. QED  BY <1>3, <1>7, <1>8, <1>9, <1>10 DEF t, r

-----------------------------------------------------------------------------
(* The run store *)

\* map is within the cap and holds the last acknowledged write of a run, or a later
\* one, if it holds the run.
SoundMap(map, writes) ==
    /\ Cardinality(Present(map)) <= MaxRunsInStore
    /\ \A k \in StoredRuns : map[k] # NoRun => map[k] >= writes[k]

\* order goes from the least to the most recently used run.
SortedByUse(order, use) ==
    \A i, j \in 1 .. Len(order) : i < j =>
        use[order[i]] = 0 \/ use[order[i]] < use[order[j]]

\* What AckedIsKept and RecentRunsStay rest on: nothing carries the number of an access
\* to come; runOrder lists the runs of the map in the order of their last use; map and
\* file are sound.
RunStoreInv ==
    /\ accesses \in 0 .. MaxAccesses /\ dropped \subseteq StoredRuns
    /\ runs \in [StoredRuns -> 0 .. accesses] /\ disk \in [StoredRuns -> 0 .. accesses]
    /\ acked \in [StoredRuns -> 0 .. accesses] /\ lastUse \in [StoredRuns -> 0 .. accesses]
    /\ runOrder \in Seq(StoredRuns) /\ IsInjective(runOrder)
    /\ Range(runOrder) = Present(runs)
    /\ SortedByUse(runOrder, lastUse)
    /\ SoundMap(runs, acked) /\ SoundMap(disk, acked)
    /\ AckedIsKept /\ RecentRunsStay

\* A set of runs is finite, and a larger one has no fewer members.
LEMMA RunCounts ==
    ASSUME FiniteFacts, NEW A, NEW B, A \subseteq B, B \subseteq StoredRuns
    PROVE  /\ IsFiniteSet(A) /\ Cardinality(A) \in Nat /\ Cardinality(B) \in Nat
           /\ Cardinality(A) <= Cardinality(B)
<1>1. IsFiniteSet(B)  BY RunStoreConstants DEF FiniteFacts, SubsetFacts
<1>. QED  BY <1>1 DEF FiniteFacts, SubsetFacts, CardinalityFacts

\* Where nothing was used since the start, or the file was never written.
LEMMA RunStoreInitInv == FiniteFacts /\ RunStoreInit => RunStoreInv
<1>. SUFFICES ASSUME FiniteFacts, RunStoreInit PROVE RunStoreInv  OBVIOUS
<1>. USE DEF RunStoreInit
<1>1. /\ Present(runs) = {} /\ Present(disk) = {}
      /\ \A k \in StoredRuns : runs[k] = NoRun /\ disk[k] = NoRun
  BY DEF Present
<1>2. Cardinality({}) <= MaxRunsInStore  BY RunStoreConstants DEF FiniteFacts, EmptySetFacts
<1>3. SoundMap(runs, acked) /\ SoundMap(disk, acked)  BY <1>1, <1>2, Zenon DEF SoundMap
<1>4. /\ runOrder \in Seq(StoredRuns) /\ Len(runOrder) = 0 /\ IsInjective(runOrder)
      /\ Range(runOrder) = {}
  BY DEF IsInjective, Range
<1>5. SortedByUse(runOrder, lastUse)  BY <1>4 DEF SortedByUse
<1>6. AckedIsKept /\ RecentRunsStay  BY DEF AckedIsKept, RecentRunsStay, NoRun
<1>7. /\ accesses \in 0 .. MaxAccesses /\ dropped \subseteq StoredRuns
      /\ runs \in [StoredRuns -> 0 .. accesses] /\ disk \in [StoredRuns -> 0 .. accesses]
      /\ acked \in [StoredRuns -> 0 .. accesses] /\ lastUse \in [StoredRuns -> 0 .. accesses]
  BY RunStoreConstants DEF NoRun
<1>8. Range(runOrder) = Present(runs)  BY <1>1, <1>4, Zenon
<1>. QED  BY <1>3, <1>4, <1>5, <1>6, <1>7, <1>8, Zenon DEF RunStoreInv

\* An access of k brings it to the end of the order, and costs no run its place among
\* the recently used.
LEMMA AccessCounts ==
    ASSUME FiniteFacts, RunStoreInv, NEW k \in StoredRuns, Access(k)
    PROVE  /\ accesses' \in 0 .. MaxAccesses /\ accesses \in Nat /\ accesses' = accesses + 1
           /\ lastUse' \in [StoredRuns -> 0 .. accesses']
           /\ Touch(k) \in Seq(StoredRuns) /\ IsInjective(Touch(k))
           /\ Range(Touch(k)) = Present(runs) \cup {k}
           /\ Touch(k)[Len(Touch(k))] = k /\ Len(Touch(k)) \in Nat \ {0}
           /\ SortedByUse(Touch(k), lastUse')
           /\ \A q \in StoredRuns : lastUse'[q] # 0 /\ q # k /\ runs[q] = NoRun =>
                 Cardinality({j \in StoredRuns : lastUse'[j] > lastUse'[q]}) >= MaxRunsInStore
<1>. DEFINE t == Touch(k)
<1>1. /\ accesses' \in 0 .. MaxAccesses /\ accesses \in Nat /\ accesses' = accesses + 1
      /\ lastUse' = [lastUse EXCEPT ![k] = accesses + 1]
      /\ lastUse' \in [StoredRuns -> 0 .. accesses']
  BY RunStoreConstants DEF RunStoreInv, Access
<1>0. /\ lastUse'[k] = accesses + 1
      /\ \A q \in StoredRuns : /\ lastUse[q] \in 0 .. accesses
                               /\ q # k => lastUse'[q] = lastUse[q]
  BY <1>1 DEF RunStoreInv
<1>2. /\ t \in Seq(StoredRuns) /\ IsInjective(t) /\ Range(t) = Range(runOrder) \cup {k}
      /\ Len(t) >= 1 /\ t[Len(t)] = k
      /\ \A i, j \in 1 .. Len(t) - 1 :
            i < j => \E a, b \in 1 .. Len(runOrder) :
                        a < b /\ runOrder[a] = t[i] /\ runOrder[b] = t[j]
  BY MovedToEnd, SMTT(30) DEF RunStoreInv, Touch
<1>3. Len(t) \in Nat /\ Len(t) >= 1 /\ Len(t) \in 1 .. Len(t)  BY <1>2
<1>. HIDE DEF t
<1>4. \A i \in 1 .. Len(t) : t[i] \in StoredRuns /\ (t[i] = k => i = Len(t))
  <2>1. DOMAIN t = 1 .. Len(t)  BY <1>2
  <2>2. \A i \in 1 .. Len(t) : t[i] \in StoredRuns  BY <1>2
  <2>. QED  BY <2>1, <2>2, <1>2, <1>3, Zenon DEF IsInjective
<1>5. ASSUME NEW i \in 1 .. Len(t), NEW j \in 1 .. Len(t), i < j
      PROVE  lastUse'[t[i]] = 0 \/ lastUse'[t[i]] < lastUse'[t[j]]
  <2>1. t[i] \in StoredRuns /\ t[j] \in StoredRuns  BY <1>4
  <2>2. t[i] # k
    <3>1. i # Len(t)  BY <1>3, <1>5
    <3>. QED  BY <3>1, <1>4
  <2>3. lastUse'[t[i]] = lastUse[t[i]] /\ lastUse[t[i]] \in 0 .. accesses
    BY <1>0, <2>1, <2>2
  <2>4. CASE j = Len(t)
    <3>1. t[j] = k  BY <2>4, <1>2
    <3>2. lastUse'[k] = accesses + 1  BY <1>0
    <3>. QED  BY <3>1, <3>2, <2>3, <1>1
  <2>5. CASE j # Len(t)
    <3>1. i \in 1 .. Len(t) - 1 /\ j \in 1 .. Len(t) - 1  BY <2>5, <1>3, <1>5
    <3>2. PICK a, b \in 1 .. Len(runOrder) : a < b /\ runOrder[a] = t[i] /\ runOrder[b] = t[j]
      BY <3>1, <1>2, <1>5
    <3>3. lastUse[t[i]] = 0 \/ lastUse[t[i]] < lastUse[t[j]]
      BY <3>2, Zenon DEF RunStoreInv, SortedByUse
    <3>4. t[j] # k  BY <2>5, <1>4
    <3>5. lastUse'[t[j]] = lastUse[t[j]]  BY <3>4, <2>1, <1>0
    <3>. QED  BY <3>3, <3>5, <2>3
  <2>. QED  BY <2>4, <2>5
<1>6. ASSUME NEW q \in StoredRuns, lastUse'[q] # 0, q # k, runs[q] = NoRun
      PROVE  Cardinality({j \in StoredRuns : lastUse'[j] > lastUse'[q]}) >= MaxRunsInStore
  <2>. DEFINE before == {j \in StoredRuns : lastUse[j] > lastUse[q]}
              after == {j \in StoredRuns : lastUse'[j] > lastUse'[q]}
  <2>1. lastUse'[q] = lastUse[q] /\ lastUse[q] \in 0 .. accesses
    BY <1>0, <1>6
  <2>2. \A j \in StoredRuns : lastUse[j] \in 0 .. accesses /\ lastUse'[j] >= lastUse[j]
    BY <1>0, <1>1
  <2>3. before \subseteq after
    <3>1. \A j \in StoredRuns : lastUse[j] > lastUse[q] => lastUse'[j] > lastUse'[q]
      BY <1>1, <2>1, <2>2
    <3>. QED  BY <3>1
  <2>4. Cardinality(before) >= MaxRunsInStore
    BY <2>1, <1>6 DEF RunStoreInv, RecentRunsStay
  <2>5. after \subseteq StoredRuns  OBVIOUS
  <2>. HIDE DEF before, after
  <2>6. /\ Cardinality(before) \in Nat /\ Cardinality(after) \in Nat
        /\ Cardinality(before) <= Cardinality(after)
    BY <2>3, <2>5, RunCounts
  <2>7. Cardinality(after) >= MaxRunsInStore  BY <2>4, <2>6, RunStoreConstants
  <2>. QED  BY <2>7 DEF after
<1>7. SortedByUse(t, lastUse')  BY <1>5 DEF SortedByUse
<1>8. Range(t) = Present(runs) \cup {k}  BY <1>2 DEF RunStoreInv
<1>9. Len(t) \in Nat \ {0}  BY <1>3
<1>. QED  BY <1>1, <1>2, <1>6, <1>7, <1>8, <1>9, Zenon DEF t

\* What Create and Save leave of the map and the order: room was made from the front of
\* the order, which never reaches k, and only as much as the cap asks for.
LEMMA EvictionSpares ==
    ASSUME CountedLists, FiniteFacts, RunStoreInv, NEW k \in StoredRuns, WriteRun(k)
    PROVE  \E n \in Nat, gone \in SUBSET StoredRuns :
              /\ n < Len(Touch(k)) /\ gone = {Touch(k)[i] : i \in 1 .. n} /\ k \notin gone
              /\ runs' = [j \in StoredRuns |-> IF j \in gone THEN NoRun
                                               ELSE IF j = k THEN accesses + 1 ELSE runs[j]]
              /\ runOrder' \in Seq(StoredRuns) /\ IsInjective(runOrder')
              /\ Range(runOrder') = Present(runs)'
              /\ Len(runOrder') = Len(Touch(k)) - n
              /\ \A i \in 1 .. Len(runOrder') : runOrder'[i] = Touch(k)[n + i]
              /\ Cardinality(Present(runs)') = Len(runOrder')
              /\ Len(runOrder') <= MaxRunsInStore
              /\ n # 0 => Len(runOrder') = MaxRunsInStore
              /\ \/ /\ disk' = runs' /\ acked' = [acked EXCEPT ![k] = accesses + 1]
                    /\ dropped' = (dropped \ {k}) \cup gone
                 \/ dropped' = dropped \cup gone /\ UNCHANGED <<disk, acked>>
<1>. DEFINE t       == Touch(k)
            written == [runs EXCEPT ![k] = accesses + 1]
            n       == Excess(written, t)
            gone    == Range(SubSeq(t, 1, n))
            rest    == SubSeq(t, n + 1, Len(t))
<1>1. Access(k)  BY DEF WriteRun
<1>2. /\ t \in Seq(StoredRuns) /\ IsInjective(t) /\ Range(t) = Present(runs) \cup {k}
      /\ t[Len(t)] = k /\ Len(t) \in Nat \ {0} /\ accesses \in Nat
  BY <1>1, AccessCounts, Zenon
<1>3. /\ runs' = Forget(written, gone) /\ runOrder' = rest
      /\ \/ /\ disk' = runs' /\ acked' = [acked EXCEPT ![k] = accesses + 1]
            /\ dropped' = (dropped \ {k}) \cup gone
         \/ dropped' = dropped \cup gone /\ UNCHANGED <<disk, acked>>
  BY Zenon DEF WriteRun, PersistRuns
<1>4. Present(written) = Range(t)
  <2>1. \A j \in StoredRuns : written[j] = IF j = k THEN accesses + 1 ELSE runs[j]
    BY DEF RunStoreInv
  <2>2. accesses + 1 # NoRun  BY <1>2 DEF NoRun
  <2>. QED  BY <2>1, <2>2, <1>2 DEF Present
<1>5. Cardinality(Present(written)) = Len(t)  BY <1>2, <1>4, Zenon DEF CountedLists
<1>. HIDE DEF t, written
<1>6. /\ n \in Nat /\ n < Len(t) /\ n \in 0 .. Len(t) /\ Len(t) - n <= MaxRunsInStore
      /\ n # 0 => Len(t) - n = MaxRunsInStore
  BY <1>2, <1>5, RunStoreConstants DEF Excess
<1>. HIDE DEF n
<1>7. /\ rest \in Seq(StoredRuns) /\ Len(rest) = Len(t) - n /\ IsInjective(rest)
      /\ \A i \in 1 .. Len(rest) : rest[i] = t[n + i]
      /\ gone = {t[i] : i \in 1 .. n}
      /\ Range(rest) = Range(t) \ gone
  BY <1>2, <1>6, ListSplit
<1>. HIDE DEF gone, rest
<1>8. gone \in SUBSET StoredRuns /\ k \notin gone
  <2>1. \A i \in 1 .. n : i \in 1 .. Len(t) /\ i # Len(t)  BY <1>2, <1>6
  <2>2. Len(t) \in 1 .. Len(t)  BY <1>2
  <2>3. DOMAIN t = 1 .. Len(t) /\ \A i \in 1 .. Len(t) : t[i] \in StoredRuns  BY <1>2
  <2>4. \A i \in 1 .. n : t[i] \in StoredRuns /\ t[i] # k
    BY <2>1, <2>2, <2>3, <1>2, Zenon DEF IsInjective
  <2>. QED  BY <2>4, <1>7, Zenon
<1>9. runs' = [j \in StoredRuns |-> IF j \in gone THEN NoRun
                                    ELSE IF j = k THEN accesses + 1 ELSE runs[j]]
  BY <1>3 DEF Forget, written, RunStoreInv
<1>10. Present(runs)' = Range(rest)
  <2>1. Present(runs)' = Present(written) \ gone  BY <1>3 DEF Forget, Present
  <2>. QED  BY <2>1, <1>4, <1>7
<1>11. Cardinality(Present(runs)') = Len(rest)  BY <1>7, <1>10, Zenon DEF CountedLists
<1>12. Len(rest) <= MaxRunsInStore /\ (n # 0 => Len(rest) = MaxRunsInStore)  BY <1>6, <1>7
<1>. QED  BY <1>3, <1>6, <1>7, <1>8, <1>9, <1>10, <1>11, <1>12, Zenon DEF t

\* Create and Save keep the invariant, whether the file is written or not.
LEMMA WriteRunKeeps ==
    ASSUME CountedLists, FiniteFacts, RunStoreInv, NEW k \in StoredRuns, WriteRun(k)
    PROVE  RunStoreInv'
<1>. DEFINE t == Touch(k)
<1>1. Access(k)  BY DEF WriteRun
<1>2. /\ accesses' \in 0 .. MaxAccesses /\ accesses \in Nat /\ accesses' = accesses + 1
      /\ lastUse' \in [StoredRuns -> 0 .. accesses']
      /\ t \in Seq(StoredRuns) /\ IsInjective(t) /\ Range(t) = Present(runs) \cup {k}
      /\ Len(t) \in Nat \ {0} /\ SortedByUse(t, lastUse')
      /\ \A q \in StoredRuns : lastUse'[q] # 0 /\ q # k /\ runs[q] = NoRun =>
            Cardinality({j \in StoredRuns : lastUse'[j] > lastUse'[q]}) >= MaxRunsInStore
  BY <1>1, AccessCounts, Zenon
<1>3. PICK n \in Nat, gone \in SUBSET StoredRuns :
        /\ n < Len(t) /\ gone = {t[i] : i \in 1 .. n} /\ k \notin gone
        /\ runs' = [j \in StoredRuns |-> IF j \in gone THEN NoRun
                                         ELSE IF j = k THEN accesses + 1 ELSE runs[j]]
        /\ runOrder' \in Seq(StoredRuns) /\ IsInjective(runOrder')
        /\ Range(runOrder') = Present(runs)'
        /\ Len(runOrder') = Len(t) - n
        /\ \A i \in 1 .. Len(runOrder') : runOrder'[i] = t[n + i]
        /\ Cardinality(Present(runs)') = Len(runOrder')
        /\ Len(runOrder') <= MaxRunsInStore
        /\ n # 0 => Len(runOrder') = MaxRunsInStore
        /\ \/ /\ disk' = runs' /\ acked' = [acked EXCEPT ![k] = accesses + 1]
              /\ dropped' = (dropped \ {k}) \cup gone
           \/ dropped' = dropped \cup gone /\ UNCHANGED <<disk, acked>>
  BY EvictionSpares, Zenon
<1>. HIDE DEF t
<1>4. /\ runs \in [StoredRuns -> 0 .. accesses] /\ disk \in [StoredRuns -> 0 .. accesses]
      /\ acked \in [StoredRuns -> 0 .. accesses] /\ dropped \subseteq StoredRuns
      /\ SoundMap(runs, acked) /\ SoundMap(disk, acked) /\ AckedIsKept
  BY DEF RunStoreInv
<1>5. /\ accesses \in Nat /\ NoRun = 0
      /\ \A j \in StoredRuns : runs'[j] = IF j \in gone THEN NoRun
                                          ELSE IF j = k THEN accesses + 1 ELSE runs[j]
  BY <1>2, <1>3, Zenon DEF NoRun
<1>6. \/ /\ disk' = runs' /\ acked' = [acked EXCEPT ![k] = accesses + 1]
         /\ dropped' = (dropped \ {k}) \cup gone
      \/ dropped' = dropped \cup gone /\ disk' = disk /\ acked' = acked
  BY <1>3, Zenon
<1>7. k \notin gone /\ gone \subseteq StoredRuns  BY <1>3, Zenon
<1>8. /\ runs' \in [StoredRuns -> 0 .. accesses'] /\ disk' \in [StoredRuns -> 0 .. accesses']
      /\ acked' \in [StoredRuns -> 0 .. accesses'] /\ dropped' \subseteq StoredRuns
  <2>1. accesses' = accesses + 1 /\ accesses + 1 \in 0 .. accesses + 1  BY <1>2
  <2>2. runs' \in [StoredRuns -> 0 .. accesses + 1]
    <3>1. runs' = [j \in StoredRuns |-> runs'[j]]  BY <1>3
    <3>2. \A j \in StoredRuns : runs'[j] \in 0 .. accesses + 1  BY <1>4, <1>5
    <3>. QED  BY <3>1, <3>2, Zenon
  <2>3. /\ disk \in [StoredRuns -> 0 .. accesses + 1]
        /\ acked \in [StoredRuns -> 0 .. accesses + 1]
    BY <1>4, <1>5
  <2>4. disk' \in [StoredRuns -> 0 .. accesses + 1]  BY <2>2, <2>3, <1>6
  <2>5. acked' \in [StoredRuns -> 0 .. accesses + 1]  BY <2>1, <2>3, <1>6
  <2>6. dropped' \subseteq StoredRuns  BY <1>4, <1>6, <1>7
  <2>. QED  BY <2>1, <2>2, <2>4, <2>5, <2>6
<1>9. /\ SoundMap(runs, acked)' /\ SoundMap(disk, acked)' /\ AckedIsKept'
  <2>1. \A j \in StoredRuns :
          /\ runs[j] \in 0 .. accesses /\ disk[j] \in 0 .. accesses /\ acked[j] \in 0 .. accesses
          /\ runs[j] # 0 => runs[j] >= acked[j]
          /\ disk[j] # 0 => disk[j] >= acked[j]
          /\ j \notin dropped => runs[j] >= acked[j] /\ disk[j] >= acked[j]
    BY <1>4, <1>5 DEF SoundMap, AckedIsKept
  <2>2. Cardinality(Present(runs)') <= MaxRunsInStore
    <3>1. /\ Cardinality(Present(runs)') = Len(runOrder')
          /\ Len(runOrder') <= MaxRunsInStore
      BY <1>3, Zenon
    <3>. QED  BY <3>1
  <2>3. Cardinality(Present(disk)') <= MaxRunsInStore
    <3>1. CASE disk' = runs'  BY <3>1, <2>2 DEF Present
    <3>2. CASE disk' = disk  BY <3>2, <1>4 DEF Present, SoundMap
    <3>. QED  BY <3>1, <3>2, <1>6
  <2>4. ASSUME NEW j \in StoredRuns
        PROVE  /\ runs'[j] # 0 => runs'[j] >= acked'[j]
               /\ disk'[j] # 0 => disk'[j] >= acked'[j]
               /\ j \notin dropped' => runs'[j] >= acked'[j] /\ disk'[j] >= acked'[j]
    <3>1. CASE /\ disk' = runs' /\ acked' = [acked EXCEPT ![k] = accesses + 1]
               /\ dropped' = (dropped \ {k}) \cup gone
      <4>1. acked'[j] = IF j = k THEN accesses + 1 ELSE acked[j]  BY <3>1, <1>4
      <4>. QED  BY <3>1, <4>1, <2>1, <1>5, <1>7
    <3>2. CASE dropped' = dropped \cup gone /\ disk' = disk /\ acked' = acked
      BY <3>2, <2>1, <1>5, <1>7
    <3>. QED  BY <3>1, <3>2, <1>6
  <2>. QED  BY <2>2, <2>3, <2>4, <1>5 DEF SoundMap, AckedIsKept
<1>10. SortedByUse(runOrder', lastUse')
  <2>1. /\ Len(runOrder') = Len(t) - n /\ n < Len(t) /\ Len(t) \in Nat
        /\ \A i \in 1 .. Len(runOrder') : runOrder'[i] = t[n + i]
    BY <1>2, <1>3, Zenon
  <2>2. ASSUME NEW i \in 1 .. Len(runOrder'), NEW j \in 1 .. Len(runOrder'), i < j
        PROVE  \/ lastUse'[runOrder'[i]] = 0
               \/ lastUse'[runOrder'[i]] < lastUse'[runOrder'[j]]
    <3>1. n + i \in 1 .. Len(t) /\ n + j \in 1 .. Len(t) /\ n + i < n + j
      BY <2>1, <2>2
    <3>2. runOrder'[i] = t[n + i] /\ runOrder'[j] = t[n + j]  BY <2>1, Zenon
    <3>. QED  BY <3>1, <3>2, <1>2, Zenon DEF SortedByUse
  <2>. QED  BY <2>2, Zenon DEF SortedByUse
<1>11. RecentRunsStay'
  <2>1. ASSUME NEW q \in StoredRuns, lastUse'[q] # 0, runs'[q] = NoRun
        PROVE  Cardinality({j \in StoredRuns : lastUse'[j] > lastUse'[q]}) >= MaxRunsInStore
    <3>1. q # k  BY <2>1, <1>5, <1>7
    <3>2. CASE runs[q] = NoRun  BY <3>1, <3>2, <2>1, <1>2, Zenon
    <3>3. CASE q \in gone
      <4>. DEFINE after == {j \in StoredRuns : lastUse'[j] > lastUse'[q]}
      <4>1. PICK i \in 1 .. n : q = t[i]  BY <3>3, <1>3, Zenon
      <4>x. n < Len(t) /\ Len(t) \in Nat /\ Len(runOrder') = Len(t) - n  BY <1>2, <1>3, Zenon
      <4>2. n # 0 /\ i \in 1 .. Len(t)  BY <4>x
      <4>3. ASSUME NEW j \in 1 .. Len(runOrder')
            PROVE  runOrder'[j] \in after
        <5>1. n + j \in 1 .. Len(t) /\ i < n + j  BY <4>x
        <5>2. runOrder'[j] = t[n + j] /\ runOrder'[j] \in StoredRuns
          <6>1. runOrder' \in Seq(StoredRuns)  BY <1>3, Zenon
          <6>2. runOrder'[j] \in StoredRuns  BY <6>1
          <6>. QED  BY <6>2, <1>3, Zenon
        <5>3. lastUse'[q] < lastUse'[t[n + j]]
          BY <5>1, <4>1, <4>2, <2>1, <1>2, Zenon DEF SortedByUse
        <5>4. lastUse'[q] \in Nat /\ lastUse'[runOrder'[j]] \in Nat  BY <5>2, <1>2
        <5>. QED  BY <5>2, <5>3, <5>4
      <4>4. Range(runOrder') \subseteq after
        <5>0. runOrder' \in Seq(StoredRuns)  BY <1>3, Zenon
        <5>1. DOMAIN runOrder' = 1 .. Len(runOrder')  BY <5>0
        <5>. HIDE DEF after
        <5>. QED  BY <5>1, <4>3, Zenon DEF Range
      <4>5. after \subseteq StoredRuns  OBVIOUS
      <4>6. Cardinality(Range(runOrder')) = MaxRunsInStore  BY <4>2, <1>3, Zenon
      <4>. HIDE DEF after
      <4>7. Cardinality(after) \in Nat /\ MaxRunsInStore <= Cardinality(after)
        BY <4>4, <4>5, <4>6, RunCounts
      <4>8. Cardinality(after) >= MaxRunsInStore  BY <4>7, RunStoreConstants
      <4>. QED  BY <4>8 DEF after
    <3>. QED  BY <3>1, <3>2, <3>3, <2>1, <1>5
  <2>. QED  BY <2>1 DEF RecentRunsStay
<1>. QED  BY <1>2, <1>3, <1>8, <1>9, <1>10, <1>11, Zenon DEF RunStoreInv

\* Get keeps the invariant.
LEMMA GetRunKeeps ==
    ASSUME FiniteFacts, RunStoreInv, NEW k \in StoredRuns, GetRun(k)
    PROVE  RunStoreInv'
<1>1. /\ Access(k) /\ runs[k] # NoRun /\ runOrder' = Touch(k)
      /\ runs' = runs /\ disk' = disk /\ acked' = acked /\ dropped' = dropped
  BY DEF GetRun
<1>2. /\ accesses' \in 0 .. MaxAccesses /\ accesses \in Nat /\ accesses' = accesses + 1
      /\ lastUse' \in [StoredRuns -> 0 .. accesses']
      /\ runOrder' \in Seq(StoredRuns) /\ IsInjective(runOrder')
      /\ Range(runOrder') = Present(runs) \cup {k} /\ SortedByUse(runOrder', lastUse')
      /\ \A q \in StoredRuns : lastUse'[q] # 0 /\ q # k /\ runs[q] = NoRun =>
            Cardinality({j \in StoredRuns : lastUse'[j] > lastUse'[q]}) >= MaxRunsInStore
  BY <1>1, AccessCounts, Zenon
<1>3. /\ runs' \in [StoredRuns -> 0 .. accesses'] /\ disk' \in [StoredRuns -> 0 .. accesses']
      /\ acked' \in [StoredRuns -> 0 .. accesses'] /\ dropped' \subseteq StoredRuns
  <2>1. \A f \in [StoredRuns -> 0 .. accesses] : f \in [StoredRuns -> 0 .. accesses']
    BY <1>2
  <2>. QED  BY <2>1, <1>1, Zenon DEF RunStoreInv
<1>4. Range(runOrder') = Present(runs)'  BY <1>1, <1>2 DEF Present
<1>5. SoundMap(runs, acked)' /\ SoundMap(disk, acked)' /\ AckedIsKept'
  BY <1>1 DEF RunStoreInv, SoundMap, AckedIsKept, Present
<1>6. RecentRunsStay'  BY <1>1, <1>2, Zenon DEF RecentRunsStay
<1>. QED  BY <1>2, <1>3, <1>4, <1>5, <1>6, Zenon DEF RunStoreInv

\* load keeps the invariant: nothing of the file is evicted, since it is within the cap.
LEMMA LoadRunsKeeps ==
    ASSUME FiniteFacts, FullLists, RunStoreInv, LoadRuns
    PROVE  RunStoreInv'
<1>1. PICK order \in [1 .. Cardinality(Present(disk)) -> Present(disk)] :
        LET n == Excess(disk, order)
        IN /\ IsInjective(order)
           /\ runs' = Forget(disk, Range(SubSeq(order, 1, n)))
           /\ runOrder' = SubSeq(order, n + 1, Len(order))
  BY Zenon DEF LoadRuns
<1>2. /\ lastUse' = [k \in StoredRuns |-> 0] /\ dropped' = dropped \ Present(disk)
      /\ disk' = disk /\ accesses' = accesses /\ acked' = acked
  BY DEF LoadRuns
<1>3. Present(disk) \subseteq StoredRuns /\ IsFiniteSet(Present(disk))
  BY RunStoreConstants DEF FiniteFacts, SubsetFacts, Present
<1>4. /\ order \in Seq(Present(disk)) /\ Len(order) = Cardinality(Present(disk))
      /\ IsInjective(order) /\ Range(order) = Present(disk)
  BY <1>1, <1>3, Zenon DEF FullLists
<1>5. Cardinality(Present(disk)) <= MaxRunsInStore /\ Cardinality(Present(disk)) \in Nat
  BY <1>3 DEF FiniteFacts, CardinalityFacts, RunStoreInv, SoundMap
<1>6. Excess(disk, order) = 0  BY <1>5, RunStoreConstants DEF Excess
<1>7. order \in Seq(StoredRuns)  BY <1>3, <1>4
<1>8. /\ runOrder' \in Seq(StoredRuns) /\ IsInjective(runOrder')
      /\ Range(runOrder') = Present(disk)
      /\ runs' = Forget(disk, {})
  <2>1. SubSeq(order, 0 + 1, Len(order)) = order /\ Range(SubSeq(order, 1, 0)) = {}
    BY <1>4, NothingTaken, Zenon
  <2>. QED  BY <2>1, <1>1, <1>4, <1>6, <1>7, Zenon
<1>9. /\ disk \in [StoredRuns -> 0 .. accesses] /\ acked \in [StoredRuns -> 0 .. accesses]
      /\ accesses \in 0 .. MaxAccesses /\ dropped \subseteq StoredRuns
      /\ SoundMap(disk, acked) /\ AckedIsKept
  BY DEF RunStoreInv
<1>10. runs' = disk  BY <1>8, <1>9, Zenon DEF Forget
<1>11. Range(runOrder') = Present(runs)'  BY <1>8, <1>10, Zenon DEF Present
<1>12. lastUse' \in [StoredRuns -> 0 .. accesses]  BY <1>2, <1>9, RunStoreConstants
<1>13. SortedByUse(runOrder', lastUse') /\ RecentRunsStay'
  <2>1. \A k \in StoredRuns : lastUse'[k] = 0  BY <1>2
  <2>2. \A i \in 1 .. Len(runOrder') : runOrder'[i] \in StoredRuns  BY <1>8
  <2>. QED  BY <2>1, <2>2, Zenon DEF SortedByUse, RecentRunsStay
<1>14. SoundMap(runs, acked)' /\ SoundMap(disk, acked)'
  BY <1>2, <1>9, <1>10 DEF SoundMap, Present
<1>15. AckedIsKept'
  <2>1. \A k \in StoredRuns : disk[k] # NoRun => disk[k] >= acked[k]  BY <1>9 DEF SoundMap
  <2>2. \A k \in StoredRuns : k \notin dropped' => disk[k] >= acked[k]
    BY <2>1, <1>2, <1>9 DEF AckedIsKept, Present
  <2>. QED  BY <2>2, <1>2, <1>10 DEF AckedIsKept
<1>16. dropped' \subseteq StoredRuns  BY <1>2, <1>9
<1>. QED  BY <1>2, <1>8, <1>9, <1>10, <1>11, <1>12, <1>13, <1>14, <1>15, <1>16, Zenon
          DEF RunStoreInv

\* Every step of the store keeps the invariant.
LEMMA RunStoreNextInv ==
    ASSUME FiniteFacts, CountedLists, FullLists, RunStoreInv, [RunStoreNext]_runStoreVars
    PROVE  RunStoreInv'
<1>1. ASSUME NEW k \in StoredRuns, CreateRun(k) PROVE RunStoreInv'
  BY <1>1, WriteRunKeeps DEF CreateRun
<1>2. ASSUME NEW k \in StoredRuns, SaveRun(k) PROVE RunStoreInv'
  BY <1>2, WriteRunKeeps DEF SaveRun
<1>3. ASSUME NEW k \in StoredRuns, GetRun(k) PROVE RunStoreInv'
  BY <1>3, GetRunKeeps
<1>4. CASE LoadRuns  BY <1>4, LoadRunsKeeps
<1>5. CASE UNCHANGED runStoreVars
  BY <1>5 DEF runStoreVars, RunStoreInv, SoundMap, SortedByUse, AckedIsKept,
              RecentRunsStay, Present
<1>. QED  BY <1>1, <1>2, <1>3, <1>4, <1>5 DEF RunStoreNext

\* What the invariant says.
LEMMA RunStoreInvSuffices == RunStoreInv => RunStoreTypeOK /\ RunsAreKept
<1>. SUFFICES ASSUME RunStoreInv PROVE RunStoreTypeOK /\ RunsAreKept  OBVIOUS
<1>1. \A f \in [StoredRuns -> 0 .. accesses] : f \in [StoredRuns -> 0 .. MaxAccesses]
  BY RunStoreConstants DEF RunStoreInv
<1>2. {runs, disk, acked, lastUse} \subseteq [StoredRuns -> 0 .. MaxAccesses]
  BY <1>1, Zenon DEF RunStoreInv
<1>. QED  BY <1>2 DEF RunStoreInv, RunStoreTypeOK, RunsAreKept, SoundMap

-----------------------------------------------------------------------------
(* The migration *)

\* Where a run that has met no error stands: what the phases so far listed is in
\* Postgres, was passed over, or is still to be looked at or written.
ListedIsCovered ==
    phase > 0 /\ ~errors /\ ~dryRun =>
        \A i \in 1 .. phase : \A r \in Listed(i) :
            \/ target[r] = 1 \/ r \in unseen
            \/ i = phase /\ r \in todo \cup current

\* What MigrationIsExact rests on: a record is only about to be written while Postgres
\* does not have it, although it was looked at in an earlier step.
MigrationInv ==
    /\ target \in [Records -> 0 .. 1] /\ phase \in 0 .. 5
    /\ todo \subseteq Records /\ (current = {} \/ \E r \in Records : current = {r})
    /\ dryRun \in BOOLEAN /\ errors \in BOOLEAN /\ migrations \in 0 .. MaxMigrations
    /\ unseen \subseteq Records /\ migrated \subseteq Records
    /\ phase = 0 => current = {}
    /\ \A r \in current : target[r] = 0
    /\ \A r \in migrated : target[r] = 1
    /\ ListedIsCovered

\* There are five stores.
LEMMA FiveStores == Len(Stores) = 5 /\ DOMAIN Stores = 1 .. 5
BY DEF Stores

\* A record is only ever added.
LEMMA MigrationStep == MigrationInv /\ [MigrationNext]_migrationVars => MigrationInv'
<1>. SUFFICES ASSUME MigrationInv, [MigrationNext]_migrationVars PROVE MigrationInv'
  OBVIOUS
<1>. USE DEF MigrationInv
<1>0. \A i : Listed(i) \subseteq Records  BY DEF Listed
<1>1. ASSUME NEW dry \in BOOLEAN, StartMigration(dry) PROVE MigrationInv'
  <2>1. ListedIsCovered'
    <3>1. \A i \in 1 .. 1 : i = 1  OBVIOUS
    <3>. QED  BY <3>1, <1>1 DEF StartMigration, ListedIsCovered, Listed
  <2>2. /\ target' = target /\ current' = {} /\ current = {} /\ migrated' = migrated
        /\ phase' = 1 /\ todo' \subseteq Records /\ dryRun' \in BOOLEAN
        /\ errors' \in BOOLEAN /\ unseen' = {}
    BY <1>0, <1>1, Zenon DEF StartMigration
  <2>3. migrations' \in 0 .. MaxMigrations
    BY <1>1, MigrationConstants DEF StartMigration
  <2>. QED  BY <2>1, <2>2, <2>3
<1>2. ASSUME NEW r \in Records, CheckRecord(r) PROVE MigrationInv'
  <2>1. /\ target' = target /\ phase' = phase /\ dryRun' = dryRun /\ unseen' = unseen
        /\ migrated' = migrated /\ migrations' = migrations /\ phase > 0 /\ current = {}
        /\ r \in todo /\ todo' = todo \ {r}
    BY <1>2 DEF CheckRecord
  <2>2. CASE current' = ToWrite(r) /\ errors' = errors
    <3>1. /\ current' = {} \/ (current' = {r} /\ target[r] = 0)
          /\ ~dryRun /\ target[r] # 1 => r \in current'
      <4>1. target[r] \in 0 .. 1 /\ (target[r] > 0 <=> target[r] = 1)  OBVIOUS
      <4>2. target[r] # 1 => target[r] = 0  BY <4>1
      <4>3. CASE target[r] > 0 \/ dryRun
        <5>1. current' = {}  BY <4>3, <2>2, Zenon DEF ToWrite
        <5>. QED  BY <5>1, <4>3, <4>1, Zenon
      <4>4. CASE ~(target[r] > 0 \/ dryRun)
        <5>1. current' = {r}  BY <4>4, <2>2, Zenon DEF ToWrite
        <5>. QED  BY <5>1, <4>4, <4>1, <4>2, Zenon
      <4>. QED  BY <4>3, <4>4, Zenon
    <3>2. ListedIsCovered'
      <4>. SUFFICES ASSUME ~errors, ~dryRun, NEW i \in 1 .. phase, NEW q \in Listed(i)
                    PROVE  \/ target[q] = 1 \/ q \in unseen
                           \/ i = phase /\ q \in todo' \cup current'
        BY <2>1, <2>2 DEF ListedIsCovered, Listed
      <4>1. \/ target[q] = 1 \/ q \in unseen
            \/ i = phase /\ q \in todo \cup current
        BY <2>1 DEF ListedIsCovered
      <4>. QED  BY <4>1, <3>1, <2>1
    <3>. QED  BY <3>1, <3>2, <2>1, <2>2
  <2>3. CASE current' = {} /\ errors' = TRUE
    BY <2>1, <2>3 DEF ListedIsCovered
  <2>. QED  BY <2>2, <2>3, <1>2, Zenon DEF CheckRecord
<1>3. ASSUME NEW r \in Records, WriteRecord(r) PROVE MigrationInv'
  <2>1. /\ r \in current /\ current' = {} /\ phase' = phase /\ todo' = todo
        /\ dryRun' = dryRun /\ migrations' = migrations /\ unseen' = unseen
        /\ migrated' = migrated
    BY <1>3 DEF WriteRecord
  <2>2. current = {r} /\ target[r] = 0 /\ phase # 0  BY <2>1
  <2>3. CASE /\ target' = [target EXCEPT ![r] = IF Store[r] = "memory" THEN @ + 1 ELSE 1]
             /\ errors' \in {errors, TRUE}
    <3>1. /\ target' \in [Records -> 0 .. 1] /\ target'[r] = 1
          /\ \A q \in Records : target[q] = 1 => target'[q] = 1
      BY <2>2, <2>3
    <3>2. ListedIsCovered'
      <4>. SUFFICES ASSUME ~errors, ~dryRun, NEW i \in 1 .. phase, NEW q \in Listed(i)
                    PROVE  \/ target'[q] = 1 \/ q \in unseen
                           \/ i = phase /\ q \in todo
        BY <2>1, <2>3, Zenon DEF ListedIsCovered, Listed
      <4>1. \/ target[q] = 1 \/ q \in unseen
            \/ i = phase /\ q \in todo \cup current
        BY <2>2 DEF ListedIsCovered
      <4>. QED  BY <4>1, <3>1, <2>2, <1>0
    <3>. QED  BY <3>1, <3>2, <2>1, <2>3, Zenon
  <2>4. CASE target' = target /\ errors' = TRUE
    BY <2>1, <2>4 DEF ListedIsCovered
  <2>. QED  BY <2>3, <2>4, <1>3, Zenon DEF WriteRecord
<1>4. CASE NextPhase
  <2>0. errors' = TRUE \/ (errors' = errors /\ todo = {})
    BY <1>4, Zenon DEF NextPhase
  <2>1. /\ target' = target /\ current = {} /\ current' = {} /\ dryRun' = dryRun
        /\ migrations' = migrations /\ phase > 0
        /\ errors' = TRUE \/ (errors' = errors /\ todo = {})
    BY <1>4, <2>0 DEF NextPhase
  <2>2. CASE phase < 5
    <3>1. PICK u \in Unreadable(phase + 1) :
            todo' = Listed(phase + 1) \ u /\ unseen' = unseen \cup u
      BY <1>4, <2>2, FiveStores DEF NextPhase
    <3>2. phase' = phase + 1 /\ migrated' = migrated
      BY <1>4, <2>2, FiveStores DEF NextPhase
    <3>3. u \subseteq Listed(phase + 1)  BY DEF Unreadable
    <3>4. ListedIsCovered'
      <4>. SUFFICES ASSUME ~errors', ~dryRun, NEW i \in 1 .. phase + 1, NEW q \in Listed(i)
                    PROVE  \/ target[q] = 1 \/ q \in unseen'
                           \/ i = phase + 1 /\ q \in todo'
        BY <2>1, <3>2 DEF ListedIsCovered, Listed
      <4>1. CASE i = phase + 1  BY <4>1, <3>1
      <4>2. CASE i \in 1 .. phase
        <5>1. target[q] = 1 \/ q \in unseen  BY <4>2, <2>1 DEF ListedIsCovered
        <5>. QED  BY <5>1, <3>1
      <4>. QED  BY <4>1, <4>2
    <3>5. errors' \in BOOLEAN  BY <2>1, Zenon
    <3>. QED  BY <3>1, <3>2, <3>3, <3>4, <3>5, <2>1, <2>2, <1>0
  <2>3. CASE ~(phase < 5)
    <3>1. /\ phase' = 0 /\ todo' = {} /\ unseen' = unseen
          /\ migrated' = IF errors' \/ dryRun THEN migrated
                         ELSE migrated \cup ((UNION {Listed(i) : i \in 1 .. 5}) \ unseen)
      BY <1>4, <2>3, FiveStores DEF NextPhase
    <3>2. ~errors' /\ ~dryRun =>
             \A r \in (UNION {Listed(i) : i \in 1 .. 5}) \ unseen : r \in Records /\ target[r] = 1
      <4>. SUFFICES ASSUME ~errors', ~dryRun, NEW i \in 1 .. 5, NEW q \in Listed(i), q \notin unseen
                    PROVE  target[q] = 1
        BY <1>0
      <4>1. phase = 5  BY <2>3
      <4>. QED  BY <4>1, <2>1 DEF ListedIsCovered
    <3>3. migrated' \subseteq Records /\ \A r \in migrated' : target[r] = 1
      BY <3>1, <3>2
    <3>4. ListedIsCovered'  BY <3>1 DEF ListedIsCovered
    <3>5. errors' \in BOOLEAN  BY <2>1, Zenon
    <3>. QED  BY <3>1, <3>3, <3>4, <3>5, <2>1
  <2>. QED  BY <2>2, <2>3
<1>5. CASE MigrationCrash  BY <1>5 DEF MigrationCrash, ListedIsCovered
<1>6. CASE UNCHANGED migrationVars
  BY <1>6 DEF migrationVars, ListedIsCovered, Listed
<1>. QED  BY <1>1, <1>2, <1>3, <1>4, <1>5, <1>6 DEF MigrationNext

\* Nothing is migrated at the start.
LEMMA MigrationInitInv == MigrationInit => MigrationInv
<1>. SUFFICES ASSUME MigrationInit PROVE MigrationInv  OBVIOUS
<1>1. ListedIsCovered  BY DEF MigrationInit, ListedIsCovered
<1>2. migrations \in 0 .. MaxMigrations  BY MigrationConstants DEF MigrationInit
<1>3. target \in [Records -> 0 .. 1] /\ phase \in 0 .. 5  BY DEF MigrationInit
<1>4. dryRun \in BOOLEAN /\ errors \in BOOLEAN  BY Zenon DEF MigrationInit
<1>. QED  BY <1>1, <1>2, <1>3, <1>4, Zenon DEF MigrationInit, MigrationInv

\* What the invariant says.
LEMMA MigrationInvSuffices ==
    ASSUME FiniteFacts, MigrationInv PROVE MigrationTypeOK /\ MigrationIsExact
<1>1. Cardinality(current) <= 1 /\ current \subseteq Records
  <2>1. CASE current = {}  BY <2>1 DEF FiniteFacts, EmptySetFacts
  <2>2. ASSUME NEW r \in Records, current = {r} PROVE Cardinality(current) <= 1
    <3>1. Cardinality(current) = 1  BY <2>2, Zenon DEF FiniteFacts, SingletonFacts
    <3>. QED  BY <3>1
  <2>. QED  BY <2>1, <2>2 DEF MigrationInv
<1>2. target \in [Records -> Nat]  BY DEF MigrationInv
<1>. QED  BY <1>1, <1>2, FiveStores DEF MigrationInv, MigrationTypeOK, MigrationIsExact

-----------------------------------------------------------------------------
INSTANCE FiniteSetTheorems

\* What the lemmas assume of finite sets, from the library.
LEMMA FiniteFactsHold == FiniteFacts
<1>1. EmptySetFacts  BY FS_EmptySet DEF EmptySetFacts
<1>2. CardinalityFacts  BY FS_CardinalityType DEF CardinalityFacts
<1>3. SubsetFacts  BY FS_Subset DEF SubsetFacts
<1>4. AddFacts  BY FS_AddElement DEF AddFacts
<1>5. RemoveFacts  BY FS_RemoveElement DEF RemoveFacts
<1>6. SingletonFacts  BY FS_Singleton, Zenon DEF SingletonFacts
<1>. QED  BY <1>1, <1>2, <1>3, <1>4, <1>5, <1>6 DEF FiniteFacts

\* A list without repetition has as many elements as positions.
LEMMA ListCardinality ==
    ASSUME NEW S, NEW s \in Seq(S), IsInjective(s)
    PROVE  IsFiniteSet(Range(s)) /\ Cardinality(Range(s)) = Len(s)
<1>1. Len(s) \in Nat /\ DOMAIN s = 1 .. Len(s)  OBVIOUS
<1>2. s \in [1 .. Len(s) -> Range(s)]  BY <1>1 DEF Range
<1>3. \A x \in Range(s) : \E i \in 1 .. Len(s) : s[i] = x  BY <1>1 DEF Range
<1>4. s \in Bijection(1 .. Len(s), Range(s))
  BY <1>2, <1>3 DEF Bijection, Injection, Surjection
<1>5. ExistsBijection(1 .. Len(s), Range(s))  BY <1>4 DEF ExistsBijection
<1>6. /\ IsFiniteSet(1 .. Len(s))
      /\ Cardinality(1 .. Len(s)) = IF 1 > Len(s) THEN 0 ELSE Len(s) - 1 + 1
  <2>1. 1 \in Int /\ Len(s) \in Int  BY <1>1
  <2>. QED  BY <2>1, FS_Interval, Zenon
<1>7. Cardinality(1 .. Len(s)) = Len(s)  BY <1>1, <1>6
<1>. QED  BY <1>5, <1>6, <1>7, FS_Bijection, Zenon

\* load lists every run of the file, once.
LEMMA LoadedOrder ==
    ASSUME NEW S, IsFiniteSet(S), NEW order \in [1 .. Cardinality(S) -> S], IsInjective(order)
    PROVE  order \in Seq(S) /\ Len(order) = Cardinality(S) /\ Range(order) = S
<1>. DEFINE D == 1 .. Cardinality(S)
<1>1. Cardinality(S) \in Nat  BY FS_CardinalityType
<1>2. order \in [D -> S]  OBVIOUS
<1>3. order \in Seq(S) /\ Len(order) = Cardinality(S) /\ DOMAIN order = D  BY <1>1, <1>2
<1>. HIDE DEF D
<1>4. order \in Injection(D, S)  BY <1>2 DEF Injection
<1>5. Cardinality(D) = Cardinality(S)  BY <1>1, FS_Interval DEF D
<1>6. order \in Surjection(D, S)  BY <1>4, <1>5, FS_Injection
<1>7. Range(order) = S  BY <1>2, <1>3, <1>6 DEF Range, Surjection
<1>. QED  BY <1>3, <1>7

\* What the lemmas on the store assume of lists.
LEMMA ListFactsHold == CountedLists /\ FullLists
  BY ListCardinality, LoadedOrder, Zenon DEF CountedLists, FullLists

\* The run store keeps what it acknowledged and the runs in use, whatever the cap, the
\* number of runs, and the order of writes, failed writes, reads and restarts; its map
\* is within the cap and runOrder lists it (Create, Save, Get, load of fileRunStore).
THEOREM AckedRunsAreKept == RunStoreSpec => [](RunStoreTypeOK /\ RunsAreKept)
<1>1. RunStoreInit => RunStoreInv  BY FiniteFactsHold, RunStoreInitInv
<1>2. RunStoreInv /\ [RunStoreNext]_runStoreVars => RunStoreInv'
  BY FiniteFactsHold, ListFactsHold, RunStoreNextInv
<1>. QED  BY <1>1, <1>2, RunStoreInvSuffices, PTL DEF RunStoreSpec

\* However often migrate-storage is killed, times out or fails, and however its writes
\* answer, it leaves no record in Postgres twice, and a run that ended without errors
\* leaves none out of what it listed (Migrate and the loops of its five stores).
THEOREM MigrationRepeats == MigrationSpec => [](MigrationTypeOK /\ MigrationIsExact)
<1>1. MigrationInv => MigrationTypeOK /\ MigrationIsExact
  BY FiniteFactsHold, MigrationInvSuffices
<1>. QED  BY <1>1, MigrationInitInv, MigrationStep, PTL DEF MigrationSpec

=============================================================================
