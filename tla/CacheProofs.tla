------------------------------ MODULE CacheProofs ------------------------------
(***************************************************************************)
(* The result cache does what it is there for: a side effect is put on the *)
(* line at most once, and every copy of a command gets the same answer,    *)
(* for every capacity, every number of retries and any number of           *)
(* disturbances.  The argument is that whoever follows an entry in the     *)
(* cache was answered after it, so that an entry only gives way when as    *)
(* many others have been answered as the cache holds.                      *)
(***************************************************************************)
EXTENDS Gateway, FiniteSetTheorems, WellFoundedInduction, TLAPS

Entries == [id : Ids, answer : Answers]
Messages == [id : Ids, retained : BOOLEAN]

\* A sequence of results, each the last answer given, in the order of answers.
Ordered(c, l, o) ==
  /\ c \in Seq(Entries)
  /\ \A k \in 1..Len(c) : l[c[k].id] = c[k].answer
  /\ \A k, m \in 1..Len(c) : k < m => c[m].id \in o[c[k].id] /\ c[k].id # c[m].id

\* The types of what the cache and its history keep.
HistoryTyped ==
  /\ last \in [Ids -> Answers \union {Nothing}]
  /\ others \in [Ids -> SUBSET Ids] /\ \A i \in Ids : IsFiniteSet(others[i])
  /\ written \in [SideEffects -> Nat]
  /\ lapsed \subseteq Ids
  /\ queue \in Seq(Messages)

\* i is due to be remembered.
Due(i) == last[i] # Nothing /\ Cardinality(others[i]) < CacheCapacity

\* What is due to be remembered, and in time, is.
Kept == \A i \in Ids : Due(i) /\ i \notin lapsed => \E k \in 1..Len(cache) : cache[k].id = i

\* What was written is being waited for, or due to be remembered; what it is
\* not remembered for any longer, although it is due, cannot come again.
WrittenOnce ==
  \A i \in SideEffects :
    /\ written[i] <= 1 /\ (written[i] = 1 => current = i \/ Due(i))
    /\ i \in lapsed => i \in expired \/ written[i] = 0 \/ current = i

\* The command that is waited for is not in the cache; a side effect is not
\* tried again.
Serving ==
  /\ pc # "executing" => current = Nothing
  /\ pc = "executing" =>
       /\ current \in Ids /\ \A k \in 1..Len(cache) : cache[k].id # current
       /\ current \in SideEffects /\ request # NoRequest => request.left = 0

\* The inductive invariant.
CacheInv ==
  /\ HistoryTyped /\ Ordered(cache, last, others) /\ Len(cache) <= CacheCapacity
  /\ Kept /\ WrittenOnce /\ Serving

-------------------------------------------------------------------------------
(* Operators of the cache.                                                 *)

\* The set of positions of results in time has a least one, if any.
LEMMA LeastPosition ==
  ASSUME NEW T \in SUBSET Nat, T # {}
  PROVE  \E x \in T : \A y \in T : x =< y
<1>1. PICK x \in T : \A y \in T : ~(<<y, x>> \in OpToRel(<, Nat))
  BY NatLessThanWellFounded, WFMin
<1>2. \A y \in T : ~(y < x)
  BY <1>1 DEF OpToRel
<1> QED
  BY <1>2

\* purge drops a prefix of results that are past their time, and no more.
LEMMA PurgedIs ==
  ASSUME NEW S, cache \in Seq(S)
  PROVE  \E p \in 0..Len(cache) :
           /\ Purged \in Seq(S) /\ Len(Purged) = Len(cache) - p
           /\ \A k \in 1..Len(Purged) : p + k \in 1..Len(cache) /\ Purged[k] = cache[p + k]
           /\ \A k \in 1..p : cache[k].id \in lapsed
<1> DEFINE I == {k \in 1..Len(cache) : cache[k].id \notin lapsed}
           first == IF I # {} THEN Min(I) ELSE 0
<1>1. Purged = IF first = 0 THEN <<>> ELSE SubSeq(cache, first, Len(cache))
  BY DEF Purged, SelectInSeq
<1>2. CASE I = {}
  <2>1. Purged = <<>>
    BY <1>1, <1>2
  <2> QED
    BY <1>2, <2>1
<1>3. CASE I # {}
  <2>1. first \in I /\ \A y \in I : first =< y
    <3>1. I \in SUBSET Nat
      OBVIOUS
    <3>2. \E x \in I : \A y \in I : x =< y
      <4> HIDE DEF I
      <4> QED
        BY <1>3, <3>1, LeastPosition
    <3>3. first = CHOOSE x \in I : \A y \in I : x =< y
      BY <1>3 DEF Min
    <3> HIDE DEF I, first
    <3> QED
      BY <3>2, <3>3
  <2> HIDE DEF first
  <2> DEFINE p == first - 1
  <2>2. first \in 1..Len(cache) /\ Purged = SubSeq(cache, first, Len(cache))
    BY <1>1, <2>1
  <2>3. \A k \in 1..p : cache[k].id \in lapsed
    BY <2>1, <2>2
  <2>4. /\ Purged \in Seq(S) /\ Len(Purged) = Len(cache) - p
        /\ \A k \in 1..Len(Purged) : p + k \in 1..Len(cache) /\ Purged[k] = cache[p + k]
    BY <2>2
  <2>5. p \in 0..Len(cache)
    BY <2>2
  <2> HIDE DEF p
  <2> QED
    BY <2>3, <2>4, <2>5
<1> QED
  BY <1>2, <1>3

\* What purge leaves is in order, and has all that is in time.
LEMMA PurgedOrdered ==
  ASSUME Ordered(cache, last, others), Len(cache) <= CacheCapacity
  PROVE  /\ Ordered(Purged, last, others) /\ Len(Purged) <= CacheCapacity
         /\ \A k \in 1..Len(Purged) : \E m \in 1..Len(cache) : Purged[k] = cache[m]
         /\ \A m \in 1..Len(cache) :
              cache[m].id \notin lapsed => \E k \in 1..Len(Purged) : Purged[k] = cache[m]
<1>1. PICK p \in 0..Len(cache) :
        /\ Purged \in Seq(Entries) /\ Len(Purged) = Len(cache) - p
        /\ \A k \in 1..Len(Purged) : p + k \in 1..Len(cache) /\ Purged[k] = cache[p + k]
        /\ \A k \in 1..p : cache[k].id \in lapsed
  BY PurgedIs DEF Ordered
<1>2. cache \in Seq(Entries)
  BY DEF Ordered
<1>3. Ordered(Purged, last, others)
  <2>1. \A k \in 1..Len(Purged) : last[Purged[k].id] = Purged[k].answer
    BY <1>1 DEF Ordered
  <2>2. ASSUME NEW k \in 1..Len(Purged), NEW m \in 1..Len(Purged), k < m
        PROVE  Purged[m].id \in others[Purged[k].id] /\ Purged[k].id # Purged[m].id
    <3>1. p + k \in 1..Len(cache) /\ p + m \in 1..Len(cache) /\ p + k < p + m
      BY <1>1, <1>2, <2>2
    <3> QED
      BY <1>1, <3>1 DEF Ordered
  <2> QED
    BY <1>1, <2>1, <2>2 DEF Ordered
<1>4. ASSUME NEW m \in 1..Len(cache), cache[m].id \notin lapsed
      PROVE  \E k \in 1..Len(Purged) : Purged[k] = cache[m]
  <2>1. m > p /\ m - p \in 1..Len(Purged) /\ p + (m - p) = m
    BY <1>1, <1>2, <1>4
  <2>2. Purged[m - p] = cache[m]
    BY <1>1, <2>1
  <2> QED
    BY <2>1, <2>2
<1>5. Len(Purged) <= CacheCapacity
  BY <1>1, <1>2, GatewayAssumption
<1> QED
  BY <1>1, <1>3, <1>4, <1>5

\* A new answer is the latest.
LEMMA AppendOrdered ==
  ASSUME HistoryTyped, NEW c, Ordered(c, last, others), NEW i \in Ids, NEW answer \in Answers,
         \A k \in 1..Len(c) : c[k].id # i,
         last' = [last EXCEPT ![i] = answer], Remembers(i)
  PROVE  Ordered(Append(c, [id |-> i, answer |-> answer]), last', others')
<1> DEFINE e == [id |-> i, answer |-> answer]
           d == Append(c, e)
<1>1. e \in Entries /\ e.id = i /\ e.answer = answer
  BY DEF Entries
<1> HIDE DEF e
<1>2. c \in Seq(Entries) /\ \A k \in 1..Len(c) : c[k] \in Entries /\ c[k].id \in Ids
  <2>1. c \in Seq(Entries) /\ \A k \in 1..Len(c) : c[k] \in Entries
    BY DEF Ordered
  <2> QED
    BY <2>1 DEF Entries
<1>3. /\ d \in Seq(Entries) /\ Len(d) = Len(c) + 1 /\ d[Len(d)] = e
      /\ \A k \in 1..Len(c) : d[k] = c[k]
  BY <1>1, <1>2
<1>4. \A k \in 1..Len(c) : last'[c[k].id] = c[k].answer
  BY <1>2 DEF Ordered, HistoryTyped
<1>5. last'[i] = answer
  BY DEF HistoryTyped
<1>6. \A k \in 1..Len(c) : others'[c[k].id] = others[c[k].id] \union {i}
  <2>1. ASSUME NEW k \in 1..Len(c)
        PROVE  c[k].id \in Ids /\ c[k].id # i /\ last[c[k].id] # Nothing
    BY <1>2 DEF Ordered, Entries, Answers, Nothing
  <2> QED
    BY <2>1 DEF Remembers
<1> HIDE DEF d
<1>7. \A k \in 1..Len(d) : last'[d[k].id] = d[k].answer
  BY <1>1, <1>2, <1>3, <1>4, <1>5
<1>8. ASSUME NEW k \in 1..Len(d), NEW m \in 1..Len(d), k < m
      PROVE  d[m].id \in others'[d[k].id] /\ d[k].id # d[m].id
  <2>1. k \in 1..Len(c) /\ d[k] = c[k]
    BY <1>2, <1>3, <1>8
  <2>2. CASE m = Len(d)
    BY <1>1, <1>3, <1>6, <2>1, <2>2
  <2>3. CASE m \in 1..Len(c)
    BY <1>3, <1>6, <1>8, <2>1, <2>3 DEF Ordered
  <2> QED
    BY <1>2, <1>3, <2>2, <2>3
<1>9. Ordered(d, last', others')
  BY <1>3, <1>7, <1>8 DEF Ordered
<1> QED
  BY <1>9 DEF d, e

\* Without its head it is in order still.
LEMMA TailOrdered ==
  ASSUME NEW c, NEW l, NEW o, Ordered(c, l, o), c # <<>>
  PROVE  /\ Ordered(Tail(c), l, o) /\ Len(Tail(c)) = Len(c) - 1
         /\ \A k \in 1..Len(c) : k # 1 => \E m \in 1..Len(Tail(c)) : Tail(c)[m] = c[k]
<1>1. /\ c \in Seq(Entries) /\ Tail(c) \in Seq(Entries) /\ Len(Tail(c)) = Len(c) - 1
      /\ \A k \in 1..Len(Tail(c)) : k + 1 \in 1..Len(c) /\ Tail(c)[k] = c[k + 1]
  BY DEF Ordered
<1>2. ASSUME NEW k \in 1..Len(c), k # 1
      PROVE  \E m \in 1..Len(Tail(c)) : Tail(c)[m] = c[k]
  <2>1. k - 1 \in 1..Len(Tail(c)) /\ (k - 1) + 1 = k
    BY <1>1, <1>2
  <2> QED
    BY <1>1, <2>1
<1> QED
  BY <1>1, <1>2 DEF Ordered

\* A concatenation, element by element.
LEMMA ConcatElements ==
  ASSUME NEW S, NEW a \in Seq(S), NEW b \in Seq(S)
  PROVE  /\ a \o b \in Seq(S) /\ Len(a \o b) = Len(a) + Len(b)
         /\ \A k \in 1..Len(a) : (a \o b)[k] = a[k]
         /\ \A k \in 1..Len(b) : (a \o b)[Len(a) + k] = b[k]
OBVIOUS

\* Without an entry of the middle it is in order still.
LEMMA RemoveOrdered ==
  ASSUME NEW c, NEW l, NEW o, Ordered(c, l, o), NEW p \in 1..Len(c)
  PROVE  /\ Ordered(RemoveAt(c, p), l, o) /\ Len(RemoveAt(c, p)) = Len(c) - 1
         /\ \A k \in 1..Len(RemoveAt(c, p)) : RemoveAt(c, p)[k].id # c[p].id
         /\ \A k \in 1..Len(c) :
              k # p => \E m \in 1..Len(RemoveAt(c, p)) : RemoveAt(c, p)[m] = c[k]
<1> DEFINE d == RemoveAt(c, p)
           from(k) == IF k < p THEN k ELSE k + 1
<1>1. c \in Seq(Entries)
  BY DEF Ordered
<1>2. /\ d \in Seq(Entries) /\ Len(d) = Len(c) - 1
      /\ \A k \in 1..Len(d) : d[k] = c[from(k)]
  <2> DEFINE front == SubSeq(c, 1, p - 1)
             back == SubSeq(c, p + 1, Len(c))
  <2>1. /\ front \in Seq(Entries) /\ Len(front) = p - 1
        /\ \A k \in 1..(p - 1) : front[k] = c[k]
    BY <1>1
  <2>2. /\ back \in Seq(Entries) /\ Len(back) = Len(c) - p
        /\ \A k \in 1..(Len(c) - p) : back[k] = c[p + k]
    BY <1>1
  <2>3. d = front \o back
    BY DEF RemoveAt
  <2> HIDE DEF front, back, d
  <2>4. /\ d \in Seq(Entries) /\ Len(d) = (p - 1) + (Len(c) - p)
        /\ \A k \in 1..(p - 1) : d[k] = front[k]
        /\ \A k \in 1..(Len(c) - p) : d[(p - 1) + k] = back[k]
    <3>1. /\ front \o back \in Seq(Entries)
          /\ Len(front \o back) = Len(front) + Len(back)
          /\ \A k \in 1..Len(front) : (front \o back)[k] = front[k]
          /\ \A k \in 1..Len(back) : (front \o back)[Len(front) + k] = back[k]
      <4>1. front \in Seq(Entries) /\ back \in Seq(Entries)
        BY <2>1, <2>2
      <4> QED
        BY <4>1, ConcatElements
    <3> QED
      BY <2>1, <2>2, <2>3, <3>1
  <2>0. p \in Nat /\ Len(c) \in Nat /\ Len(d) = Len(c) - 1
    BY <1>1, <2>4
  <2>5. ASSUME NEW k \in 1..Len(d) PROVE d[k] = c[from(k)]
    <3>1. CASE k < p
      BY <2>0, <2>1, <2>4, <3>1
    <3>2. CASE ~(k < p)
      <4>1. k - (p - 1) \in 1..(Len(c) - p) /\ p + (k - (p - 1)) = k + 1
        BY <2>0, <3>2
      <4>2. k = (p - 1) + (k - (p - 1))
        BY <2>0
      <4>3. d[k] = back[k - (p - 1)]
        BY <2>4, <4>1, <4>2
      <4> QED
        BY <2>2, <3>2, <4>1, <4>3
    <3> QED
      BY <3>1, <3>2
  <2> QED
    BY <2>0, <2>4, <2>5
<1> HIDE DEF d
<1>3. \A k \in 1..Len(d) : from(k) \in 1..Len(c) /\ from(k) # p
  BY <1>1, <1>2
<1>4. \A k, m \in 1..Len(d) : k < m => from(k) < from(m)
  BY <1>1, <1>2
<1>5. \A k \in 1..Len(c) : k # p => \E m \in 1..Len(d) : from(m) = k
  <2> SUFFICES ASSUME NEW k \in 1..Len(c), k # p PROVE \E m \in 1..Len(d) : from(m) = k
    OBVIOUS
  <2>1. CASE k < p
    <3>1. k \in 1..Len(d) /\ from(k) = k
      BY <1>1, <1>2, <2>1
    <3> QED
      BY <3>1
  <2>2. CASE k > p
    <3>1. k - 1 \in 1..Len(d) /\ from(k - 1) = k
      BY <1>1, <1>2, <2>2
    <3> QED
      BY <3>1
  <2> QED
    BY <2>1, <2>2
<1> HIDE DEF from
<1>6. \A k \in 1..Len(d) : d[k].id # c[p].id
  <2> SUFFICES ASSUME NEW k \in 1..Len(d) PROVE c[from(k)].id # c[p].id
    BY <1>2
  <2>1. from(k) \in 1..Len(c) /\ (from(k) < p \/ p < from(k))
    BY <1>1, <1>3
  <2> QED
    BY <2>1 DEF Ordered
<1>7. Ordered(d, l, o)
  <2>1. \A k \in 1..Len(d) : l[d[k].id] = d[k].answer
    BY <1>2, <1>3 DEF Ordered
  <2>2. ASSUME NEW k \in 1..Len(d), NEW m \in 1..Len(d), k < m
        PROVE  d[m].id \in o[d[k].id] /\ d[k].id # d[m].id
    <3>1. from(k) \in 1..Len(c) /\ from(m) \in 1..Len(c) /\ from(k) < from(m)
      BY <1>3, <1>4, <2>2
    <3>2. c[from(m)].id \in o[c[from(k)].id] /\ c[from(k)].id # c[from(m)].id
      BY <3>1 DEF Ordered
    <3> QED
      BY <1>2, <3>2
  <2> QED
    BY <1>2, <2>1, <2>2 DEF Ordered
<1>8. \A k \in 1..Len(c) : k # p => \E m \in 1..Len(d) : d[m] = c[k]
  BY <1>2, <1>5
<1> QED
  BY <1>2, <1>6, <1>7, <1>8 DEF d

\* As many others were answered after an entry as follow it.
LEMMA FollowersCount ==
  ASSUME NEW c, NEW l, NEW o, Ordered(c, l, o), c # <<>>, IsFiniteSet(o[c[1].id])
  PROVE  Cardinality(o[c[1].id]) >= Len(c) - 1
<1> DEFINE n == Len(c) - 1
           T == o[c[1].id]
           f == [k \in 1..n |-> c[k + 1].id]
<1>1. c \in Seq(Entries) /\ n \in Nat /\ 1 \in 1..Len(c)
      /\ \A k \in 1..n : k + 1 \in 1..Len(c) /\ 1 < k + 1
  BY DEF Ordered
<1>2. \A k \in 1..n : c[k + 1].id \in T
  BY <1>1 DEF Ordered
<1>3. ASSUME NEW k \in 1..n, NEW m \in 1..n, k # m
      PROVE  c[k + 1].id # c[m + 1].id
  <2>1. k + 1 < m + 1 \/ m + 1 < k + 1
    BY <1>1, <1>3
  <2> QED
    BY <1>1, <2>1 DEF Ordered
<1>4. f \in Injection(1..n, T)
  BY <1>2, <1>3 DEF Injection, IsInjective
<1>5. Cardinality(1..n) <= Cardinality(T)
  BY <1>4, FS_Injection
<1>6. Cardinality(1..n) = n
  BY <1>1, FS_Interval
<1>7. Cardinality(T) \in Nat
  BY FS_CardinalityType
<1> QED
  BY <1>1, <1>5, <1>6, <1>7

-------------------------------------------------------------------------------
(* Steps of the cache.                                                     *)

\* Remembers keeps the history typed.
LEMMA RemembersTyped ==
  ASSUME HistoryTyped, NEW i \in Ids, NEW answer \in Answers,
         last' = [last EXCEPT ![i] = answer], Remembers(i)
  PROVE  /\ last' \in [Ids -> Answers \union {Nothing}]
         /\ others' \in [Ids -> SUBSET Ids] /\ \A j \in Ids : IsFiniteSet(others'[j])
         /\ written' \in [SideEffects -> Nat]
<1>1. last' \in [Ids -> Answers \union {Nothing}]
  BY DEF HistoryTyped
<1>2. ASSUME NEW j \in Ids
      PROVE  others'[j] \in SUBSET Ids /\ IsFiniteSet(others'[j])
  <2>1. CASE others'[j] = {}
    BY <2>1, FS_EmptySet
  <2>2. CASE others'[j] = others[j] \union {i}
    <3>1. IsFiniteSet(others[j]) /\ others[j] \in SUBSET Ids
      BY DEF HistoryTyped
    <3>2. IsFiniteSet(others[j] \union {i})
      BY <3>1, FS_AddElement
    <3> QED
      BY <2>2, <3>1, <3>2
  <2>3. others'[j] = {} \/ others'[j] = others[j] \union {i}
    BY DEF Remembers
  <2> QED
    BY <2>1, <2>2, <2>3
<1>3. others' = [j \in Ids |-> others'[j]]
  BY DEF Remembers
<1>4. ASSUME NEW j \in SideEffects PROVE written'[j] \in Nat
  BY DEF Remembers, HistoryTyped
<1>5. written' = [j \in SideEffects |-> written'[j]]
  BY DEF Remembers
<1> QED
  BY <1>1, <1>2, <1>3, <1>4, <1>5

\* Another answer makes nobody due, and what is no longer due is forgotten.
LEMMA DueBefore ==
  ASSUME HistoryTyped, NEW i \in Ids, NEW answer \in Answers,
         last' = [last EXCEPT ![i] = answer], Remembers(i)
  PROVE  /\ \A j \in Ids \ {i} : Due(j)' => Due(j)
         /\ Due(i)'
         /\ \A j \in SideEffects : written'[j] # 0 =>
              Cardinality(others'[j]) < CacheCapacity /\ written'[j] = written[j]
<1>1. CacheCapacity \in Nat \ {0}
  BY GatewayAssumption
<1>2. ASSUME NEW j \in Ids \ {i}, Due(j)' PROVE Due(j)
  <2>1. last[j] # Nothing /\ last'[j] = last[j]
    BY <1>2 DEF Due, HistoryTyped
  <2>2. others'[j] = others[j] \union {i} /\ IsFiniteSet(others[j])
    BY <2>1 DEF Remembers, HistoryTyped
  <2>3. Cardinality(others[j]) \in Nat /\ Cardinality(others[j]) <= Cardinality(others'[j])
    <3>1. /\ Cardinality(others[j]) \in Nat
          /\ Cardinality(others[j] \union {i})
               = IF i \in others[j] THEN Cardinality(others[j]) ELSE Cardinality(others[j]) + 1
      BY <2>2, FS_CardinalityType, FS_AddElement
    <3> QED
      BY <2>2, <3>1
  <2>4. Cardinality(others'[j]) \in Nat /\ Cardinality(others'[j]) < CacheCapacity
    <3>1. IsFiniteSet(others[j] \union {i})
      BY <2>2, FS_AddElement
    <3> QED
      BY <1>2, <2>2, <3>1, FS_CardinalityType DEF Due
  <2> QED
    BY <1>1, <2>1, <2>3, <2>4 DEF Due
<1>3. Due(i)'
  <2>1. others'[i] = {} /\ last'[i] = answer
    BY DEF Remembers, HistoryTyped
  <2>2. Cardinality(others'[i]) = 0
    BY <2>1, FS_EmptySet
  <2> QED
    BY <1>1, <2>1, <2>2 DEF Due, Answers, Nothing
<1>4. ASSUME NEW j \in SideEffects, written'[j] # 0
      PROVE  Cardinality(others'[j]) < CacheCapacity /\ written'[j] = written[j]
  <2>1. ~(Cardinality(others'[j]) >= CacheCapacity) /\ written'[j] = written[j]
    BY <1>4 DEF Remembers
  <2>2. Cardinality(others'[j]) \in Nat
    BY RemembersTyped, FS_CardinalityType, GatewayAssumption
  <2> QED
    BY <1>1, <2>1, <2>2
<1> QED
  BY <1>2, <1>3, <1>4

\* An id whose result is not cached was written before only if it is waited
\* for, or if it is too late for it.
LEMMA MissMeansNew ==
  ASSUME CacheInv, NEW i \in Ids, ~Cached(i)
  PROVE  /\ \A k \in 1..Len(Purged) : Purged[k].id # i
         /\ Due(i) => i \in lapsed
<1>1. \A k \in 1..Len(Purged) : Purged[k].id # i
  BY DEF Cached, IdsOf, ToSet
<1>2. /\ \A m \in 1..Len(cache) :
           cache[m].id \notin lapsed => \E k \in 1..Len(Purged) : Purged[k] = cache[m]
  BY PurgedOrdered DEF CacheInv
<1>3. ASSUME Due(i), i \notin lapsed PROVE FALSE
  <2>1. PICK m \in 1..Len(cache) : cache[m].id = i
    BY <1>3 DEF CacheInv, Kept
  <2> QED
    BY <1>1, <1>2, <1>3, <2>1
<1> QED
  BY <1>1, <1>3

\* A hit is the last answer given.
LEMMA HitIsLast ==
  ASSUME CacheInv, NEW i \in Ids, Cached(i)
  PROVE  /\ Place(i) \in 1..Len(Purged) /\ Purged[Place(i)] = [id |-> i, answer |-> last[i]]
         /\ last[i] \in Answers
<1>1. Ordered(Purged, last, others)
  BY PurgedOrdered DEF CacheInv
<1>2. \E k \in DOMAIN Purged : Purged[k].id = i
  BY DEF Cached, IdsOf, ToSet
<1>3. Place(i) \in DOMAIN Purged /\ Purged[Place(i)].id = i
  BY <1>2 DEF Place
<1>4. Purged \in Seq(Entries) /\ Place(i) \in 1..Len(Purged)
  BY <1>1, <1>3 DEF Ordered
<1>5. Purged[Place(i)] \in Entries
  BY <1>4
<1>6. Purged[Place(i)].answer = last[i]
  BY <1>1, <1>3, <1>4 DEF Ordered
<1> QED
  BY <1>3, <1>4, <1>5, <1>6 DEF Entries

\* What OneAnswer says of a step.
AnswerKept ==
  \A i \in Ids : last[i] # Nothing /\ last'[i] \notin {last[i], Nothing}
                   => Cardinality(others[i]) >= CacheCapacity \/ i \in lapsed

\* A step that gives no answer.
LEMMA QuietKeepsInv ==
  ASSUME CacheInv, UNCHANGED <<cache, last, others, written, lapsed, current>>,
         expired \subseteq expired', queue' \in Seq(Messages), Serving'
  PROVE  CacheInv' /\ AnswerKept
<1>1. HistoryTyped'
  BY DEF CacheInv, HistoryTyped
<1>2. Ordered(cache, last, others)' /\ Len(cache') <= CacheCapacity
  BY DEF CacheInv, Ordered
<1>3. Kept' /\ WrittenOnce'
  BY DEF CacheInv, Kept, WrittenOnce, Due
<1> QED
  BY <1>1, <1>2, <1>3 DEF CacheInv, AnswerKept

\* A process that ends forgets everything.
LEMMA EndKeepsInv == CacheInv /\ EndProcess => CacheInv' /\ AnswerKept
<1> SUFFICES ASSUME CacheInv, EndProcess PROVE CacheInv' /\ AnswerKept
  OBVIOUS
<1>1. HistoryTyped'
  BY FS_EmptySet DEF EndProcess, HistoryTyped
<1>2. Ordered(cache, last, others)' /\ Len(cache') <= CacheCapacity
  BY GatewayAssumption DEF EndProcess, Ordered
<1>3. Kept' /\ WrittenOnce' /\ Serving'
  BY GatewayAssumption DEF EndProcess, Kept, WrittenOnce, Serving, Due
<1>4. AnswerKept
  BY DEF EndProcess, AnswerKept
<1> QED
  BY <1>1, <1>2, <1>3, <1>4 DEF CacheInv

\* So does the history, when a new answer is put on top of the others.
LEMMA AnsweredKeepsWritten ==
  ASSUME CacheInv, NEW i \in Ids, NEW answer \in Answers,
         last' = [last EXCEPT ![i] = answer], Remembers(i),
         current \in {i, Nothing}, UNCHANGED expired, lapsed' \subseteq lapsed \ {current}
  PROVE  WrittenOnce'
<1> SUFFICES ASSUME NEW j \in SideEffects, written'[j] # 0
             PROVE  written'[j] <= 1 /\ Due(j)' /\ (j \in lapsed' => j \in expired')
  BY DEF WrittenOnce
<1>1. HistoryTyped /\ j \in Ids /\ Nothing \notin Ids
  BY GatewayAssumption DEF CacheInv, Nothing
<1>2. Cardinality(others'[j]) < CacheCapacity /\ written'[j] = written[j]
  BY <1>1, DueBefore
<1>3. written[j] = 1
  BY <1>1, <1>2 DEF CacheInv, WrittenOnce, HistoryTyped
<1>4. j \in lapsed' => j \in expired'
  BY <1>3 DEF CacheInv, WrittenOnce
<1>5. CASE j = i
  <2>1. Due(i)'
    BY <1>1, DueBefore
  <2> QED
    BY <1>2, <1>3, <1>4, <1>5, <2>1 DEF Due
<1>6. CASE j # i
  <2>1. Due(j)
    BY <1>1, <1>3, <1>6 DEF CacheInv, WrittenOnce
  <2>2. last'[j] = last[j]
    BY <1>1, <1>6 DEF HistoryTyped
  <2> QED
    BY <1>2, <1>3, <1>4, <2>1, <2>2 DEF Due
<1> QED
  BY <1>5, <1>6

\* An answer that was not cached: the oldest gives way only when as many
\* others follow it as the cache holds.
LEMMA FinishKeepsInv ==
  ASSUME CacheInv, NEW i \in Ids, NEW answer \in Answers, ~Cached(i),
         current \in {i, Nothing}, Finish(i, answer),
         queue' \in Seq(Messages), UNCHANGED expired
  PROVE  CacheInv' /\ AnswerKept
<1> DEFINE e == [id |-> i, answer |-> answer]
           items == Append(Purged, e)
<1>1. /\ cache' = IF Len(items) > CacheCapacity THEN Tail(items) ELSE items
      /\ lapsed' = lapsed \ {i}
      /\ last' = [last EXCEPT ![i] = answer] /\ Remembers(i)
      /\ pc' = "commands" /\ current' = Nothing
  BY DEF Finish, AfterPut
<1>2. /\ HistoryTyped /\ Ordered(Purged, last, others) /\ Len(Purged) <= CacheCapacity
      /\ \A m \in 1..Len(cache) :
           cache[m].id \notin lapsed => \E k \in 1..Len(Purged) : Purged[k] = cache[m]
  BY PurgedOrdered DEF CacheInv
<1>3. (\A k \in 1..Len(Purged) : Purged[k].id # i) /\ (Due(i) => i \in lapsed)
  BY MissMeansNew
<1>4. Ordered(items, last', others')
  BY <1>1, <1>2, <1>3, AppendOrdered
<1>5. Purged \in Seq(Entries) /\ e \in Entries /\ e.id = i
  BY <1>2 DEF Ordered, Entries
<1>6. /\ items # <<>> /\ Len(items) = Len(Purged) + 1 /\ items[Len(items)] = e
      /\ \A k \in 1..Len(Purged) : items[k] = Purged[k]
  <2> HIDE DEF e
  <2> QED
    BY <1>5
<1>7. Len(Purged) \in Nat /\ CacheCapacity \in Nat \ {0}
  BY <1>5, GatewayAssumption
<1> HIDE DEF items, e
<1>8. HistoryTyped'
  BY <1>1, <1>2, RemembersTyped DEF HistoryTyped
<1>9. Ordered(cache', last', others') /\ Len(cache') <= CacheCapacity
  <2>1. CASE Len(items) > CacheCapacity
    BY <1>1, <1>2, <1>4, <1>6, <1>7, <2>1, TailOrdered
  <2>2. CASE ~(Len(items) > CacheCapacity)
    BY <1>1, <1>4, <1>6, <1>7, <2>2
  <2> QED
    BY <2>1, <2>2
<1>10. ASSUME NEW j \in Ids, Due(j)', NEW k \in 1..Len(items), items[k].id = j
       PROVE  \E m \in 1..Len(cache') : cache'[m].id = j
  <2>1. CASE Len(items) > CacheCapacity
    <3>1. k # 1
      <4>1. SUFFICES ASSUME k = 1 PROVE FALSE
        OBVIOUS
      <4>2. j = items[1].id /\ IsFiniteSet(others'[j])
        BY <1>8, <1>10, <4>1 DEF HistoryTyped
      <4>3. Cardinality(others'[j]) >= Len(items) - 1
        BY <1>4, <1>6, <4>2, FollowersCount
      <4>4. Cardinality(others'[j]) \in Nat /\ Cardinality(others'[j]) < CacheCapacity
        BY <1>10, <4>2, FS_CardinalityType DEF Due
      <4> QED
        BY <1>6, <1>7, <2>1, <4>3, <4>4
    <3>2. PICK m \in 1..Len(Tail(items)) : Tail(items)[m] = items[k]
      BY <1>4, <1>6, <3>1, TailOrdered
    <3> QED
      BY <1>1, <1>10, <2>1, <3>2
  <2>2. CASE ~(Len(items) > CacheCapacity)
    BY <1>1, <1>10, <2>2
  <2> QED
    BY <2>1, <2>2
<1>11. Kept'
  <2> SUFFICES ASSUME NEW j \in Ids, Due(j)', j \notin lapsed'
               PROVE  \E m \in 1..Len(cache') : cache'[m].id = j
    BY DEF Kept
  <2>1. CASE j = i
    <3>1. Len(items) \in 1..Len(items) /\ items[Len(items)].id = j
      BY <1>5, <1>6, <1>7, <2>1
    <3> QED
      BY <1>10, <3>1
  <2>2. CASE j # i
    <3>1. Due(j) /\ j \notin lapsed
      BY <1>1, <1>2, <2>2, DueBefore
    <3>2. PICK m \in 1..Len(cache) : cache[m].id = j
      BY <3>1 DEF CacheInv, Kept
    <3>3. PICK k \in 1..Len(Purged) : Purged[k] = cache[m]
      BY <1>2, <3>1, <3>2
    <3>4. k \in 1..Len(items) /\ items[k].id = j
      BY <1>6, <1>7, <3>2, <3>3
    <3> QED
      BY <1>10, <3>4
  <2> QED
    BY <2>1, <2>2
<1>12. WrittenOnce'
  <2>1. lapsed' \subseteq lapsed \ {current}
    BY <1>1, <1>2, GatewayAssumption DEF HistoryTyped, Nothing
  <2> QED
    BY <1>1, <2>1, AnsweredKeepsWritten
<1>13. Serving'
  BY <1>1 DEF Serving
<1>14. AnswerKept
  <2> SUFFICES ASSUME NEW j \in Ids, last[j] # Nothing, last'[j] \notin {last[j], Nothing},
                      j \notin lapsed
               PROVE  Cardinality(others[j]) >= CacheCapacity
    BY DEF AnswerKept
  <2>1. j = i /\ IsFiniteSet(others[j])
    BY <1>1, <1>2 DEF HistoryTyped
  <2>2. Cardinality(others[j]) \in Nat /\ ~(Cardinality(others[j]) < CacheCapacity)
    BY <1>3, <2>1, FS_CardinalityType DEF Due
  <2> QED
    BY <1>7, <2>2
<1> QED
  BY <1>8, <1>9, <1>11, <1>12, <1>13, <1>14 DEF CacheInv

\* A hit is answered as before, and becomes the latest.
LEMMA ReplayKeepsInv == CacheInv /\ Replay => CacheInv' /\ AnswerKept
<1> SUFFICES ASSUME CacheInv, Replay PROVE CacheInv' /\ AnswerKept
  OBVIOUS
<1> DEFINE i == Head(queue).id
           p == Place(i)
           rest == RemoveAt(Purged, p)
           e == [id |-> i, answer |-> last[i]]
<1>1. /\ queue # <<>> /\ queue' = Tail(queue) /\ pc = "commands"
      /\ UNCHANGED <<expired, lapsed, pc, current>>
  BY DEF Replay, TakenFromQueue
<1>2. queue \in Seq(Messages)
  BY DEF CacheInv, HistoryTyped
<1>3. i \in Ids /\ queue' \in Seq(Messages)
  <2>1. Head(queue) \in Messages /\ Tail(queue) \in Seq(Messages)
    BY <1>1, <1>2
  <2> QED
    BY <1>1, <2>1 DEF Messages
<1>4. /\ Cached(i)
      /\ cache' = Append(rest, AnswerFor(i))
      /\ last' = [last EXCEPT ![i] = AnswerFor(i).answer]
      /\ Remembers(i)
  BY DEF Replay, AfterGet
<1> HIDE DEF i
<1>5. p \in 1..Len(Purged) /\ Purged[p] = e /\ last[i] \in Answers
  BY <1>3, <1>4, HitIsLast
<1>6. AnswerFor(i) = e /\ AnswerFor(i).answer = last[i] /\ Purged[p].id = i
  BY <1>5 DEF AnswerFor
<1> HIDE DEF p
<1>7. /\ HistoryTyped /\ Ordered(Purged, last, others) /\ Len(Purged) <= CacheCapacity
      /\ \A m \in 1..Len(cache) :
           cache[m].id \notin lapsed => \E k \in 1..Len(Purged) : Purged[k] = cache[m]
  BY PurgedOrdered DEF CacheInv
<1>8. /\ Ordered(rest, last, others) /\ Len(rest) = Len(Purged) - 1
      /\ \A k \in 1..Len(rest) : rest[k].id # i
      /\ \A k \in 1..Len(Purged) : k # p => \E m \in 1..Len(rest) : rest[m] = Purged[k]
  <2>1. /\ Ordered(rest, last, others) /\ Len(rest) = Len(Purged) - 1
        /\ \A k \in 1..Len(rest) : rest[k].id # Purged[p].id
        /\ \A k \in 1..Len(Purged) : k # p => \E m \in 1..Len(rest) : rest[m] = Purged[k]
    BY <1>5, <1>7, RemoveOrdered
  <2> QED
    BY <1>6, <2>1
<1> HIDE DEF rest
<1>9. last' = [last EXCEPT ![i] = last[i]]
  BY <1>4, <1>6
<1>10. Ordered(cache', last', others')
  <2>1. Ordered(Append(rest, [id |-> i, answer |-> last[i]]), last', others')
    BY <1>3, <1>4, <1>5, <1>7, <1>8, <1>9, AppendOrdered
  <2> QED
    BY <1>4, <1>6, <2>1
<1>11. /\ Len(cache') = Len(Purged) /\ cache'[Len(cache')].id = i /\ Len(cache') \in 1..Len(cache')
       /\ \A m \in 1..Len(rest) : m \in 1..Len(cache') /\ cache'[m] = rest[m]
  <2>1. rest \in Seq(Entries) /\ e \in Entries /\ e.id = i /\ Len(Purged) \in Nat
    BY <1>3, <1>5, <1>7, <1>8 DEF Ordered, Entries
  <2>2. cache' = Append(rest, e)
    BY <1>4, <1>6
  <2> HIDE DEF e
  <2> QED
    BY <1>8, <2>1, <2>2
<1>12. HistoryTyped'
  BY <1>1, <1>3, <1>4, <1>5, <1>7, <1>9, RemembersTyped DEF HistoryTyped
<1>13. Kept'
  <2> SUFFICES ASSUME NEW j \in Ids, Due(j)', j \notin lapsed'
               PROVE  \E m \in 1..Len(cache') : cache'[m].id = j
    BY DEF Kept
  <2>1. CASE j = i
    BY <1>11, <2>1
  <2>2. CASE j # i
    <3>1. Due(j) /\ j \notin lapsed
      BY <1>1, <1>3, <1>4, <1>5, <1>7, <1>9, <2>2, DueBefore
    <3>2. PICK m \in 1..Len(cache) : cache[m].id = j
      BY <3>1 DEF CacheInv, Kept
    <3>3. PICK k \in 1..Len(Purged) : Purged[k] = cache[m]
      BY <1>7, <3>1, <3>2
    <3>4. k # p
      BY <1>6, <2>2, <3>2, <3>3
    <3>5. PICK n \in 1..Len(rest) : rest[n] = Purged[k]
      BY <1>8, <3>4
    <3> QED
      BY <1>11, <3>2, <3>3, <3>5
  <2> QED
    BY <2>1, <2>2
<1>14. current = Nothing
  BY <1>1 DEF CacheInv, Serving
<1>15. WrittenOnce'
  <2>1. UNCHANGED expired /\ lapsed' \subseteq lapsed \ {current}
    BY <1>1, <1>7, <1>14, GatewayAssumption DEF HistoryTyped, Nothing
  <2> QED
    BY <1>3, <1>4, <1>5, <1>9, <1>14, <2>1, AnsweredKeepsWritten
<1>16. Serving'
  BY <1>1, <1>14 DEF Serving
<1>17. Len(cache') <= CacheCapacity
  BY <1>7, <1>11
<1>18. AnswerKept
  BY <1>7, <1>9 DEF AnswerKept, HistoryTyped
<1> QED
  BY <1>10, <1>12, <1>13, <1>15, <1>16, <1>17, <1>18 DEF CacheInv

\* A command that goes to the device has not been written, or is forgotten.
LEMMA ExecuteKeepsInv == CacheInv /\ Execute => CacheInv' /\ AnswerKept
<1> SUFFICES ASSUME CacheInv, Execute PROVE CacheInv' /\ AnswerKept
  OBVIOUS
<1> DEFINE i == Head(queue).id
<1>1. /\ queue # <<>> /\ queue' = Tail(queue) /\ pc = "commands" /\ pc' = "executing"
      /\ ~Cached(i) /\ Objection(Head(queue)) = Nothing
      /\ Begin(i, i \notin SideEffects) /\ Writes(i) /\ current' = i
      /\ cache' = Purged
      /\ UNCHANGED <<expired, lapsed, last, others>>
  BY DEF Execute
<1>2. queue \in Seq(Messages)
  BY DEF CacheInv, HistoryTyped
<1>3. i \in Ids /\ queue' \in Seq(Messages)
  <2>1. Head(queue) \in Messages /\ Tail(queue) \in Seq(Messages)
    BY <1>1, <1>2
  <2> QED
    BY <1>1, <2>1 DEF Messages
<1>4. i \notin expired
  BY <1>1 DEF Objection, Nothing
<1> HIDE DEF i
<1>5. /\ HistoryTyped /\ Ordered(Purged, last, others) /\ Len(Purged) <= CacheCapacity
      /\ \A m \in 1..Len(cache) :
           cache[m].id \notin lapsed => \E k \in 1..Len(Purged) : Purged[k] = cache[m]
  BY PurgedOrdered DEF CacheInv
<1>6. (\A k \in 1..Len(Purged) : Purged[k].id # i) /\ (Due(i) => i \in lapsed)
  BY <1>1, <1>3, MissMeansNew
<1>7. current = Nothing /\ current \notin Ids
  BY <1>1, GatewayAssumption DEF CacheInv, Serving, Nothing
<1>8. i \in SideEffects => written[i] = 0
  BY <1>3, <1>4, <1>5, <1>6, <1>7 DEF CacheInv, WrittenOnce, HistoryTyped
<1>9. HistoryTyped'
  BY <1>1, <1>3, <1>5 DEF HistoryTyped, Writes
<1>10. Kept'
  <2> SUFFICES ASSUME NEW j \in Ids, Due(j), j \notin lapsed
               PROVE  \E k \in 1..Len(Purged) : Purged[k].id = j
    BY <1>1 DEF Kept, Due
  <2>1. PICK m \in 1..Len(cache) : cache[m].id = j
    BY DEF CacheInv, Kept
  <2> QED
    BY <1>5, <2>1
<1>11. WrittenOnce'
  <2> SUFFICES ASSUME NEW j \in SideEffects
               PROVE  /\ written'[j] <= 1 /\ (written'[j] = 1 => current' = j \/ Due(j)')
                      /\ j \in lapsed' => j \in expired' \/ written'[j] = 0 \/ current' = j
    BY DEF WrittenOnce
  <2>1. CASE j = i
    <3>1. written'[j] = written[j] \/ written'[j] = written[j] + 1
      BY <1>1, <1>5, <2>1 DEF Writes, HistoryTyped
    <3> QED
      BY <1>1, <1>8, <2>1, <3>1
  <2>2. CASE j # i
    <3>1. written'[j] = written[j] /\ (Due(j)' <=> Due(j)) /\ j \in Ids
      BY <1>1, <1>5, <2>2, GatewayAssumption DEF Writes, HistoryTyped, Due
    <3> QED
      BY <1>1, <1>7, <3>1 DEF CacheInv, WrittenOnce
  <2> QED
    BY <2>1, <2>2
<1>12. Serving'
  <2>1. i \in SideEffects => request'.left = 0
    BY <1>1 DEF Begin, Send, Attempts
  <2> QED
    BY <1>1, <1>3, <1>6, <2>1 DEF Serving
<1>13. Ordered(cache', last', others') /\ Len(cache') <= CacheCapacity
  BY <1>1, <1>5
<1>14. AnswerKept
  BY <1>1 DEF AnswerKept
<1> QED
  BY <1>9, <1>10, <1>11, <1>12, <1>13, <1>14 DEF CacheInv

\* A request that is waited for: no side effect is written again.
LEMMA AwaitingKeepsInv == CacheInv /\ Awaiting => CacheInv' /\ AnswerKept
<1> SUFFICES ASSUME CacheInv, Awaiting PROVE CacheInv' /\ AnswerKept
  OBVIOUS
<1>1. /\ UNCHANGED <<cache, lapsed, last, others, queue, expired, pc, current>>
      /\ queue \in Seq(Messages)
  BY DEF Awaiting, loopVars, brokerVars, CacheInv, HistoryTyped
<1>2. CASE Retry /\ Writes(current)
  <2>1. current \notin SideEffects
    <3>1. request # NoRequest /\ request.left > 0
      BY <1>2 DEF Retry
    <3>2. current \in SideEffects => pc = "executing"
      BY GatewayAssumption DEF CacheInv, Serving, Nothing
    <3> QED
      BY <3>1, <3>2 DEF CacheInv, Serving
  <2>2. UNCHANGED written
    BY <1>2, <2>1 DEF Writes
  <2>3. Serving'
    BY <1>1, <2>1 DEF CacheInv, Serving
  <2> QED
    BY <1>1, <2>2, <2>3, QuietKeepsInv
<1>3. CASE PassOver /\ UNCHANGED written
  <2>1. Serving'
    BY <1>1, <1>3 DEF CacheInv, Serving, PassOver
  <2> QED
    BY <1>1, <1>3, <2>1, QuietKeepsInv
<1> QED
  BY <1>2, <1>3 DEF Awaiting

\* The end of a command the device was asked for.
LEMMA ExecutedKeepsInv == CacheInv /\ Executed => CacheInv' /\ AnswerKept
<1> SUFFICES ASSUME CacheInv, Executed PROVE CacheInv' /\ AnswerKept
  OBVIOUS
<1>1. PICK answer \in Answers : Finish(current, answer)
  BY DEF Executed, Answers
<1>2. pc = "executing" /\ UNCHANGED <<queue, expired>> /\ queue \in Seq(Messages)
  BY DEF Executed, brokerVars, CacheInv, HistoryTyped
<1>3. current \in Ids /\ \A k \in 1..Len(cache) : cache[k].id # current
  BY <1>2 DEF CacheInv, Serving
<1>4. ~Cached(current)
  <2>1. /\ Purged \in Seq(Entries)
        /\ \A k \in 1..Len(Purged) : \E m \in 1..Len(cache) : Purged[k] = cache[m]
    BY PurgedOrdered DEF CacheInv, Ordered
  <2> QED
    BY <1>3, <2>1 DEF Cached, IdsOf, ToSet
<1> QED
  BY <1>1, <1>2, <1>3, <1>4, FinishKeepsInv

\* A command that is refused without the device.
LEMMA RejectKeepsInv == CacheInv /\ Reject => CacheInv' /\ AnswerKept
<1> SUFFICES ASSUME CacheInv, Reject PROVE CacheInv' /\ AnswerKept
  OBVIOUS
<1>1. /\ pc = "commands" /\ queue # <<>> /\ queue' = Tail(queue) /\ UNCHANGED expired
      /\ ~Cached(Head(queue).id) /\ Finish(Head(queue).id, Objection(Head(queue)))
      /\ Objection(Head(queue)) # Nothing
  BY DEF Reject, TakenFromQueue
<1>2. Head(queue) \in Messages /\ queue' \in Seq(Messages)
  BY <1>1 DEF CacheInv, HistoryTyped
<1>3. Head(queue).id \in Ids
  BY <1>2 DEF Messages
<1>4. Objection(Head(queue)) \in Answers
  BY <1>1 DEF Objection, Answers, Nothing
<1>5. current = Nothing
  BY <1>1 DEF CacheInv, Serving
<1> QED
  BY <1>1, <1>2, <1>3, <1>4, <1>5, FinishKeepsInv

\* Everything else the process does between two commands.
LEMMA ElseKeepsInv ==
  ASSUME CacheInv,
         \/ Start \/ LoopHead \/ Poll \/ Connect \/ Ask \/ StepDone \/ ConnectFails \/ StopStream
         \/ PollFails \/ Stop \/ Kill
  PROVE  CacheInv' /\ AnswerKept
<1>1. queue \in Seq(Messages)
  BY DEF CacheInv, HistoryTyped
<1>2. CASE EndProcess
  BY <1>2, EndKeepsInv
<1>3. ASSUME UNCHANGED <<cacheVars, queue, expired, current>>, pc # "executing", pc' # "executing"
      PROVE  CacheInv' /\ AnswerKept
  <2>1. Serving'
    BY <1>3 DEF CacheInv, Serving
  <2> QED
    BY <1>1, <1>3, <2>1, QuietKeepsInv DEF cacheVars
<1>4. CASE Start \/ LoopHead \/ Poll \/ Connect \/ Ask \/ StepDone
  BY <1>3, <1>4
  DEF Start, LoopHead, Poll, Connect, Ask, StepDone, Connected, ToLoopHead,
      loopVars, brokerVars
<1>5. CASE ConnectFails \/ StopStream \/ PollFails \/ Stop \/ Kill
  BY <1>2, <1>3, <1>5
  DEF ConnectFails, StopStream, PollFails, Stop, Kill, EndsPublishing, ToLoopHead, brokerVars
<1> QED
  BY <1>4, <1>5

\* A result that lapses is due no longer, unless its command cannot come again.
LEMMA LapseKeepsInv ==
  ASSUME CacheInv, NEW i \in Ids, Lapse(i)
  PROVE  CacheInv' /\ AnswerKept
<1>1. /\ UNCHANGED <<cache, last, others, queue, expired, current, pc, request>>
      /\ lapsed' = lapsed \union {i}
      /\ \/ i \in expired /\ written' = written
         \/ written' = [j \in SideEffects |-> IF j = i THEN 0 ELSE written[j]]
  BY DEF Lapse, undisturbed, loopVars, brokerVars
<1>2. HistoryTyped'
  BY <1>1 DEF CacheInv, HistoryTyped
<1>3. Ordered(cache, last, others)' /\ Len(cache') <= CacheCapacity
  BY <1>1 DEF CacheInv, Ordered
<1>4. Kept' /\ Serving'
  BY <1>1 DEF CacheInv, Kept, Due, Serving
<1>5. WrittenOnce'
  <2> SUFFICES ASSUME NEW j \in SideEffects
               PROVE  /\ written'[j] <= 1 /\ (written'[j] = 1 => current = j \/ Due(j))
                      /\ j \in lapsed' => j \in expired \/ written'[j] = 0 \/ current = j
    BY <1>1 DEF WrittenOnce, Due
  <2>1. /\ written[j] <= 1 /\ (written[j] = 1 => current = j \/ Due(j))
        /\ j \in lapsed => j \in expired \/ written[j] = 0 \/ current = j
    BY DEF CacheInv, WrittenOnce
  <2>2. written'[j] = written[j] \/ written'[j] = 0
    BY <1>1
  <2>3. j = i => j \in expired \/ written'[j] = 0
    BY <1>1
  <2> QED
    BY <1>1, <2>1, <2>2, <2>3
<1> QED
  BY <1>1, <1>2, <1>3, <1>4, <1>5 DEF CacheInv, AnswerKept

\* Outside of the main loop nothing is answered.
LEMMA OutsideKeepsInv ==
  ASSUME CacheInv,
         \/ \E i \in Ids : Expire(i) \/ Lapse(i) \/ \E retained \in BOOLEAN : Deliver(i, retained)
         \/ MqttBreaks \/ MqttCounts \/ MqttReturns
         \/ LinkStep /\ UNCHANGED <<loopVars, cacheVars, mqttVars, brokerVars>>
         \/ UNCHANGED vars
  PROVE  CacheInv' /\ AnswerKept
<1>1. queue \in Seq(Messages)
  BY DEF CacheInv, HistoryTyped
<1>2. ASSUME UNCHANGED <<cache, last, others, written, lapsed, current, pc, request>>,
             expired \subseteq expired', queue' \in Seq(Messages)
      PROVE  CacheInv' /\ AnswerKept
  <2>1. Serving'
    BY <1>2 DEF CacheInv, Serving
  <2> QED
    BY <1>2, <2>1, QuietKeepsInv
<1>3. ASSUME NEW i \in Ids, Expire(i) \/ Lapse(i) PROVE CacheInv' /\ AnswerKept
  <2>1. CASE Expire(i)
    BY <1>1, <1>2, <2>1 DEF Expire, undisturbed, loopVars, cacheVars
  <2> QED
    BY <1>3, <2>1, LapseKeepsInv
<1>4. ASSUME NEW i \in Ids, NEW retained \in BOOLEAN, Deliver(i, retained)
      PROVE  CacheInv' /\ AnswerKept
  <2>1. [id |-> i, retained |-> retained] \in Messages
    BY DEF Messages
  <2>2. queue' \in Seq(Messages)
    BY <1>1, <1>4, <2>1 DEF Deliver
  <2> QED
    BY <1>1, <1>2, <1>4, <2>2 DEF Deliver, undisturbed, loopVars, cacheVars
<1>5. CASE MqttBreaks \/ MqttCounts \/ MqttReturns \/ UNCHANGED vars
  BY <1>1, <1>2, <1>5
  DEF MqttBreaks, MqttCounts, MqttReturns, vars, undisturbed, clientVars, loopVars, cacheVars, brokerVars
<1>6. CASE LinkStep /\ UNCHANGED <<loopVars, cacheVars, mqttVars, brokerVars>>
  BY <1>1, <1>2, <1>6
  DEF LinkStep, DeviceExecutes, FrameLost, LineBreaks, LineReturns,
      loopVars, cacheVars, brokerVars
<1> QED
  BY <1>3, <1>4, <1>5, <1>6

\* A process that has not begun has answered nothing.
LEMMA CacheInitInv == GatewayInit => CacheInv
<1> SUFFICES ASSUME GatewayInit PROVE CacheInv
  OBVIOUS
<1>1. HistoryTyped
  BY FS_EmptySet DEF GatewayInit, HistoryTyped
<1>2. Ordered(cache, last, others) /\ Len(cache) <= CacheCapacity
  BY GatewayAssumption DEF GatewayInit, Ordered
<1>3. Kept /\ WrittenOnce /\ Serving
  BY GatewayAssumption DEF GatewayInit, Kept, WrittenOnce, Serving, Due
<1> QED
  BY <1>1, <1>2, <1>3 DEF CacheInv

\* Every step keeps the invariant, and what has been answered.
LEMMA CacheStepInv == CacheInv /\ [GatewayNext]_vars => CacheInv' /\ AnswerKept
<1> SUFFICES ASSUME CacheInv, [GatewayNext]_vars PROVE CacheInv' /\ AnswerKept
  OBVIOUS
<1>1. CASE GatewayStep
  BY <1>1, ReplayKeepsInv, RejectKeepsInv, ExecuteKeepsInv, AwaitingKeepsInv,
     ExecutedKeepsInv, ElseKeepsInv DEF GatewayStep
<1>2. CASE PollFails \/ Stop \/ Kill
  BY <1>2, ElseKeepsInv
<1> QED
  BY <1>1, <1>2, OutsideKeepsInv DEF GatewayNext

\* A side effect is written to the device at most once until its result is
\* evicted by as many others as the cache holds, or lapses while the command
\* is still in time, or the process ends
\* (gateway.py, CommandResultCache and _handle_command; device.py, request).
THEOREM WrittenAtMostOnce == GatewaySpec => []AtMostOnce
<1>1. CacheInv => AtMostOnce
  BY DEF CacheInv, WrittenOnce, AtMostOnce
<1> QED
  BY <1>1, CacheInitInv, CacheStepInv, PTL DEF GatewaySpec

\* Every copy of a command gets the answer the first one got, with the same
\* exceptions (gateway.py, CommandResultCache).
THEOREM AnswersAgree == GatewaySpec => OneAnswer
<1>1. CacheInv /\ [GatewayNext]_vars =>
        [\A i \in Ids : last[i] # Nothing /\ last'[i] \notin {last[i], Nothing}
           => Cardinality(others[i]) >= CacheCapacity \/ i \in lapsed]_vars
  BY CacheStepInv DEF AnswerKept
<1> QED
  BY <1>1, CacheInitInv, CacheStepInv, PTL DEF GatewaySpec, OneAnswer
===============================================================================
