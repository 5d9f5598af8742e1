---------------------------- MODULE ThreadStateProofs ----------------------------
(****************************************************************************)
(* Proofs about what a translator thread keeps: the caches of ExternalCache, *)
(* for all cache sizes, hashes, lifetimes and address pairs, and the        *)
(* descriptors of Descriptors, for all numbers of threads, descriptors and  *)
(* ways of sharing them.  The two have nothing in common but the module.    *)
(****************************************************************************)
EXTENDS ExternalCache, Descriptors, WellFoundedInduction, NaturalsInduction, TLAPS

(* The caches.                                                              *)

\* The time in whole seconds never goes back, and never runs ahead.
LEMMA TimestampMonotonic ==
    ASSUME NEW t \in Nat
    PROVE  /\ (t + 1) \div TICKS >= t \div TICKS
           /\ t \div TICKS \in Nat
           /\ t < (t \div TICKS) * TICKS + TICKS
           /\ t >= (t \div TICKS) * TICKS
BY DEF TICKS

\* Whole seconds are enough to keep an entry no longer than allowed.
LEMMA WholeSecondsSuffice ==
    ASSUME NEW t \in Nat, NEW since \in Nat, NEW lifetime \in Nat,
           t \div TICKS < since \div TICKS + lifetime
    PROVE  t < since + lifetime * TICKS
BY DEF TICKS

\* Every pair of addresses has a place in a cache that has any.
LEMMA PlaceExists ==
    ASSUME NEW d \in Directions, NEW k \in Kinds, NEW p \in In(d), Size(k) > 0
    PROVE  Hash(p, Size(k)) \in 0..(Size(k) - 1)
<1>1. p \in Pairs4 \cup Pairs6
  BY DEF In
<1>2. Size(k) \in {MainSize, ErrorSize} \ {0}
  BY CacheAssumption DEF Size
<1> QED
  BY <1>1, <1>2, CacheAssumption

\* Every place of a cache holds an entry.
LEMMA EntryTyped ==
    ASSUME TypeOK, NEW d \in Directions, NEW k \in Kinds, NEW i \in 0..(Size(k) - 1)
    PROVE  /\ cache[d][k][i] \in Entry
           /\ cache[d][k][i].expires \in Nat
           /\ cache[d][k][i].since \in Nat
           /\ cache[d][k][i].lifetime \in Nat
<1>1. cache[d][k] \in [0..(Size(k) - 1) -> Entry]
  BY DEF TypeOK
<1>2. cache[d][k][i] \in Entry
  BY <1>1
<1> QED
  BY <1>2 DEF Entry

LEMMA InitInv == Init => CacheInv
<1> SUFFICES ASSUME Init PROVE CacheInv
  OBVIOUS
<1>1. ZeroEntry \in Entry
  BY CacheAssumption DEF ZeroEntry, Entry, Kinds
<1>2. TypeOK
  BY <1>1, CacheAssumption DEF Init, TypeOK
<1>3. \A d \in Directions, k \in Kinds : \A i \in 0..(Size(k) - 1) : cache[d][k][i].expires = 0
  BY DEF Init, ZeroEntry
<1>4. EntriesInv
  BY <1>3 DEF EntriesInv, EntryInv
<1>5. WaitingInv /\ HitIsOwn /\ HitIsFresh /\ HitIsUsable /\ HitIsLatest
  BY DEF Init, WaitingInv, HitIsOwn, HitIsFresh, HitIsUsable, HitIsLatest
<1> QED
  BY <1>2, <1>4, <1>5 DEF CacheInv

LEMMA TickInv == CacheInv /\ Tick => CacheInv'
<1> SUFFICES ASSUME CacheInv, Tick PROVE CacheInv'
  OBVIOUS
<1>1. now \in Nat /\ now' = now + 1
  BY CacheAssumption DEF CacheInv, TypeOK, Tick
<1>2. Timestamp \in Nat /\ Timestamp' \in Nat /\ Timestamp <= Timestamp'
  BY <1>1, TimestampMonotonic DEF Timestamp, TICKS
<1>3. TypeOK'
  BY CacheAssumption DEF CacheInv, TypeOK, Tick
<1>4. ASSUME NEW d \in Directions, NEW k \in Kinds, NEW i \in 0..(Size(k) - 1)
      PROVE  EntryInv(d, k, i)'
  <2>1. EntryInv(d, k, i)
    BY DEF CacheInv, EntriesInv
  <2>2. cache[d][k][i].expires \in Nat
    BY DEF CacheInv, TypeOK, Entry
  <2>3. UNCHANGED <<cache, latest, clock>>
    BY DEF Tick
  <2> QED
    BY <1>2, <2>1, <2>2, <2>3 DEF EntryInv, InOf, OutOf, Size
<1>5. EntriesInv'
  BY <1>4 DEF EntriesInv, Size
<1>6. ASSUME waiting # NoLookup, clock, NEW i \in 0..(Size(waiting.kind) - 1),
             Matches(waiting.dir, cache[waiting.dir][waiting.kind][i], waiting.in)
      PROVE  cache[waiting.dir][waiting.kind][i].expires <= Timestamp'
  <2>1. waiting.dir \in Directions /\ waiting.kind \in Kinds
    BY <1>6 DEF CacheInv, TypeOK, Lookups
  <2>2. cache[waiting.dir][waiting.kind][i].expires \in Nat
    BY <2>1 DEF CacheInv, TypeOK, Entry
  <2>3. cache[waiting.dir][waiting.kind][i].expires <= Timestamp
    BY <1>6 DEF CacheInv, WaitingInv
  <2> QED
    BY <1>2, <2>2, <2>3
<1>7. WaitingInv'
  BY <1>6 DEF CacheInv, WaitingInv, Tick, Matches, InOf, Size
<1>8. HitIsOwn' /\ HitIsFresh' /\ HitIsUsable' /\ HitIsLatest'
  BY DEF Tick, HitIsOwn, HitIsFresh, HitIsUsable, HitIsLatest, NoHit
<1> QED
  BY <1>3, <1>5, <1>7, <1>8 DEF CacheInv

LEMMA HitInv ==
    ASSUME CacheInv, NEW d \in Directions, NEW k \in Kinds, NEW p \in In(d), Hit(d, k, p)
    PROVE  CacheInv'
<1> DEFINE i == Hash(p, Size(k))
           e == cache[d][k][i]
<1>1. i \in 0..(Size(k) - 1)
  BY PlaceExists DEF Hit
<1>2. e \in Entry
  BY <1>1, EntryTyped DEF CacheInv
<1>3. /\ InOf(d, e) = p /\ e.expires > 0 /\ Timestamp < e.expires
      /\ hit' = [dir |-> d, kind |-> k, in |-> p, out |-> OutOf(d, e), entry |-> e, at |-> now]
  BY DEF Hit, Target, KindOfCache, Matches, IsFresh
<1>4. EntryInv(d, k, i)
  BY <1>1 DEF CacheInv, EntriesInv
<1>5. TypeOK' /\ EntriesInv'
  BY DEF CacheInv, TypeOK, EntriesInv, EntryInv, Hit, Timestamp, Size, InOf, OutOf
<1>6. WaitingInv'
  BY DEF Hit, WaitingInv
<1> HIDE DEF i, e
<1>7. e.expires \in Nat /\ e.since \in Nat /\ e.lifetime \in Nat /\ now \in Nat
  BY <1>2, CacheAssumption DEF Entry, CacheInv, TypeOK
<1>8. HitIsOwn'
  BY <1>3, <1>4 DEF HitIsOwn, EntryInv, e, InOf
<1>9. HitIsFresh'
  <2>1. e.expires = e.since \div TICKS + e.lifetime
    BY <1>3, <1>4 DEF EntryInv, e
  <2>2. now < e.since + e.lifetime * TICKS
    BY <1>3, <1>7, <2>1, WholeSecondsSuffice DEF Timestamp
  <2> QED
    BY <1>3, <2>2 DEF HitIsFresh
<1>10. HitIsUsable'
  BY <1>3, <1>4 DEF HitIsUsable, EntryInv, e
<1>11. HitIsLatest'
  <2>1. Timestamp \in Nat
    BY <1>7, TimestampMonotonic DEF Timestamp
  <2>2. clock => OutOf(d, e) = latest[d][k][p]
    BY <1>3, <1>4, <1>7, <2>1 DEF EntryInv, e
  <2>3. clock' = clock /\ latest' = latest
    BY DEF Hit
  <2> QED
    BY <1>3, <2>2, <2>3 DEF HitIsLatest
<1> QED
  BY <1>5, <1>6, <1>8, <1>9, <1>10, <1>11 DEF CacheInv

LEMMA MissInv ==
    ASSUME CacheInv, NEW d \in Directions, NEW k \in Kinds, NEW p \in In(d), Miss(d, k, p)
    PROVE  CacheInv'
<1>1. /\ waiting' = [dir |-> d, kind |-> k, in |-> p] /\ hit' = NoHit
      /\ UNCHANGED <<now, cache, latest>>
      /\ clock' => clock
  <2>1. clock' \in {clock, FALSE}
    BY DEF Miss
  <2>2. clock' => clock
    BY <2>1, Zenon
  <2> QED
    BY <2>2 DEF Miss
<1>2. TypeOK'
  <2>1. waiting' \in Lookups /\ waiting'.in \in In(waiting'.dir)
    BY <1>1 DEF Lookups, In
  <2>2. clock' \in BOOLEAN /\ count' = count
    BY DEF Miss, CacheInv, TypeOK
  <2> QED
    BY <1>1, <2>1, <2>2 DEF CacheInv, TypeOK, Size, In
<1>3. EntriesInv'
  <2>1. \A f \in Directions, l \in Kinds : \A i \in 0..(Size(l) - 1) :
            EntryInv(f, l, i) => EntryInv(f, l, i)'
    BY <1>1 DEF EntryInv, InOf, OutOf, Size, Timestamp
  <2> QED
    BY <2>1 DEF CacheInv, EntriesInv, Size
<1>4. ASSUME clock', NEW i \in 0..(Size(k) - 1), Matches(d, cache[d][k][i], p)
      PROVE  cache[d][k][i].expires <= Timestamp
  <2> DEFINE e == cache[d][k][i]
  <2>1. e.expires \in Nat
    BY EntryTyped DEF CacheInv
  <2>2. Timestamp \in Nat
    <3>1. now \in Nat
      BY CacheAssumption DEF CacheInv, TypeOK
    <3> QED
      BY <3>1, TimestampMonotonic DEF Timestamp
  <2>3. EntryInv(d, k, i)
    BY DEF CacheInv, EntriesInv
  <2>4. i = Hash(p, Size(k)) /\ Size(k) \in Nat
    BY <1>4, <2>3, CacheAssumption DEF EntryInv, Matches, Size
  <2>5. Size(k) > 0
    BY <2>4
  <2>6. ~IsFresh(Target(d, k, p))
    BY <1>4, <2>4, <2>5 DEF Miss, Target, KindOfCache
  <2>7. Target(d, k, p) = e
    BY <2>4 DEF Target, KindOfCache
  <2>8. ~(Timestamp > 0 /\ Timestamp < e.expires)
    BY <2>6, <2>7 DEF IsFresh
  <2>9. Timestamp > 0
    BY <1>4, <2>3 DEF EntryInv, Matches
  <2> QED
    BY <2>1, <2>2, <2>8, <2>9
<1>5. WaitingInv'
  <2>1. count' < MaxAnswers
    BY DEF Miss
  <2> QED
    BY <1>1, <1>4, <2>1 DEF WaitingInv, Matches, InOf, Size, Timestamp
<1>6. HitIsOwn' /\ HitIsFresh' /\ HitIsUsable' /\ HitIsLatest'
  BY <1>1 DEF HitIsOwn, HitIsFresh, HitIsUsable, HitIsLatest, NoHit
<1> QED
  BY <1>2, <1>3, <1>5, <1>6 DEF CacheInv

LEMMA NoAnswerInv == CacheInv /\ NoAnswer => CacheInv'
<1> SUFFICES ASSUME CacheInv, NoAnswer PROVE CacheInv'
  OBVIOUS
<1>1. waiting' = NoLookup /\ UNCHANGED <<now, cache, hit, latest, clock, count>>
  BY DEF NoAnswer
<1>2. TypeOK' /\ EntriesInv'
  BY <1>1 DEF CacheInv, TypeOK, EntriesInv, EntryInv, Size, In, InOf, OutOf, Timestamp
<1>3. WaitingInv'
  BY <1>1 DEF WaitingInv
<1>4. HitIsOwn' /\ HitIsFresh' /\ HitIsUsable' /\ HitIsLatest'
  BY <1>1 DEF CacheInv, HitIsOwn, HitIsFresh, HitIsUsable, HitIsLatest, InOf
<1> QED
  BY <1>2, <1>3, <1>4 DEF CacheInv

\* The heart of the matter: an answer takes the place of the entry it
\* contradicts, or there is no such entry that has not expired.
LEMMA AnswerInv ==
    ASSUME CacheInv,
           NEW d \in Directions, NEW k \in Kinds, NEW p \in In(d),
           waiting = [dir |-> d, kind |-> k, in |-> p],
           NEW q \in Pairs4 \cup Pairs6, NEW lifetime \in Lifetimes, Answer(q, lifetime)
    PROVE  CacheInv'
<1> DEFINE at == Hash(p, Size(k))
           new == NewEntry(d, k, p, q, lifetime)
<1>1. /\ waiting # NoLookup /\ d \in Directions /\ k \in Kinds /\ p \in In(d)
      /\ waiting.dir = d /\ waiting.kind = k /\ waiting.in = p
  BY DEF Answer
<1>2. /\ q \in Out(d)
      /\ k = "main" => q \in Usable
      /\ latest' = [latest EXCEPT ![d][k][p] = q]
      /\ waiting' = NoLookup /\ UNCHANGED <<now, hit>>
  BY <1>1 DEF Answer
<1>3. now \in Nat /\ Timestamp \in Nat /\ lifetime \in Nat
  <2>1. now \in Nat /\ lifetime \in Nat
    BY CacheAssumption DEF CacheInv, TypeOK
  <2> QED
    BY <2>1, TimestampMonotonic DEF Timestamp
<1>4. /\ latest'[d][k][p] = q
      /\ \A f \in Directions, l \in Kinds : \A r \in In(f) :
            <<f, l, r>> # <<d, k, p>> => latest'[f][l][r] = latest[f][l][r]
  BY <1>1, <1>2 DEF CacheInv, TypeOK
<1>5. /\ DOMAIN latest' = Directions
      /\ \A f \in Directions : DOMAIN latest'[f] = Kinds
      /\ \A f \in Directions, l \in Kinds : DOMAIN latest'[f][l] = In(f)
  BY <1>1, <1>2 DEF CacheInv, TypeOK
<1>6. WaitingInv'
  BY <1>2 DEF WaitingInv
<1>7. hit = NoHit
  BY <1>1 DEF CacheInv, WaitingInv
<1>8. HitIsOwn' /\ HitIsFresh' /\ HitIsUsable' /\ HitIsLatest'
  BY <1>2, <1>7 DEF HitIsOwn, HitIsFresh, HitIsUsable, HitIsLatest, NoHit
<1>9. count' \in 0..MaxAnswers
  BY <1>1, CacheAssumption DEF CacheInv, TypeOK, WaitingInv, Answer
<1>10. \/ /\ IsCached(k, lifetime) /\ Timestamp > 0
          /\ cache' = Saved(d, k, p, q, lifetime) /\ clock' = clock
       \/ /\ ~(IsCached(k, lifetime) /\ Timestamp > 0)
          /\ cache' = cache /\ clock' = clock
       \/ cache' = cache /\ clock' = FALSE
  BY <1>1 DEF Answer
\* An entry not touched stays right: the answer, if it is for the same
\* lookup, makes it stale only if it has expired or the clock has failed.
<1>11. ASSUME NEW f \in Directions, NEW l \in Kinds, NEW i \in 0..(Size(l) - 1),
              cache'[f][l][i] = cache[f][l][i],
              clock' => clock,
              f = d /\ l = k /\ clock' /\ Matches(d, cache[d][k][i], p) =>
                  cache[d][k][i].expires <= Timestamp
       PROVE  EntryInv(f, l, i)'
  <2> DEFINE e == cache[f][l][i]
  <2>1. EntryInv(f, l, i)
    BY DEF CacheInv, EntriesInv
  <2>2. e \in Entry
    BY EntryTyped DEF CacheInv
  <2>3. InOf(f, e) \in In(f)
    BY <2>2, CacheAssumption DEF InOf, In, Entry
  <2>4. ASSUME clock', e.expires > 0
        PROVE  OutOf(f, e) = latest'[f][l][InOf(f, e)] \/ e.expires <= Timestamp
    <3>1. CASE <<f, l, InOf(f, e)>> = <<d, k, p>>
      BY <1>11, <2>4, <3>1 DEF Matches
    <3>2. CASE <<f, l, InOf(f, e)>> # <<d, k, p>>
      <4>1. latest'[f][l][InOf(f, e)] = latest[f][l][InOf(f, e)]
        BY <1>4, <2>3, <3>2
      <4> QED
        BY <1>11, <2>1, <2>4, <4>1 DEF EntryInv
    <3> QED
      BY <3>1, <3>2
  <2>5. Timestamp' = Timestamp
    BY <1>2 DEF Timestamp
  <2> QED
    BY <1>11, <2>1, <2>4, <2>5 DEF EntryInv, InOf, OutOf, Size
<1>12. CASE /\ IsCached(k, lifetime) /\ Timestamp > 0
            /\ cache' = Saved(d, k, p, q, lifetime) /\ clock' = clock
  <2>1. Size(k) > 0 /\ lifetime > 0 /\ at \in 0..(Size(k) - 1)
    BY <1>1, <1>12, PlaceExists DEF IsCached
  <2>2. new \in Entry
    <3>1. new.v4 \in Pairs4 /\ new.v6 \in Pairs6
      BY <1>1, <1>2, CacheAssumption DEF NewEntry, In, Out
    <3> QED
      BY <1>1, <1>3, <3>1 DEF NewEntry, Entry
  <2>3. cache' = [cache EXCEPT ![d][k][at] = new]
    BY <1>12 DEF Saved, KindOfCache
  <2> HIDE DEF at, new
  <2>4. cache'[d][k][at] = new
    BY <1>1, <2>1, <2>3 DEF CacheInv, TypeOK
  <2>5. \A f \in Directions, l \in Kinds : \A i \in 0..(Size(l) - 1) :
            <<f, l, i>> # <<d, k, at>> => cache'[f][l][i] = cache[f][l][i]
    BY <1>1, <2>3 DEF CacheInv, TypeOK
  <2>6. TypeOK'
    <3>1. /\ DOMAIN cache' = Directions
          /\ \A f \in Directions : DOMAIN cache'[f] = Kinds
      BY <1>1, <2>3 DEF CacheInv, TypeOK
    <3>2. ASSUME NEW f \in Directions, NEW l \in Kinds
          PROVE  cache'[f][l] \in [0..(Size(l) - 1) -> Entry]
      <4>1. cache[f][l] \in [0..(Size(l) - 1) -> Entry]
        BY DEF CacheInv, TypeOK
      <4>2. CASE f = d /\ l = k
        <5>1. cache'[f][l] = [cache[d][k] EXCEPT ![at] = new]
          BY <1>1, <2>3, <4>2 DEF CacheInv, TypeOK
        <5> QED
          BY <2>2, <4>1, <4>2, <5>1
      <4>3. CASE ~(f = d /\ l = k)
        <5>1. cache'[f][l] = cache[f][l]
          BY <1>1, <2>3, <4>3 DEF CacheInv, TypeOK
        <5> QED
          BY <4>1, <5>1
      <4> QED
        BY <4>2, <4>3
    <3> QED
      BY <1>2, <1>5, <1>9, <1>12, <3>1, <3>2 DEF CacheInv, TypeOK, Size, In
  <2>7. EntryInv(d, k, at)'
    <3>1. /\ InOf(d, new) = p /\ OutOf(d, new) = q
          /\ new.of = d /\ new.as = k
          /\ new.expires = new.since \div TICKS + new.lifetime
      BY <1>1, CacheAssumption DEF new, NewEntry, InOf, OutOf, Timestamp
    <3>2. Timestamp' = Timestamp
      BY <1>2 DEF Timestamp
    <3>3. Hash(InOf(d, new), Size(k)) = at
      BY <3>1 DEF at
    <3> QED
      BY <1>2, <1>4, <1>12, <2>4, <3>1, <3>2, <3>3 DEF EntryInv
  <2>8. ASSUME NEW f \in Directions, NEW l \in Kinds, NEW i \in 0..(Size(l) - 1),
               <<f, l, i>> # <<d, k, at>>
        PROVE  EntryInv(f, l, i)'
    <3>1. EntryInv(f, l, i)
      BY DEF CacheInv, EntriesInv
    <3>2. ~(f = d /\ l = k /\ Matches(d, cache[d][k][i], p))
      BY <2>8, <3>1 DEF EntryInv, Matches, at
    <3> QED
      BY <1>11, <1>12, <2>5, <2>8, <3>2
  <2>9. EntriesInv'
    <3>1. ASSUME NEW f \in Directions, NEW l \in Kinds, NEW i \in 0..(Size(l) - 1)
          PROVE  EntryInv(f, l, i)'
      <4>1. CASE <<f, l, i>> = <<d, k, at>>
        BY <2>7, <4>1
      <4>2. CASE <<f, l, i>> # <<d, k, at>>
        BY <2>8, <4>2
      <4> QED
        BY <4>1, <4>2
    <3> QED
      BY <3>1 DEF EntriesInv, Size
  <2> QED
    BY <1>6, <1>8, <2>6, <2>9 DEF CacheInv
<1>13. CASE cache' = cache /\ (clock' => clock) /\ clock' \in BOOLEAN
  <2>1. TypeOK'
    BY <1>2, <1>5, <1>9, <1>13 DEF CacheInv, TypeOK, Size, In
  <2>2. ASSUME NEW i \in 0..(Size(k) - 1), clock', Matches(d, cache[d][k][i], p)
        PROVE  cache[d][k][i].expires <= Timestamp
    BY <1>1, <1>13, <2>2 DEF CacheInv, WaitingInv
  <2>3. ASSUME NEW f \in Directions, NEW l \in Kinds, NEW i \in 0..(Size(l) - 1)
        PROVE  EntryInv(f, l, i)'
    BY <1>11, <1>13, <2>2
  <2>4. EntriesInv'
    BY <2>3 DEF EntriesInv, Size
  <2> QED
    BY <1>6, <1>8, <2>1, <2>4 DEF CacheInv
<1>14. clock \in BOOLEAN
  BY DEF CacheInv, TypeOK
<1>15. CASE cache' = cache /\ clock' = clock
  BY <1>13, <1>14, <1>15
<1>16. CASE cache' = cache /\ clock' = FALSE
  BY <1>13, <1>16
<1> QED
  BY <1>10, <1>12, <1>15, <1>16

\* The invariant holds in every reachable state.
THEOREM SafetyInvariant == Spec => []CacheInv
<1>1. Init => CacheInv
  BY InitInv
<1>2. CacheInv /\ [Next]_vars => CacheInv'
  <2> SUFFICES ASSUME CacheInv, [Next]_vars PROVE CacheInv'
    OBVIOUS
  <2>1. CASE Tick
    BY <2>1, TickInv
  <2>2. ASSUME NEW d \in Directions, NEW k \in Kinds, NEW p \in In(d), Hit(d, k, p)
        PROVE  CacheInv'
    BY <2>2, HitInv
  <2>3. ASSUME NEW d \in Directions, NEW k \in Kinds, NEW p \in In(d), Miss(d, k, p)
        PROVE  CacheInv'
    BY <2>3, MissInv
  <2>4. ASSUME NEW q \in Pairs4 \cup Pairs6, NEW lifetime \in Lifetimes, Answer(q, lifetime)
        PROVE  CacheInv'
    <3>1. waiting \in Lookups /\ waiting.in \in In(waiting.dir)
      BY <2>4 DEF Answer, CacheInv, TypeOK
    <3>2. PICK d \in Directions, k \in Kinds, p \in Pairs4 \cup Pairs6 :
                waiting = [dir |-> d, kind |-> k, in |-> p]
      BY <3>1 DEF Lookups
    <3>3. p \in In(d)
      BY <3>1, <3>2
    <3> QED
      BY <2>4, <3>2, <3>3, AnswerInv
  <2>5. CASE NoAnswer
    BY <2>5, NoAnswerInv
  <2>6. CASE UNCHANGED vars
    <3>1. TypeOK' /\ EntriesInv' /\ WaitingInv'
      BY <2>6 DEF CacheInv, vars, TypeOK, EntriesInv, EntryInv, WaitingInv, Matches,
                  Size, In, InOf, OutOf, Timestamp
    <3>2. HitIsOwn' /\ HitIsFresh' /\ HitIsUsable' /\ HitIsLatest'
      BY <2>6 DEF CacheInv, vars, HitIsOwn, HitIsFresh, HitIsUsable, HitIsLatest, InOf
    <3> QED
      BY <3>1, <3>2 DEF CacheInv
  <2> QED
    BY <2>1, <2>2, <2>3, <2>4, <2>5, <2>6 DEF Next
<1> QED
  BY <1>1, <1>2, PTL DEF Spec

\* Cached addresses are used for the direction, the kind and the addresses for
\* which the server gave them, whatever the hash does.
THEOREM HitsAreOwn == Spec => []HitIsOwn
BY SafetyInvariant, PTL DEF CacheInv

\* Cached addresses are never used for longer than the server allowed.
THEOREM HitsAreFresh == Spec => []HitIsFresh
BY SafetyInvariant, PTL DEF CacheInv

\* What comes out of the cache for a whole packet has passed the check for
\* unusable addresses.
THEOREM HitsAreUsable == Spec => []HitIsUsable
BY SafetyInvariant, PTL DEF CacheInv

\* While the time can be read, a hit is the last word of the server.
THEOREM HitsAreLatest == Spec => []HitIsLatest
BY SafetyInvariant, PTL DEF CacheInv

\* The types of the cache's variables.
THEOREM TypeCorrect == Spec => []TypeOK
BY SafetyInvariant, PTL DEF CacheInv

-----------------------------------------------------------------------------
(* The table of descriptors.  What a number stands for depends on whom the  *)
(* kernel gave it to last, so that the invariant says of every number who   *)
(* knows it, at every place a thread may be.                                *)

\* A number stands for what it was given for, for a thread's socket, or for nothing.
OpenInv ==
    \A fd \in Fds :
        /\ open[fd] \in {Closed, Given(fd)} \cup {SocketOf(i) : i \in Threads}
        /\ open[fd] = Given(fd) => fd \in GivenFds(setup)

\* The numbers of thread i's sockets.
SocketsAre(i, numbers) == \A fd \in Fds : open[fd] = SocketOf(i) <=> fd \in numbers

\* A thread that connects for itself has one socket, the one it knows of, or none.
ConnectingInv(i) ==
    /\ readFd[i] = writeFd[i]
    /\ pc[i] \in {"idle", "use", "closeRead"} => socketFd[i] = NONE /\ SocketsAre(i, {readFd[i]})
    /\ pc[i] \in {"closeWrite", "forget", "open"} => socketFd[i] = NONE /\ SocketsAre(i, {})
    /\ pc[i] \in {"open", "connect", "closeSocket", "stored", "forgotten"} => readFd[i] = NONE
    /\ pc[i] \in {"connect", "closeSocket", "stored"} =>
         socketFd[i] # NONE /\ SocketsAre(i, {socketFd[i]})
    /\ pc[i] = "forgotten" => SocketsAre(i, {})
    /\ pc[i] = "ended" =>
         \A fd \in Fds : open[fd] = SocketOf(i) => fd \in {readFd[i], socketFd[i]}
    /\ pc[i] # "crashed"

\* A thread with inherited descriptors has closed what it is about to forget.
InheritingInv(i) ==
    /\ {readFd[i], writeFd[i]} \subseteq ServerFds(setup) \cup {NONE}
    /\ socketFd[i] = NONE
    /\ pc[i] \notin {"connect", "closeSocket", "forgotten", "stored"}
    /\ pc[i] \in {"closeWrite", "forget"} /\ readFd[i] # NONE => open[readFd[i]] = Closed
    /\ pc[i] = "forget" /\ writeFd[i] # NONE => open[writeFd[i]] = Closed

\* What is inherited and still open is on somebody's list.
InheritedInv ==
    /\ \A i \in Threads : InheritingInv(i)
    /\ \A fd \in Fds : open[fd] = Closed \/ open[fd] = Given(fd)
    /\ \A fd \in Fds : open[fd] = Given(fd) =>
         \E i \in Threads : fd \in PairOf(setup.packet[i]) \cup {readFd[i], writeFd[i]}

\* Until the main thread frees them, the descriptors for packets stay open.
PacketInv ==
    main[1] \in {"running", "stopping", "crashed"} =>
        \A i \in Threads : \A fd \in PairOf(setup.packet[i]) \ ServerFds(setup) : open[fd] = Given(fd)

\* What the main thread has still to close, when it is at a thread and a descriptor.
StillToClose(thread, number) ==
    {fd \in Fds : \E t \in Threads, n \in 1..4 :
        (t > thread \/ (t = thread /\ n >= number)) /\ fd = ToClose(t)[n]}

IsAbandoned(fd) == \E i \in Threads : open[fd] = SocketOf(i) /\ socketFd[i] = fd

\* Nothing is freed while a thread runs, and what is open will be freed.
MainInv ==
    /\ main[1] \in {"freeing", "done"} => \A i \in Threads : pc[i] \in {"ended", "crashed"}
    /\ main[1] = "freeing" =>
         \A fd \in Fds : open[fd] # Closed => fd \in StillToClose(main[2], main[3]) \/ IsAbandoned(fd)
    /\ main[1] = "done" => \A fd \in Fds : open[fd] # Closed => IsAbandoned(fd)
    /\ main[1] = "crashed" => \E i \in Threads : pc[i] = "crashed"

DescriptorsInv ==
    /\ DescriptorsTypeOK /\ OpenInv
    /\ IF setup.inherited THEN InheritedInv ELSE \A i \in Threads : ConnectingInv(i)
    /\ PacketInv /\ MainInv
-----------------------------------------------------------------------------
LEMMA DifferentMeanings ==
    ASSUME NEW fd \in Fds, NEW i \in Threads, NEW j \in Threads
    PROVE  /\ Closed # Given(fd) /\ Closed # SocketOf(i) /\ Given(fd) # SocketOf(i)
           /\ SocketOf(i) = SocketOf(j) => i = j
BY DEF Closed, Given, SocketOf

LEMMA SetupTyped ==
    ASSUME DescriptorsTypeOK
    PROVE  /\ setup.inherited \in BOOLEAN
           /\ setup.packet \in [Threads -> Fds \X Fds]
           /\ setup.external \in [Threads -> (Fds \cup {NONE}) \X (Fds \cup {NONE})]
           /\ \A i \in Threads :
                setup.external[i] \in IF setup.inherited THEN Fds \X Fds ELSE {<<NONE, NONE>>}
<1>1. setup \in Setups
  BY DEF DescriptorsTypeOK
<1> QED
  BY <1>1, DescriptorsAssumption

\* Any set of numbers has a lowest one.
LEMMA LowestExists ==
    ASSUME NEW free \in SUBSET Nat, free # {}
    PROVE  Lowest(free) \in free /\ \A other \in free : Lowest(free) <= other
<1> DEFINE R == {ss \in Nat \X Nat : ss[1] < ss[2]}
<1>0. IsWellFoundedOn(OpToRel(<, Nat), Nat)
  BY NatLessThanWellFounded
<1>1. IsWellFoundedOn(R, Nat)
  BY <1>0 DEF OpToRel
<1> HIDE DEF R
<1>2. PICK fd \in free : \A other \in free : ~(<<other, fd>> \in R)
  BY <1>1, WFMin
<1>3. ASSUME NEW other \in free PROVE fd <= other
  <2>1. other \in Nat /\ fd \in Nat
    OBVIOUS
  <2>2. other < fd => <<other, fd>> \in R
    <3>1. <<other, fd>> \in Nat \X Nat
      BY <2>1
    <3>2. <<other, fd>>[1] = other /\ <<other, fd>>[2] = fd
      OBVIOUS
    <3> QED
      BY <3>1, <3>2 DEF R
  <2> QED
    BY <1>2, <2>1, <2>2
<1> QED
  BY <1>3 DEF Lowest

LEMMA SocketTyped ==
    ASSUME DescriptorsTypeOK, NEW i \in Threads, Socket(i)
    PROVE  Lowest(Free) \in Fds /\ open[Lowest(Free)] = Closed
<1>1. Free # {} /\ Free \subseteq Fds
  BY DEF Socket, Free
<1>2. Lowest(Free) \in Free
  BY <1>1, LowestExists, DescriptorsAssumption
<1> QED
  BY <1>2 DEF Free

Places == {"idle", "use", "closeRead", "closeWrite", "forget", "open", "connect",
           "closeSocket", "forgotten", "stored", "ended", "crashed"}
Meanings == {Closed} \cup {Given(fd) : fd \in Fds} \cup {SocketOf(i) : i \in Threads}

LEMMA TypeParts ==
    DescriptorsTypeOK =>
        /\ setup \in Setups
        /\ pc \in [Threads -> Places] /\ open \in [Fds -> Meanings]
        /\ readFd \in [Threads -> Fds \cup {NONE}] /\ writeFd \in [Threads -> Fds \cup {NONE}]
        /\ socketFd \in [Threads -> Fds \cup {NONE}]
        /\ told \in [Threads -> BOOLEAN]
BY DEF DescriptorsTypeOK, Places, Meanings

LEMMA CloseTyped ==
    ASSUME DescriptorsTypeOK, NEW fd
    PROVE  AfterClose(fd) \in [Fds -> Meanings]
<1>1. open \in [Fds -> Meanings] /\ Closed \in Meanings
  BY TypeParts DEF Meanings
<1> QED
  BY <1>1 DEF AfterClose

\* A thread's step keeps the types of all variables.
LEMMA ThreadTyped ==
    ASSUME DescriptorsTypeOK, NEW i \in Threads, Thread(i), pc[i] = "stored" => socketFd[i] # NONE
    PROVE  DescriptorsTypeOK'
<1> DEFINE Typed ==
      /\ open' \in [Fds -> Meanings] /\ pc' \in [Threads -> Places]
      /\ readFd' \in [Threads -> Fds \cup {NONE}] /\ writeFd' \in [Threads -> Fds \cup {NONE}]
      /\ socketFd' \in [Threads -> Fds \cup {NONE}]
      /\ \A t \in Threads : pc'[t] = "use" => readFd'[t] # NONE /\ writeFd'[t] # NONE
      /\ UNCHANGED <<setup, told, main>>
<1> SUFFICES Typed
  BY DescriptorsAssumption, TypeParts DEF DescriptorsTypeOK, Meanings, Places
<1>0. /\ pc \in [Threads -> Places] /\ open \in [Fds -> Meanings]
      /\ readFd \in [Threads -> Fds \cup {NONE}] /\ writeFd \in [Threads -> Fds \cup {NONE}]
      /\ socketFd \in [Threads -> Fds \cup {NONE}]
      /\ \A t \in Threads : pc[t] = "use" => readFd[t] # NONE /\ writeFd[t] # NONE
  BY TypeParts DEF DescriptorsTypeOK
<1>1. ASSUME StopReading(i) \/ StopUsing(i) \/ StopClosingRead(i) \/ StopClosingWrite(i)
             \/ StopClosingSocket(i)
      PROVE  Typed
  <2>1. \E from \in Places : Stop(i, from)
    BY <1>1 DEF StopReading, StopUsing, StopClosingRead, StopClosingWrite, StopClosingSocket, Places
  <2> QED
    BY <1>0, <2>1 DEF Stop, Goto, fds, Places
<1>2. CASE StopConnecting(i)
  BY <1>0, <1>2, CloseTyped DEF StopConnecting, Goto, Places
<1>3. CASE Lookup(i)
  BY <1>0, <1>3 DEF Lookup, Goto, FdsAreOpen, fds, Places
<1>4. ASSUME Succeed(i) \/ Fail(i) \/ NoMoreFds(i) \/ SocketFails(i) \/ Connect(i) \/ ConnectFails(i)
      PROVE  Typed
  <2>1. \E from \in Places, to \in Places \ {"use"} :
            Goto(i, from, to) /\ UNCHANGED <<setup, open, fds, told, main>>
    BY <1>4 DEF Succeed, Fail, NoMoreFds, SocketFails, AfterSocketFails, Connect, ConnectFails,
                AfterConnectFails, Places
  <2> QED
    BY <1>0, <2>1 DEF Goto, fds, Places
<1>5. ASSUME CloseRead(i) \/ CloseWrite(i) \/ CloseSocket(i) PROVE Typed
  <2>1. open' \in [Fds -> Meanings]
    BY <1>0, <1>5, CloseTyped DEF CloseRead, CloseWrite, CloseSocket
  <2>2. \E from \in Places, to \in Places \ {"use"} :
            Goto(i, from, to) /\ UNCHANGED <<setup, fds, told, main>>
    BY <1>5 DEF CloseRead, CloseWrite, CloseSocket, Places
  <2> QED
    BY <1>0, <2>1, <2>2 DEF Goto, fds, Places
<1>6. CASE Forget(i)
  BY <1>0, <1>6 DEF Forget, WithoutFd, Places
<1>7. CASE Socket(i)
  <2>1. Lowest(Free) \in Fds
    BY <1>7, SocketTyped
  <2>2. SocketOf(i) \in Meanings
    BY DEF Meanings
  <2> QED
    BY <1>0, <1>7, <2>1, <2>2 DEF Socket, Goto, Places
<1>8. CASE TryNext(i)
  BY <1>0, <1>8 DEF TryNext, Places
<1>9. CASE Store(i)
  BY <1>0, <1>9 DEF Store, Goto, Places
<1> HIDE DEF Typed
<1> QED
  BY <1>1, <1>2, <1>3, <1>4, <1>5, <1>6, <1>7, <1>8, <1>9 DEF Thread

-----------------------------------------------------------------------------
(* Threads that connect for themselves.                                     *)

\* Steps that open and close nothing, and change no number a thread knows.
Quiet(i) ==
    \/ StopReading(i) \/ StopUsing(i) \/ StopClosingRead(i) \/ StopClosingWrite(i)
    \/ StopClosingSocket(i)
    \/ Lookup(i) \/ Succeed(i) \/ Fail(i) \/ NoMoreFds(i) \/ SocketFails(i) \/ Connect(i)
    \/ ConnectFails(i)

LEMMA QuietSteps ==
    ASSUME NEW i \in Threads, Quiet(i)
    PROVE  UNCHANGED <<setup, open, readFd, writeFd, socketFd, told, main>>
BY DEF Quiet, StopReading, StopUsing, StopClosingRead, StopClosingWrite, StopClosingSocket, Stop,
       Lookup, Succeed, Fail, NoMoreFds, SocketFails, Connect, ConnectFails, fds

LEMMA NoneIsNoNumber == NONE \notin Fds
BY DescriptorsAssumption DEF NONE

LEMMA ThreadPlaces ==
    ASSUME DescriptorsTypeOK, NEW i \in Threads, Thread(i)
    PROVE  /\ pc[i] \in Places \ {"ended", "crashed"}
           /\ UNCHANGED <<setup, told, main>>
           /\ \A t \in Threads \ {i} : /\ pc'[t] = pc[t] /\ readFd'[t] = readFd[t]
                                        /\ writeFd'[t] = writeFd[t] /\ socketFd'[t] = socketFd[t]
<1>1. CASE Quiet(i)
  <2>1. UNCHANGED <<setup, open, readFd, writeFd, socketFd, told, main>>
    BY <1>1, QuietSteps
  <2>2. \E from \in Places \ {"ended", "crashed"}, to \in Places : Goto(i, from, to)
    BY <1>1 DEF Quiet, StopReading, StopUsing, StopClosingRead, StopClosingWrite,
       StopClosingSocket, Stop, Lookup, Succeed, Fail, NoMoreFds, SocketFails, Connect,
       ConnectFails, AfterSocketFails, AfterConnectFails, Places
  <2> QED
    BY <2>1, <2>2, TypeParts DEF Goto
<1>2. CASE CloseRead(i) \/ CloseWrite(i) \/ CloseSocket(i) \/ Socket(i) \/ StopConnecting(i)
  <2>1. \E from \in Places \ {"ended", "crashed"}, to \in Places : Goto(i, from, to)
    BY <1>2 DEF CloseRead, CloseWrite, CloseSocket, Socket, StopConnecting, Places
  <2> QED
    BY <1>2, <2>1, TypeParts DEF Goto, CloseRead, CloseWrite, CloseSocket, Socket, StopConnecting,
       fds
<1>3. CASE Forget(i) \/ TryNext(i) \/ Store(i)
  BY <1>3, TypeParts DEF Forget, TryNext, Store, Goto, WithoutFd, Places
<1> QED
  BY <1>1, <1>2, <1>3 DEF Thread, Quiet

\* A thread closes only sockets of its own, and opens sockets only.
LEMMA OwnNumbersOnly ==
    ASSUME DescriptorsTypeOK, NEW i \in Threads, ConnectingInv(i), Thread(i)
    PROVE  \A fd \in Fds : \/ open'[fd] = open[fd]
                           \/ open[fd] = SocketOf(i) /\ open'[fd] = Closed
                           \/ open[fd] = Closed /\ open'[fd] = SocketOf(i)
<1> USE NoneIsNoNumber
<1>0. open \in [Fds -> Meanings] /\ readFd[i] \in Fds \cup {NONE} /\ socketFd[i] \in Fds \cup {NONE}
  BY TypeParts
<1>1. CASE Quiet(i)
  BY <1>1, QuietSteps
<1>2. CASE CloseRead(i)
  BY <1>0, <1>2 DEF CloseRead, AfterClose, Goto, ConnectingInv, SocketsAre
<1>3. CASE CloseWrite(i)
  BY <1>0, <1>3 DEF CloseWrite, ConnectingInv
<1>4. CASE CloseSocket(i)
  BY <1>0, <1>4 DEF CloseSocket, AfterClose, Goto, ConnectingInv, SocketsAre
<1>5. CASE StopConnecting(i)
  BY <1>0, <1>5 DEF StopConnecting, AfterClose, Goto, ConnectingInv, SocketsAre
<1>6. CASE Socket(i)
  BY <1>0, <1>6, SocketTyped DEF Socket
<1>7. CASE Forget(i) \/ TryNext(i) \/ Store(i)
  BY <1>7 DEF Forget, TryNext, Store
<1> QED
  BY <1>1, <1>2, <1>3, <1>4, <1>5, <1>6, <1>7 DEF Thread, Quiet

\* What one thread does is of no consequence to the others.
LEMMA OthersKeepTheirSockets ==
    ASSUME DescriptorsTypeOK, NEW i \in Threads, ConnectingInv(i), Thread(i),
           NEW t \in Threads \ {i}, ConnectingInv(t)
    PROVE  ConnectingInv(t)'
<1>1. \A fd \in Fds : open'[fd] = SocketOf(t) <=> open[fd] = SocketOf(t)
  BY OwnNumbersOnly, DifferentMeanings
<1>2. pc'[t] = pc[t] /\ readFd'[t] = readFd[t] /\ writeFd'[t] = writeFd[t] /\ socketFd'[t] = socketFd[t]
  BY ThreadPlaces
<1> QED
  BY <1>1, <1>2 DEF ConnectingInv, SocketsAre

\* A thread knows of its socket after every step.
LEMMA OwnSocketKnown ==
    ASSUME DescriptorsTypeOK, ~setup.inherited, NEW i \in Threads, ConnectingInv(i), Thread(i)
    PROVE  ConnectingInv(i)'
<1> USE NoneIsNoNumber
<1>0. /\ open \in [Fds -> Meanings] /\ pc \in [Threads -> Places]
      /\ readFd \in [Threads -> Fds \cup {NONE}] /\ writeFd \in [Threads -> Fds \cup {NONE}]
      /\ socketFd \in [Threads -> Fds \cup {NONE}]
  BY TypeParts
<1>a. Closed # SocketOf(i)
  BY DEF Closed, SocketOf
<1>1. CASE StopReading(i) \/ StopUsing(i) \/ StopClosingRead(i) \/ StopClosingWrite(i)
           \/ StopClosingSocket(i)
  <2>1. \E from \in {"idle", "use", "closeRead", "closeWrite", "closeSocket"} : Stop(i, from)
    BY <1>1 DEF StopReading, StopUsing, StopClosingRead, StopClosingWrite, StopClosingSocket
  <2> QED
    BY <1>0, <2>1 DEF Stop, Goto, fds, ConnectingInv, SocketsAre
<1>2. CASE Lookup(i) \/ Succeed(i) \/ Fail(i)
  BY <1>0, <1>2 DEF Lookup, Succeed, Fail, Goto, fds, ConnectingInv, SocketsAre
<1>3. CASE SocketFails(i) \/ Connect(i) \/ ConnectFails(i) \/ NoMoreFds(i)
  BY <1>0, <1>3 DEF SocketFails, AfterSocketFails, Connect, ConnectFails, AfterConnectFails,
     NoMoreFds, Goto, fds, ConnectingInv, SocketsAre
<1>4. CASE CloseRead(i)
  BY <1>0, <1>a, <1>4 DEF CloseRead, AfterClose, Goto, fds, ConnectingInv, SocketsAre
<1>5. CASE CloseWrite(i)
  BY <1>0, <1>a, <1>5 DEF CloseWrite, Goto, fds, ConnectingInv, SocketsAre
<1>6. CASE CloseSocket(i)
  BY <1>0, <1>a, <1>6 DEF CloseSocket, AfterClose, Goto, fds, ConnectingInv, SocketsAre
<1>7. CASE StopConnecting(i)
  BY <1>0, <1>a, <1>7 DEF StopConnecting, AfterClose, Goto, ConnectingInv, SocketsAre
<1>8. CASE Socket(i)
  BY <1>0, <1>a, <1>8, SocketTyped DEF Socket, Goto, ConnectingInv, SocketsAre
<1>9. CASE Forget(i)
  BY <1>0, <1>9 DEF Forget, WithoutFd, ConnectingInv, SocketsAre
<1>10. CASE TryNext(i)
  BY <1>0, <1>10 DEF TryNext, ConnectingInv, SocketsAre
<1>11. CASE Store(i)
  BY <1>0, <1>11 DEF Store, Goto, ConnectingInv, SocketsAre
<1> QED
  BY <1>1, <1>2, <1>3, <1>4, <1>5, <1>6, <1>7, <1>8, <1>9, <1>10, <1>11 DEF Thread

-----------------------------------------------------------------------------
(* Threads with inherited descriptors.                                      *)

\* Quiet steps, and the ends they lead to.
LEMMA InheritingSteps ==
    ASSUME InheritedInv, setup.inherited, NEW i \in Threads, Thread(i)
    PROVE  Quiet(i) \/ CloseRead(i) \/ CloseWrite(i) \/ Forget(i)
<1>1. ~Socket(i)
  BY DEF Socket
<1>2. ~StopConnecting(i) /\ ~CloseSocket(i) /\ ~TryNext(i) /\ ~Store(i)
  BY DEF InheritedInv, InheritingInv, StopConnecting, CloseSocket, TryNext, Store, Goto
<1> QED
  BY <1>1, <1>2 DEF Thread, Quiet

\* They only close descriptors, and only such as were passed for the server.
LEMMA ServerFdsOnly ==
    ASSUME DescriptorsTypeOK, InheritedInv, setup.inherited, NEW i \in Threads, Thread(i)
    PROVE  \A fd \in Fds : open'[fd] = open[fd] \/ (open'[fd] = Closed /\ fd \in ServerFds(setup))
<1> USE NoneIsNoNumber
<1>0. /\ open \in [Fds -> Meanings] /\ readFd[i] \in Fds \cup {NONE}
      /\ writeFd[i] \in Fds \cup {NONE}
      /\ {readFd[i], writeFd[i]} \subseteq ServerFds(setup) \cup {NONE}
  BY TypeParts DEF InheritedInv, InheritingInv
<1>1. CASE Quiet(i)
  BY <1>1, QuietSteps
<1>2. CASE CloseRead(i)
  BY <1>0, <1>2 DEF CloseRead, AfterClose
<1>3. CASE CloseWrite(i)
  BY <1>0, <1>3 DEF CloseWrite, AfterClose
<1>4. CASE Forget(i)
  BY <1>4 DEF Forget
<1> QED
  BY <1>1, <1>2, <1>3, <1>4, InheritingSteps

\* A thread forgets only what it has closed.
LEMMA OwnDescriptorsClosed ==
    ASSUME DescriptorsTypeOK, InheritedInv, setup.inherited, NEW i \in Threads, Thread(i)
    PROVE  InheritingInv(i)'
<1> USE NoneIsNoNumber
<1>0. /\ open \in [Fds -> Meanings] /\ pc \in [Threads -> Places]
      /\ readFd \in [Threads -> Fds \cup {NONE}] /\ writeFd \in [Threads -> Fds \cup {NONE}]
      /\ socketFd \in [Threads -> Fds \cup {NONE}]
      /\ InheritingInv(i) /\ setup' = setup
  BY TypeParts, ThreadPlaces DEF InheritedInv
<1>1. CASE StopReading(i) \/ StopUsing(i) \/ StopClosingRead(i) \/ StopClosingWrite(i)
           \/ StopClosingSocket(i)
  <2>1. \E from \in Places : Stop(i, from)
    BY <1>1 DEF StopReading, StopUsing, StopClosingRead, StopClosingWrite, StopClosingSocket, Places
  <2> QED
    BY <1>0, <2>1 DEF Stop, Goto, fds, InheritingInv
<1>2. CASE Lookup(i) \/ Succeed(i) \/ Fail(i) \/ NoMoreFds(i)
  BY <1>0, <1>2 DEF Lookup, Succeed, Fail, NoMoreFds, Goto, fds, InheritingInv
<1>3. CASE SocketFails(i) \/ Connect(i) \/ ConnectFails(i)
  BY <1>0, <1>3 DEF SocketFails, Connect, ConnectFails, Goto, InheritingInv
<1>4. CASE CloseRead(i)
  BY <1>0, <1>4 DEF CloseRead, AfterClose, Goto, fds, InheritingInv
<1>5. CASE CloseWrite(i)
  BY <1>0, <1>5 DEF CloseWrite, AfterClose, Goto, fds, InheritingInv
<1>6. CASE Forget(i)
  BY <1>0, <1>6 DEF Forget, WithoutFd, InheritingInv
<1> QED
  BY <1>1, <1>2, <1>3, <1>4, <1>5, <1>6, InheritingSteps DEF Quiet

LEMMA InheritedKept ==
    ASSUME DescriptorsTypeOK, InheritedInv, setup.inherited, NEW i \in Threads, Thread(i)
    PROVE  InheritedInv'
<1>1. ASSUME NEW t \in Threads \ {i} PROVE InheritingInv(t)'
  <2>1. /\ readFd[t] \in Fds \cup {NONE} /\ writeFd[t] \in Fds \cup {NONE} /\ InheritingInv(t)
    BY TypeParts DEF InheritedInv
  <2>2. /\ setup' = setup /\ pc'[t] = pc[t]
        /\ readFd'[t] = readFd[t] /\ writeFd'[t] = writeFd[t] /\ socketFd'[t] = socketFd[t]
    BY ThreadPlaces
  <2>3. \A fd \in Fds : open[fd] = Closed => open'[fd] = Closed
    BY ServerFdsOnly
  <2> QED
    BY <2>1, <2>2, <2>3 DEF InheritingInv
<1>2. \A t \in Threads : InheritingInv(t)'
  BY <1>1, OwnDescriptorsClosed
<1>3. \A fd \in Fds : open'[fd] = Closed \/ open'[fd] = Given(fd)
  BY ServerFdsOnly DEF InheritedInv
<1>4. ASSUME NEW fd \in Fds, open'[fd] = Given(fd)
      PROVE  \E t \in Threads : fd \in PairOf(setup'.packet[t]) \cup {readFd'[t], writeFd'[t]}
  <2>1. open[fd] = Given(fd)
    BY <1>4, ServerFdsOnly DEF Closed, Given
  <2>2. PICK t \in Threads : fd \in PairOf(setup.packet[t]) \cup {readFd[t], writeFd[t]}
    BY <2>1 DEF InheritedInv
  <2>3. setup' = setup
    BY ThreadPlaces
  <2>4. CASE readFd'[t] = readFd[t] /\ writeFd'[t] = writeFd[t]
    BY <2>2, <2>3, <2>4
  <2>5. CASE fd \in PairOf(setup.packet[t])
    BY <2>3, <2>5
  <2>6. CASE fd \in {readFd[t], writeFd[t]} /\ ~(readFd'[t] = readFd[t] /\ writeFd'[t] = writeFd[t])
    <3>1. t = i
      BY <2>6, ThreadPlaces
    <3>2. Forget(i)
      BY <2>6, <3>1, InheritingSteps, QuietSteps DEF CloseRead, CloseWrite, fds
    <3>3. open[fd] = Closed
      BY <2>6, <3>1, <3>2, NoneIsNoNumber DEF Forget, InheritedInv, InheritingInv
    <3> QED
      BY <2>1, <3>3 DEF Closed, Given
  <2> QED
    BY <2>2, <2>4, <2>5, <2>6
<1> QED
  BY <1>2, <1>3, <1>4 DEF InheritedInv

-----------------------------------------------------------------------------
(* The invariant.                                                           *)

LEMMA ThreadInv ==
    ASSUME DescriptorsInv, main # <<"crashed">>, NEW i \in Threads, Thread(i)
    PROVE  DescriptorsInv'
<1>1. DescriptorsTypeOK /\ OpenInv /\ PacketInv /\ MainInv /\ setup.inherited \in BOOLEAN
  BY SetupTyped DEF DescriptorsInv
<1>2. /\ pc[i] \in Places \ {"ended", "crashed"} /\ setup' = setup /\ main' = main
      /\ \A t \in Threads \ {i} : pc'[t] = pc[t]
  BY <1>1, ThreadPlaces
<1>3. DescriptorsTypeOK'
  <2>1. CASE setup.inherited
    BY <1>1, <2>1, ThreadTyped DEF DescriptorsInv, InheritedInv, InheritingInv
  <2>2. CASE ~setup.inherited
    BY <1>1, <2>2, ThreadTyped DEF DescriptorsInv, ConnectingInv
  <2> QED
    BY <2>1, <2>2
<1>4. IF setup'.inherited THEN InheritedInv' ELSE \A t \in Threads : ConnectingInv(t)'
  <2>1. CASE setup.inherited
    BY <1>1, <1>2, <2>1, InheritedKept DEF DescriptorsInv
  <2>2. CASE ~setup.inherited
    BY <1>1, <1>2, <2>2, OwnSocketKnown, OthersKeepTheirSockets DEF DescriptorsInv
  <2> QED
    BY <2>1, <2>2
<1>5. \A fd \in Fds : \/ open'[fd] = open[fd]
                      \/ open'[fd] = Closed /\ fd \in ServerFds(setup)
                      \/ open[fd] = SocketOf(i) /\ open'[fd] = Closed
                      \/ open[fd] = Closed /\ open'[fd] = SocketOf(i)
  <2>1. CASE setup.inherited
    BY <1>1, <2>1, ServerFdsOnly DEF DescriptorsInv
  <2>2. CASE ~setup.inherited
    BY <1>1, <2>2, OwnNumbersOnly DEF DescriptorsInv
  <2> QED
    BY <2>1, <2>2
<1>6. OpenInv'
  BY <1>1, <1>2, <1>5 DEF OpenInv, Closed, Given, SocketOf
<1>7. PacketInv'
  <2> SUFFICES ASSUME main[1] \in {"running", "stopping", "crashed"}, NEW t \in Threads,
                      NEW fd \in PairOf(setup.packet[t]) \ ServerFds(setup)
               PROVE  open'[fd] = Given(fd)
    BY <1>2 DEF PacketInv
  <2>1. open[fd] = Given(fd)
    BY <1>1 DEF PacketInv
  <2>2. fd \in Fds
    BY <1>1, SetupTyped DEF PairOf
  <2> QED
    BY <1>5, <2>1, <2>2 DEF Closed, Given, SocketOf
<1>8. MainInv'
  <2>1. main[1] \notin {"freeing", "done"}
    BY <1>1, <1>2 DEF MainInv
  <2>2. main[1] # "crashed"
    BY <1>1 DEF DescriptorsTypeOK
  <2> QED
    BY <1>2, <2>1, <2>2 DEF MainInv
<1> QED
  BY <1>3, <1>4, <1>6, <1>7, <1>8 DEF DescriptorsInv

\* The main thread's steps that neither open nor close anything.
LEMMA WatchingInv ==
    ASSUME DescriptorsInv, UNCHANGED <<setup, open, pc, fds>>, DescriptorsTypeOK', MainInv',
           main'[1] \in {"running", "stopping", "crashed"} =>
               main[1] \in {"running", "stopping", "crashed"}
    PROVE  DescriptorsInv'
<1>1. OpenInv'
  BY DEF DescriptorsInv, OpenInv
<1>2. IF setup'.inherited THEN InheritedInv' ELSE \A i \in Threads : ConnectingInv(i)'
  BY DEF DescriptorsInv, fds, InheritedInv, InheritingInv, ConnectingInv, SocketsAre
<1>3. PacketInv'
  BY DEF DescriptorsInv, PacketInv
<1> QED
  BY <1>1, <1>2, <1>3 DEF DescriptorsInv

LEMMA TellInv == DescriptorsInv /\ (\E i \in Threads : Tell(i)) => DescriptorsInv'
<1> SUFFICES ASSUME DescriptorsInv, NEW i \in Threads, Tell(i) PROVE DescriptorsInv'
  OBVIOUS
<1>1. DescriptorsTypeOK'
  BY DEF Tell, fds, DescriptorsInv, DescriptorsTypeOK
<1>2. MainInv'
  BY DEF Tell, fds, DescriptorsInv, MainInv
<1> QED
  BY <1>1, <1>2, WatchingInv DEF Tell

LEMMA UnexpectedInv == DescriptorsInv /\ Unexpected => DescriptorsInv'
<1> SUFFICES ASSUME DescriptorsInv, Unexpected PROVE DescriptorsInv'
  OBVIOUS
<1>1. DescriptorsTypeOK'
  BY DEF Unexpected, fds, DescriptorsInv, DescriptorsTypeOK
<1>2. MainInv'
  BY DEF Unexpected, MainInv
<1> QED
  BY <1>1, <1>2, WatchingInv DEF Unexpected

LEMMA TerminateInv == DescriptorsInv /\ Terminate => DescriptorsInv'
<1> SUFFICES ASSUME DescriptorsInv, Terminate PROVE DescriptorsInv'
  OBVIOUS
<1>1. DescriptorsTypeOK'
  BY DEF Terminate, fds, DescriptorsInv, DescriptorsTypeOK
<1>2. MainInv'
  BY DEF Terminate, MainInv
<1> QED
  BY <1>1, <1>2, WatchingInv DEF Terminate

\* What is open when all threads have been joined is on a list.
LEMMA JoinedInv == DescriptorsInv /\ Joined => DescriptorsInv'
<1> SUFFICES ASSUME DescriptorsInv, Joined PROVE DescriptorsInv'
  OBVIOUS
<1>1. DescriptorsTypeOK'
  <2>1. 1 \in Threads /\ 1 \in 1..4
    BY DescriptorsAssumption DEF Threads
  <2> QED
    BY <2>1 DEF Joined, fds, DescriptorsInv, DescriptorsTypeOK
<1>2. ASSUME NEW fd \in Fds, open[fd] # Closed
      PROVE  \/ \E t \in Threads : fd \in PairOf(setup.packet[t]) \cup {readFd[t], writeFd[t]}
             \/ \E t \in Threads : open[fd] = SocketOf(t) /\ socketFd[t] = fd
  <2>1. setup.inherited \in BOOLEAN /\ DescriptorsTypeOK
    BY SetupTyped DEF DescriptorsInv
  <2>2. CASE setup.inherited
    BY <1>2, <2>2 DEF DescriptorsInv, InheritedInv
  <2>3. CASE ~setup.inherited /\ open[fd] = Given(fd)
    <3>1. fd \in GivenFds(setup)
      BY <2>3 DEF DescriptorsInv, OpenInv
    <3>2. \A t \in Threads : setup.external[t] = <<NONE, NONE>>
      BY <2>1, <2>3, SetupTyped
    <3>3. \A t \in Threads : PairOf(setup.external[t]) = {NONE}
      BY <3>2 DEF PairOf
    <3>4. fd \notin ServerFds(setup)
      <4>1. fd \in ServerFds(setup) => fd # NONE /\ \E t \in Threads : fd \in PairOf(setup.external[t])
        BY DEF ServerFds
      <4> QED
        BY <3>3, <4>1
    <3> QED
      BY <3>1, <3>4 DEF GivenFds
  <2>4. CASE ~setup.inherited /\ \E t \in Threads : open[fd] = SocketOf(t)
    <3>1. PICK t \in Threads : open[fd] = SocketOf(t)
      BY <2>4
    <3>2. pc[t] = "ended" /\ ConnectingInv(t)
      BY <2>4 DEF Joined, DescriptorsInv, ConnectingInv
    <3> QED
      BY <3>1, <3>2 DEF ConnectingInv
  <2> QED
    BY <1>2, <2>1, <2>2, <2>3, <2>4 DEF DescriptorsInv, OpenInv
<1>3. ASSUME NEW fd \in Fds, NEW t \in Threads,
             fd \in PairOf(setup.packet[t]) \cup {readFd[t], writeFd[t]}
      PROVE  fd \in StillToClose(1, 1)
  <2>1. fd \in {ToClose(t)[1], ToClose(t)[2], ToClose(t)[3], ToClose(t)[4]}
    BY <1>3 DEF ToClose, PairOf
  <2>2. t > 1 \/ t = 1
    BY DescriptorsAssumption DEF Threads
  <2> QED
    BY <2>1, <2>2 DEF StillToClose
<1>4. \A fd \in Fds : open[fd] # Closed => fd \in StillToClose(1, 1) \/ IsAbandoned(fd)
  BY <1>2, <1>3 DEF IsAbandoned
<1>5. MainInv'
  BY <1>4 DEF Joined, MainInv, StillToClose, ToClose, IsAbandoned, fds
<1>6. main'[1] = "freeing"
  BY DEF Joined
<1> QED
  BY <1>1, <1>5, <1>6, WatchingInv DEF Joined

\* Freeing a descriptor leaves the rest of the list, and never fails.
LEMMA FreeDescriptorInv == DescriptorsInv /\ FreeDescriptor => DescriptorsInv'
<1> SUFFICES ASSUME DescriptorsInv, FreeDescriptor PROVE DescriptorsInv'
  OBVIOUS
<1> DEFINE thread == main[2]
           number == main[3]
           closing == ToClose(thread)[number]
<1>1. /\ thread \in Threads /\ number \in 1..4 /\ main = <<"freeing", thread, number>>
      /\ open' = AfterClose(closing) /\ UNCHANGED <<setup, pc, fds, told>>
      /\ open \in [Fds -> Meanings] /\ open' \in [Fds -> Meanings]
  BY TypeParts, CloseTyped DEF FreeDescriptor, DescriptorsInv, DescriptorsTypeOK
<1>2. \A fd \in Fds : /\ open'[fd] \in {open[fd], Closed}
                      /\ fd = closing => open'[fd] = Closed
                      /\ fd # closing => open'[fd] = open[fd]
  BY <1>1 DEF AfterClose
<1>3. main' = AfterFreeing(main)
  <2>1. open' # open \/ IsIgnored(closing)
    BY <1>1, <1>2 DEF IsIgnored
  <2> QED
    BY <2>1 DEF FreeDescriptor
<1> HIDE DEF thread, number, closing
<1>4. \/ number < 4 /\ main' = <<"freeing", thread, number + 1>>
      \/ number = 4 /\ thread < N /\ main' = <<"freeing", thread + 1, 1>>
      \/ number = 4 /\ thread = N /\ main' = <<"done">>
  BY <1>1, <1>3, DescriptorsAssumption DEF AfterFreeing, Threads
<1>5. DescriptorsTypeOK'
  <2>1. main' \in ({"freeing"} \X Threads \X (1..4)) \cup {<<"done">>}
    BY <1>1, <1>4, DescriptorsAssumption DEF Threads
  <2> QED
    BY <1>1, <2>1 DEF DescriptorsInv, DescriptorsTypeOK, fds, Meanings
<1>6. OpenInv'
  BY <1>1, <1>2 DEF DescriptorsInv, OpenInv, Closed, Given
<1>7. \A i \in Threads : pc[i] \in {"ended", "crashed"}
  BY <1>1 DEF DescriptorsInv, MainInv
<1>8. IF setup'.inherited THEN InheritedInv' ELSE \A i \in Threads : ConnectingInv(i)'
  <2>1. CASE setup.inherited
    BY <1>1, <1>2, <1>7, <2>1 DEF DescriptorsInv, InheritedInv, InheritingInv, fds, Closed, Given
  <2>2. CASE ~setup.inherited
    BY <1>1, <1>2, <1>7, <2>2 DEF DescriptorsInv, ConnectingInv, fds, Closed, SocketOf
  <2>3. setup.inherited \in BOOLEAN
    BY SetupTyped DEF DescriptorsInv
  <2> QED
    BY <1>1, <2>1, <2>2, <2>3
<1>9. main'[1] \in {"freeing", "done"}
  BY <1>4
<1>10. PacketInv'
  BY <1>9 DEF PacketInv
<1>11. ASSUME NEW fd \in Fds, open'[fd] # Closed, ~IsAbandoned(fd)'
       PROVE  main'[1] = "freeing" /\ (fd \in StillToClose(main[2], main[3]))'
  <2>1. open[fd] # Closed /\ fd # closing /\ ~IsAbandoned(fd)
    BY <1>1, <1>2, <1>11 DEF IsAbandoned, fds
  <2>2. fd \in StillToClose(thread, number)
    BY <1>1, <2>1 DEF DescriptorsInv, MainInv
  <2>3. PICK t \in Threads, n \in 1..4 :
            (t > thread \/ (t = thread /\ n >= number)) /\ fd = ToClose(t)[n]
    BY <2>2 DEF StillToClose
  <2>4. t > thread \/ (t = thread /\ n > number)
    BY <1>1, <2>1, <2>3 DEF closing, Threads
  <2>5. /\ main'[1] = "freeing"
        /\ t > main'[2] \/ (t = main'[2] /\ n >= main'[3])
    BY <1>1, <1>4, <2>4, DescriptorsAssumption DEF Threads
  <2> QED
    BY <1>1, <2>3, <2>5 DEF StillToClose, ToClose, fds
<1>12. MainInv'
  <2>2. \A i \in Threads : pc'[i] \in {"ended", "crashed"}
    BY <1>1, <1>7
  <2> QED
    BY <1>9, <1>11, <2>2 DEF MainInv
<1> QED
  BY <1>5, <1>6, <1>8, <1>10, <1>12 DEF DescriptorsInv

LEMMA InitDescriptorsInv == DescriptorsInit => DescriptorsInv
<1> SUFFICES ASSUME DescriptorsInit PROVE DescriptorsInv
  OBVIOUS
<1>1. /\ setup.inherited \in BOOLEAN
      /\ setup.packet \in [Threads -> Fds \X Fds]
      /\ setup.external \in [Threads -> (Fds \cup {NONE}) \X (Fds \cup {NONE})]
      /\ \A i \in Threads :
            setup.external[i] \in IF setup.inherited THEN Fds \X Fds ELSE {<<NONE, NONE>>}
  BY DescriptorsAssumption DEF DescriptorsInit
<1>2. /\ \A fd \in Fds : open[fd] = IF fd \in GivenFds(setup) THEN Given(fd) ELSE Closed
      /\ \A i \in Threads : /\ pc[i] = "idle" /\ socketFd[i] = NONE
                            /\ readFd[i] = setup.external[i][1] /\ writeFd[i] = setup.external[i][2]
  BY DEF DescriptorsInit
<1>3. DescriptorsTypeOK
  BY <1>1 DEF DescriptorsInit, DescriptorsTypeOK
<1>4. OpenInv
  <2>1. \A fd \in Fds : Closed # Given(fd)
    BY DEF Closed, Given
  <2> SUFFICES ASSUME NEW fd \in Fds
               PROVE  /\ open[fd] \in {Closed, Given(fd)}
                      /\ open[fd] = Given(fd) => fd \in GivenFds(setup)
    BY DEF OpenInv
  <2> QED
    BY <1>2, <2>1
<1>5. \A fd \in Fds : open[fd] = Closed \/ open[fd] = Given(fd)
  BY <1>2
<1>6. ASSUME setup.inherited PROVE InheritedInv
  <2>1. ASSUME NEW i \in Threads PROVE InheritingInv(i)
    <3>1. {readFd[i], writeFd[i]} \subseteq ServerFds(setup) \cup {NONE}
      BY <1>2 DEF ServerFds, PairOf
    <3> QED
      BY <1>2, <3>1 DEF InheritingInv
  <2>2. ASSUME NEW fd \in Fds, open[fd] = Given(fd)
        PROVE  \E i \in Threads : fd \in PairOf(setup.packet[i]) \cup {readFd[i], writeFd[i]}
    <3>1. fd \in GivenFds(setup)
      BY <1>4, <2>2 DEF OpenInv
    <3>2. \E i \in Threads : fd \in PairOf(setup.packet[i]) \cup PairOf(setup.external[i])
      BY <3>1 DEF GivenFds, ServerFds
    <3> QED
      BY <1>2, <3>2 DEF PairOf
  <2> QED
    BY <1>5, <2>1, <2>2 DEF InheritedInv
<1>7. ASSUME ~setup.inherited, NEW i \in Threads PROVE ConnectingInv(i)
  <2>1. readFd[i] = NONE /\ writeFd[i] = NONE
    BY <1>1, <1>2, <1>7
  <2>2. \A fd \in Fds : open[fd] # SocketOf(i)
    BY <1>5, DifferentMeanings
  <2> QED
    BY <1>2, <2>1, <2>2, NoneIsNoNumber DEF ConnectingInv, SocketsAre
<1>8. PacketInv
  <2> SUFFICES ASSUME NEW i \in Threads, NEW fd \in PairOf(setup.packet[i])
               PROVE  open[fd] = Given(fd)
    BY DEF PacketInv
  <2>1. fd \in Fds /\ fd \in GivenFds(setup)
    BY <1>1 DEF PairOf, GivenFds
  <2> QED
    BY <1>2, <2>1
<1>9. MainInv
  BY DEF DescriptorsInit, MainInv
<1> QED
  BY <1>3, <1>4, <1>6, <1>7, <1>8, <1>9 DEF DescriptorsInv

LEMMA NextDescriptorsInv == DescriptorsInv /\ [DescriptorsNext]_descriptorsVars => DescriptorsInv'
<1> SUFFICES ASSUME DescriptorsInv, [DescriptorsNext]_descriptorsVars PROVE DescriptorsInv'
  OBVIOUS
<1>1. ASSUME main # <<"crashed">>, NEW i \in Threads, Thread(i) PROVE DescriptorsInv'
  BY <1>1, ThreadInv
<1>2. CASE UNCHANGED descriptorsVars
  <2>1. DescriptorsTypeOK' /\ MainInv'
    BY <1>2 DEF descriptorsVars, fds, DescriptorsInv, DescriptorsTypeOK, MainInv, StillToClose, ToClose, IsAbandoned
  <2> QED
    BY <1>2, <2>1, WatchingInv DEF descriptorsVars
<1> QED
  BY <1>1, <1>2, TellInv, UnexpectedInv, TerminateInv, JoinedInv, FreeDescriptorInv DEF DescriptorsNext

-----------------------------------------------------------------------------
(* What follows from the invariant.                                         *)

LEMMA InvUsesItsOwn == DescriptorsInv => UsesItsOwn
<1> SUFFICES ASSUME DescriptorsInv, NEW i \in Threads, IsAlive(i)
             PROVE  /\ \A fd \in PairOf(setup.packet[i]) \ ServerFds(setup) : open[fd] = Given(fd)
                    /\ pc[i] \in {"use", "idle"} =>
                         \A fd \in {readFd[i], writeFd[i]} \ {NONE} : IsOwn(i, fd)
                    /\ pc[i] = "closeRead" /\ readFd[i] # NONE => IsOwn(i, readFd[i])
                    /\ pc[i] = "closeWrite" /\ writeFd[i] \notin {NONE, readFd[i]} =>
                         IsOwn(i, writeFd[i])
                    /\ pc[i] \in {"connect", "closeSocket", "stored"} =>
                         open[socketFd[i]] = SocketOf(i)
  BY DEF UsesItsOwn
<1>1. /\ readFd[i] \in Fds \cup {NONE} /\ writeFd[i] \in Fds \cup {NONE}
      /\ socketFd[i] \in Fds \cup {NONE} /\ setup.inherited \in BOOLEAN
  BY TypeParts, SetupTyped DEF DescriptorsInv
<1>2. main[1] \in {"running", "stopping", "crashed"}
  <2>1. main[1] \notin {"freeing", "done"}
    BY DEF DescriptorsInv, MainInv, IsAlive
  <2> QED
    BY <2>1 DEF DescriptorsInv, DescriptorsTypeOK
<1>3. \A fd \in PairOf(setup.packet[i]) \ ServerFds(setup) : open[fd] = Given(fd)
  BY <1>2 DEF DescriptorsInv, PacketInv
<1>4. CASE setup.inherited
  BY <1>1, <1>3, <1>4 DEF DescriptorsInv, InheritedInv, InheritingInv, IsOwn
<1>5. CASE ~setup.inherited
  BY <1>1, <1>3, <1>5 DEF DescriptorsInv, ConnectingInv, SocketsAre, IsOwn
<1> QED
  BY <1>1, <1>4, <1>5

LEMMA InvNothingLeaks == DescriptorsInv => NothingLeaks
<1> SUFFICES ASSUME DescriptorsInv, NEW i \in Threads, NEW fd \in Fds,
                    IsAlive(i), open[fd] = SocketOf(i)
             PROVE  fd \in {readFd[i], writeFd[i], socketFd[i]}
  BY DEF NothingLeaks
<1>1. CASE setup.inherited
  BY <1>1, DifferentMeanings DEF DescriptorsInv, InheritedInv
<1>2. CASE ~setup.inherited
  <2>1. pc[i] \in Places
    BY TypeParts DEF DescriptorsInv
  <2> QED
    BY <1>2, <2>1 DEF DescriptorsInv, ConnectingInv, SocketsAre, IsAlive, Places
<1> QED
  BY <1>1, <1>2

LEMMA InvEndsInPeace == DescriptorsInv => EndsInPeace
<1> SUFFICES ASSUME DescriptorsInv PROVE EndsInPeace
  OBVIOUS
<1>1. main = <<"crashed">> => \E i \in Threads : pc[i] = "crashed"
  BY DEF DescriptorsInv, MainInv
<1>2. main = <<"done">> => \A fd \in Fds : open[fd] # Closed => IsAbandoned(fd)
  BY DEF DescriptorsInv, MainInv
<1> QED
  BY <1>1, <1>2 DEF EndsInPeace, IsAbandoned

\* In every state, what the numbers of the table stand for is as DescriptorsInv
\* says.
THEOREM DescriptorsInvariant == DescriptorsSpec => []DescriptorsInv
BY InitDescriptorsInv, NextDescriptorsInv, PTL DEF DescriptorsSpec

\* Every variable keeps its type, and no thread talks to the server without
\* descriptors, for any number of threads and descriptors.
THEOREM DescriptorsTyped == DescriptorsSpec => []DescriptorsTypeOK
<1>1. DescriptorsInv => DescriptorsTypeOK
  BY DEF DescriptorsInv
<1> QED
  BY <1>1, DescriptorsInvariant, PTL

\* No thread ever touches the socket that another one got under a number it
\* has closed (_close_fds_if_necessary, _open_socket).
THEOREM EachUsesItsOwn == DescriptorsSpec => []UsesItsOwn
BY InvUsesItsOwn, DescriptorsInvariant, PTL

\* Whatever fails, a running thread knows of every socket it has open.
THEOREM NoSocketLeaks == DescriptorsSpec => []NothingLeaks
BY InvNothingLeaks, DescriptorsInvariant, PTL

\* Freeing the thread contexts ends with everything closed that can be, and
\* never by a crash of its own (_free_thread_contexts).
THEOREM EveryoneEndsInPeace == DescriptorsSpec => []EndsInPeace
BY InvEndsInPeace, DescriptorsInvariant, PTL
=============================================================================
