------------------------------ MODULE ExternalCache ------------------------------
(****************************************************************************)
(* The cache in front of the external address translator                    *)
(* (xlat_addr_external.c).  Each translator thread has four of them: one    *)
(* for each direction, and in each direction one for the addresses of whole *)
(* packets and one for those of the packets inside ICMP error messages.     *)
(* A cache is an array of entries, an entry's place is the hash of the      *)
(* addresses that were to be translated, and a new entry overwrites what    *)
(* was there.  Time is read in whole seconds, and reading it may fail.      *)
(*                                                                          *)
(* A pair stands for a source and a destination address.                    *)
(****************************************************************************)
EXTENDS Naturals

CONSTANTS
    Directions,      \* "4to6" and "6to4"
    Pairs4, Pairs6,  \* pairs of IPv4 addresses, pairs of IPv6 addresses
    Zero4, Zero6,    \* the pairs of a zeroed entry
    Usable,          \* the pairs that may be used in a packet
    Hash(_, _),      \* the hash of a pair, for a cache of a certain size
    MainSize,        \* addressing.external.cache_size.main_addresses
    ErrorSize,       \* addressing.external.cache_size.icmp_error_addresses
    Lifetimes,       \* the cache lifetimes a response may have, in seconds
    MaxTime,         \* bounds the behaviours
    MaxAnswers       \* bounds the behaviours

\* The clock is finer than what is read of it.
TICKS == 2

Kinds == {"main", "icmp_error"}

In(d) == IF d = "4to6" THEN Pairs4 ELSE Pairs6
Out(d) == IF d = "4to6" THEN Pairs6 ELSE Pairs4

Size(k) == IF k = "main" THEN MainSize ELSE ErrorSize

ASSUME CacheAssumption ==
    /\ Directions \subseteq {"4to6", "6to4"}
    /\ Zero4 \in Pairs4 /\ Zero6 \in Pairs6
    /\ MainSize \in Nat /\ ErrorSize \in Nat
    /\ \A p \in Pairs4 \cup Pairs6, n \in {MainSize, ErrorSize} \ {0} : Hash(p, n) \in 0..(n - 1)
    /\ Lifetimes \subseteq Nat
    /\ MaxTime \in Nat /\ MaxAnswers \in Nat

VARIABLES
    now,       \* the time, in ticks since the machine was started
    cache,     \* the entries, by direction, kind and place
    waiting,   \* the lookup the server has been asked for
    hit,       \* the entry the last lookup was answered from, if it was
    latest,    \* history: what the server last said, for each lookup
    clock,     \* history: has it always been readable?
    count      \* history: the number of answers

vars == <<now, cache, waiting, hit, latest, clock, count>>

-----------------------------------------------------------------------------
\* An entry.  As history: when, for how long and for what the server gave it.
Entry == [v4 : Pairs4, v6 : Pairs6, expires : Nat,
          since : Nat, lifetime : Nat, of : Directions \cup {"none"}, as : Kinds]

ZeroEntry == [v4 |-> Zero4, v6 |-> Zero6, expires |-> 0,
              since |-> 0, lifetime |-> 0, of |-> "none", as |-> "main"]

NoLookup == [dir |-> "none"]
NoHit == [dir |-> "none"]

Lookups == {[dir |-> d, kind |-> k, in |-> p] : d \in Directions, k \in Kinds, p \in Pairs4 \cup Pairs6}

\* The addresses of an entry, by what they are in a direction.
InOf(d, e) == IF d = "4to6" THEN e.v4 ELSE e.v6
OutOf(d, e) == IF d = "4to6" THEN e.v6 ELSE e.v4

\* _get_current_timestamp(), if it does not fail; the first second is no time.
Timestamp == now \div TICKS

Init ==
    /\ now = 0
    /\ cache = [d \in Directions |-> [k \in Kinds |-> [i \in 0..(Size(k) - 1) |-> ZeroEntry]]]
    /\ waiting = NoLookup
    /\ hit = NoHit
    /\ latest = [d \in Directions |-> [k \in Kinds |-> [p \in In(d) |-> "none"]]]
    /\ clock = TRUE
    /\ count = 0

Tick ==
    /\ now < MaxTime
    /\ now' = now + 1
    /\ hit' = NoHit
    /\ UNCHANGED <<cache, waiting, latest, clock, count>>

\* Which of a direction's caches a lookup uses.
KindOfCache(k) == k

\* Where a lookup may find its answer.
Target(d, k, p) == cache[d][KindOfCache(k)][Hash(p, Size(KindOfCache(k)))]

\* Variation: an entry is good for the whole second in which it expires.
IsFreshInclusive(e) == Timestamp > 0 /\ Timestamp <= e.expires

IsFresh(e) == Timestamp > 0 /\ Timestamp < e.expires

\* Variation: the place is taken for the addresses.
MatchesAnything(d, e, p) == e.expires > 0

Matches(d, e, p) == InOf(d, e) = p /\ e.expires > 0

\* _try_doing_4to6/6to4_addr_translation_using_cache()
Hit(d, k, p) ==
    /\ waiting = NoLookup
    /\ Size(k) > 0
    /\ Matches(d, Target(d, k, p), p)
    /\ IsFresh(Target(d, k, p))
    /\ hit' = [dir |-> d, kind |-> k, in |-> p, out |-> OutOf(d, Target(d, k, p)),
               entry |-> Target(d, k, p), at |-> now]
    /\ UNCHANGED <<now, cache, waiting, latest, clock, count>>

\* The server is asked; the time may pass until it answers.  An entry that
\* matches is not used when the time cannot be read.
Miss(d, k, p) ==
    /\ waiting = NoLookup
    /\ count < MaxAnswers
    /\ clock' \in {clock, FALSE}
    /\ Size(k) > 0 /\ Matches(d, Target(d, k, p), p) /\ IsFresh(Target(d, k, p)) => ~clock'
    /\ waiting' = [dir |-> d, kind |-> k, in |-> p]
    /\ hit' = NoHit
    /\ UNCHANGED <<now, cache, latest, count>>

\* Are addresses with this lifetime saved?
IsCached(k, lifetime) == Size(k) > 0 /\ lifetime > 0

NewEntry(d, k, p, q, lifetime) ==
    [v4 |-> IF d = "4to6" THEN p ELSE q, v6 |-> IF d = "4to6" THEN q ELSE p,
     expires |-> Timestamp + lifetime,
     since |-> now, lifetime |-> lifetime, of |-> d, as |-> k]

\* Variation: an entry for the same addresses is only prolonged.
SavedProlonged(d, k, p, q, lifetime) ==
    [cache EXCEPT ![d][KindOfCache(k)][Hash(p, Size(KindOfCache(k)))] =
        IF Matches(d, @, p)
        THEN [NewEntry(d, k, p, q, lifetime) EXCEPT !.v4 = Target(d, k, p).v4,
                                                    !.v6 = Target(d, k, p).v6]
        ELSE NewEntry(d, k, p, q, lifetime)]

\* _save_..._addr_mapping_to_cache(), unless the time cannot be read.
Saved(d, k, p, q, lifetime) ==
    [cache EXCEPT ![d][KindOfCache(k)][Hash(p, Size(KindOfCache(k)))] =
        NewEntry(d, k, p, q, lifetime)]

\* The server's addresses arrive.  Those of whole packets have been checked.
Answer(q, lifetime) ==
    /\ waiting # NoLookup
    /\ LET d == waiting.dir
           k == waiting.kind
           p == waiting.in
       IN  /\ q \in Out(d)
           /\ k = "main" => q \in Usable
           /\ latest' = [latest EXCEPT ![d][k][p] = q]
           /\ \/ IsCached(k, lifetime) /\ Timestamp > 0
                 /\ cache' = Saved(d, k, p, q, lifetime)
                 /\ UNCHANGED clock
              \/ ~(IsCached(k, lifetime) /\ Timestamp > 0)
                 /\ UNCHANGED <<cache, clock>>
              \/ IsCached(k, lifetime) /\ clock' = FALSE /\ UNCHANGED cache
    /\ waiting' = NoLookup
    /\ count' = count + 1
    /\ UNCHANGED <<now, hit>>

\* There is no answer: the packet is dropped.
NoAnswer ==
    /\ waiting # NoLookup
    /\ waiting' = NoLookup
    /\ UNCHANGED <<now, cache, hit, latest, clock, count>>

Next ==
    \/ Tick
    \/ \E d \in Directions, k \in Kinds : \E p \in In(d) : Hit(d, k, p) \/ Miss(d, k, p)
    \/ \E q \in Pairs4 \cup Pairs6, lifetime \in Lifetimes : Answer(q, lifetime)
    \/ NoAnswer

Spec == Init /\ [][Next]_vars

-----------------------------------------------------------------------------
\* Every variable keeps its type.
TypeOK ==
    /\ now \in 0..MaxTime
    /\ DOMAIN cache = Directions
    /\ \A d \in Directions : DOMAIN cache[d] = Kinds
    /\ \A d \in Directions, k \in Kinds : cache[d][k] \in [0..(Size(k) - 1) -> Entry]
    /\ DOMAIN latest = Directions
    /\ \A d \in Directions : DOMAIN latest[d] = Kinds
    /\ \A d \in Directions, k \in Kinds : DOMAIN latest[d][k] = In(d)
    /\ waiting # NoLookup => waiting \in Lookups /\ waiting.in \in In(waiting.dir)
    /\ clock \in BOOLEAN
    /\ count \in 0..MaxAnswers

\* Cached addresses are used for the direction, the kind and the addresses
\* for which the server gave them.
HitIsOwn ==
    hit # NoHit =>
        /\ hit.entry.of = hit.dir
        /\ hit.entry.as = hit.kind
        /\ InOf(hit.dir, hit.entry) = hit.in

\* Never for longer than the server allowed, to the tick, though the code
\* counts in whole seconds; and never if it said that they must not be cached.
HitIsFresh ==
    hit # NoHit => hit.at < hit.entry.since + hit.entry.lifetime * TICKS

\* What comes out of the cache for a whole packet has passed the check for
\* unusable addresses, which is made only when it goes in.
HitIsUsable ==
    hit # NoHit /\ hit.kind = "main" => hit.out \in Usable

\* As long as the time can be read, the cache never brings back addresses the
\* server has since replaced by others, nor by others that must not be cached.
HitIsLatest ==
    hit # NoHit /\ clock => hit.out = latest[hit.dir][hit.kind][hit.in]

-----------------------------------------------------------------------------
(* The inductive invariant from which the properties of a hit follow.       *)

\* An entry that holds something is at its place, and holds what a response
\* to that lookup said; if it is not the last word, it has expired.
EntryInv(d, k, i) ==
    LET e == cache[d][k][i] IN
    e.expires > 0 =>
        /\ Hash(InOf(d, e), Size(k)) = i
        /\ Timestamp > 0
        /\ e.of = d /\ e.as = k
        /\ e.expires = e.since \div TICKS + e.lifetime
        /\ k = "main" => OutOf(d, e) \in Usable
        /\ clock => OutOf(d, e) = latest[d][k][InOf(d, e)] \/ e.expires <= Timestamp

EntriesInv ==
    \A d \in Directions, k \in Kinds : \A i \in 0..(Size(k) - 1) : EntryInv(d, k, i)

\* A lookup the server has been asked for could not be answered from the cache.
WaitingInv ==
    waiting # NoLookup =>
        /\ hit = NoHit
        /\ count < MaxAnswers
        /\ clock => \A i \in 0..(Size(waiting.kind) - 1) :
               LET e == cache[waiting.dir][waiting.kind][i] IN
               Matches(waiting.dir, e, waiting.in) => e.expires <= Timestamp

CacheInv == TypeOK /\ EntriesInv /\ WaitingInv /\ HitIsOwn /\ HitIsFresh /\ HitIsUsable /\ HitIsLatest
=============================================================================
