-------------------------- MODULE RateLimiterProofs --------------------------
(***************************************************************************)
(* Proofs about RateLimiter, for every value of its constants.             *)
(*                                                                         *)
(* The argument.  Every hit of the map is an admission of the log          *)
(* (HitsLogged), and every admission still in some window is a hit of the  *)
(* map (Remembered).  So what a call compares with the limit are the       *)
(* admissions of its window: no others (ComparedIsCovered), hence refusals *)
(* are justified; and all but those a wait of MaxDelay can hide            *)
(* (ComparedCovers), hence the limit holds.  Remembered is what the sweep  *)
(* puts at risk: it drops a slice by its last hit.  The last hit is the    *)
(* youngest up to MaxDelay (LogOrdered, LastIsYoung).                      *)
(***************************************************************************)
EXTENDS RateLimiter, FiniteSetTheorems, WellFoundedInduction, TLAPS

-----------------------------------------------------------------------------
(* Arithmetic and finite sets                                              *)

\* A bounded non-empty set of naturals has a largest element.
LEMMA NatMaximum ==
  ASSUME NEW S \in SUBSET Nat, S # {}, NEW b \in Nat, \A n \in S : n <= b
  PROVE  \E m \in S : \A n \in S : n <= m
<1> DEFINE T == {b - n : n \in S}
<1>1. T \subseteq Nat /\ T # {}
  <2>1. \A n \in S : n \in Nat /\ b - n \in Nat
    OBVIOUS
  <2>2. PICK n \in S : TRUE
    OBVIOUS
  <2>3. b - n \in T
    BY <2>2
  <2> QED BY <2>1, <2>3
<1>2. PICK x \in T : \A y \in T : ~ (<<y, x>> \in OpToRel(<, Nat))
  <2> HIDE DEF T
  <2> QED BY <1>1, NatLessThanWellFounded, WFMin
<1>3. \A y \in T : ~(y < x)
  BY <1>1, <1>2 DEF OpToRel
<1>4. PICK m \in S : x = b - m
  BY <1>2
<1>5. ASSUME NEW n \in S PROVE n <= m
  <2>1. b - n \in T /\ n \in Nat /\ m \in Nat
    BY <1>5, <1>4
  <2>2. ~(b - n < b - m)
    BY <2>1, <1>3, <1>4
  <2> HIDE DEF T
  <2> QED BY <2>1, <2>2
<1> QED BY <1>5

\* One more element than a set with fewer than n makes at most n.
LEMMA AddOne ==
  ASSUME NEW S, IsFiniteSet(S), NEW x, NEW n \in Nat, Cardinality(S) < n
  PROVE  IsFiniteSet(S \cup {x}) /\ Cardinality(S \cup {x}) <= n
<1>1. Cardinality(S) \in Nat
  BY FS_CardinalityType
<1>2. CASE x \in S
  <2>1. S \cup {x} = S
    BY <1>2
  <2> QED BY <2>1, <1>1
<1>3. CASE x \notin S
  <2>1. IsFiniteSet(S \cup {x}) /\ Cardinality(S \cup {x}) = Cardinality(S) + 1
    BY <1>3, FS_AddElement
  <2> QED BY <2>1, <1>1
<1> QED BY <1>2, <1>3

\* Counting by a one-to-one function.
LEMMA CountByInjection ==
  ASSUME NEW S, NEW T, IsFiniteSet(T), NEW f \in [S -> T],
         \A a, b \in S : f[a] = f[b] => a = b
  PROVE  Cardinality(S) <= Cardinality(T)
<1>1. f \in Injection(S, T)
  <2>1. DOMAIN f = S
    OBVIOUS
  <2> QED BY <2>1 DEF Injection, IsInjective
<1> QED BY <1>1, FS_Injection

\* The share evictBatch frees is at least one key.
LEMMA ShareFreesOne ==
  MaxKeys - MaxKeys \div EvictShare \in Nat
  /\ MaxKeys - MaxKeys \div EvictShare < MaxKeys
<1>1. \A a \in Nat, d \in Nat \ {0} :
        a >= d => a \div d \in Nat /\ a \div d >= 1 /\ a \div d <= a
  OBVIOUS
<1> QED BY <1>1, LimiterConfig

-----------------------------------------------------------------------------
(* The last element of a slice                                             *)

\* A slice as the limiter holds it: hits numbered below c, each number once.
Slice(ts, c) ==
  /\ ts \subseteq Hit /\ ts # {}
  /\ \A h \in ts : h.n < c
  /\ \A g, h \in ts : g.n = h.n => g = h

\* Last is the hit with the largest number.
LEMMA LastIsLatest ==
  ASSUME NEW c \in Nat, NEW ts, Slice(ts, c)
  PROVE  /\ Last(ts) \in ts
         /\ \A h \in ts : h.n <= Last(ts).n
<1> DEFINE S == {h.n : h \in ts}
<1>1. S \in SUBSET Nat /\ S # {} /\ \A n \in S : n <= c
  BY DEF Slice, Hit
<1>2. PICK m \in S : \A n \in S : n <= m
  <2> HIDE DEF S
  <2> QED BY <1>1, NatMaximum
<1>3. PICK h \in ts : h.n = m
  BY <1>2
<1>4. \A g \in ts : g.n <= h.n
  BY <1>2, <1>3
<1> QED BY <1>3, <1>4 DEF Last

\* What is left of a slice after its last hit was found live, or dropped.
LEMMA LastOfPruned ==
  ASSUME NEW c \in Nat, NEW ts, Slice(ts, c), NEW now \in Int,
         Live(ts, now) # {}
  PROVE  \/ Last(Live(ts, now)) = Last(ts)
         \/ /\ Last(ts).at <= now - Win
            /\ Last(Live(ts, now)).at > now - Win
<1> DEFINE L == Live(ts, now)
<1>1. Slice(L, c)
  BY DEF Slice, Live
<1>2. Last(L) \in L /\ \A h \in L : h.n <= Last(L).n
  BY <1>1, LastIsLatest
<1>3. Last(ts) \in ts /\ \A h \in ts : h.n <= Last(ts).n
  BY LastIsLatest
<1>4. Last(L).at > now - Win
  BY <1>2 DEF Live
<1>5. CASE Last(ts) \in L
  <2>1. Last(ts).n <= Last(L).n /\ Last(L).n <= Last(ts).n
    BY <1>2, <1>3, <1>5 DEF Live
  <2>2. Last(ts).n = Last(L).n
    BY <2>1, <1>2, <1>3 DEF Live, Slice, Hit
  <2> QED BY <2>2, <1>2, <1>3 DEF Slice, Live
<1>6. CASE Last(ts) \notin L
  <2>1. ~(Last(ts).at > now - Win)
    BY <1>3, <1>6 DEF Live
  <2> QED BY <2>1, <1>3, <1>4, LimiterConfig DEF Slice, Hit
<1> QED BY <1>5, <1>6

-----------------------------------------------------------------------------
(* What the operations on the map return                                   *)

\* s is r with some of its keys.
Part(s, r) ==
  /\ Tracked(s) \subseteq Tracked(r)
  /\ \A k \in Tracked(s) : s.hits[k] = r.hits[k]

Recent(r) == \A k \in Tracked(r) : Last(r.hits[k]).at > r.lastSweep - Win

\* Keep drops keys and touches nothing else.
LEMMA KeepFacts ==
  ASSUME NEW r, MapOK(r), NEW S \in SUBSET Tracked(r)
  PROVE  /\ MapOK(Keep(r, S))
         /\ Tracked(Keep(r, S)) = S
         /\ Part(Keep(r, S), r)
         /\ Keep(r, S).lastSweep = r.lastSweep
<1> DEFINE s == Keep(r, S)
<1>1. s = [hits |-> [k \in S |-> r.hits[k]], lastSweep |-> r.lastSweep]
  BY DEF Keep, MapOK
<1>2. /\ s.hits = [k \in S |-> r.hits[k]]
      /\ s.lastSweep = r.lastSweep
      /\ Tracked(s) = S
  BY <1>1 DEF Tracked
<1>3. Part(s, r)
  BY <1>2 DEF Part
<1>4. IsFiniteSet(S)
  BY FS_Subset DEF MapOK
<1>5. MapOK(s)
  <2> HIDE DEF s
  <2> QED BY <1>1, <1>2, <1>4 DEF MapOK
<1> QED BY <1>2, <1>3, <1>5

\* sweep (ratelimit.go:81-89) leaves recent keys, untouched, and drops none that
\* is fresh.
LEMMA SweepFacts ==
  ASSUME NEW r, MapOK(r), NEW now \in Int
  PROVE  /\ MapOK(Sweep(r, now))
         /\ Part(Sweep(r, now), r)
         /\ Sweep(r, now).lastSweep = now
         /\ Recent(Sweep(r, now))
         /\ \A k \in Tracked(r) \ Tracked(Sweep(r, now)) :
              ~Fresh(r.hits[k], now)
<1> DEFINE S == {k \in Tracked(r) : Fresh(r.hits[k], now)}
           q == Keep(r, S)
           s == Sweep(r, now)
<1>1. /\ MapOK(q) /\ Tracked(q) = S /\ Part(q, r)
  BY KeepFacts
<1>2. s = [q EXCEPT !.lastSweep = now]
  BY DEF Sweep
<1>3. s = [hits |-> q.hits, lastSweep |-> now]
  <2> HIDE DEF q, s
  <2> QED BY <1>1, <1>2 DEF MapOK
<1>4. s.hits = q.hits /\ s.lastSweep = now /\ Tracked(s) = S
  <2> HIDE DEF q, s, S
  <2> QED BY <1>1, <1>3 DEF Tracked
<1>5. MapOK(s) /\ Part(s, r)
  <2> HIDE DEF q, s, S
  <2> QED BY <1>1, <1>3, <1>4 DEF MapOK, Part, Tracked
<1>6. Recent(s)
  <2> HIDE DEF q, s
  <2> QED BY <1>4, <1>5 DEF Recent, Part, Fresh
<1>7. \A k \in Tracked(r) \ Tracked(s) : ~Fresh(r.hits[k], now)
  BY <1>4
<1> QED BY <1>4, <1>5, <1>6, <1>7

\* Storing a slice that is not empty changes the slice of its key only.
LEMMA StoreFacts ==
  ASSUME NEW r, MapOK(r), NEW key \in Keys,
         NEW ts, ts \subseteq Hit, IsFiniteSet(ts), ts # {}
  PROVE  /\ MapOK(Store(r, key, ts))
         /\ Tracked(Store(r, key, ts)) = Tracked(r) \cup {key}
         /\ Store(r, key, ts).hits[key] = ts
         /\ \A k \in Tracked(r) \ {key} : Store(r, key, ts).hits[k] = r.hits[k]
         /\ Store(r, key, ts).lastSweep = r.lastSweep
<1> DEFINE K == Tracked(r) \cup {key}
           h == [k \in K |-> IF k = key THEN ts ELSE r.hits[k]]
           s == Store(r, key, ts)
<1>1. s = [hits |-> h, lastSweep |-> r.lastSweep]
  BY DEF Store, MapOK
<1>2. s.hits = h /\ s.lastSweep = r.lastSweep /\ Tracked(s) = K
  BY <1>1 DEF Tracked
<1>3. IsFiniteSet(K)
  BY FS_AddElement DEF MapOK
<1>4. /\ s.hits[key] = ts
      /\ \A k \in Tracked(r) \ {key} : s.hits[k] = r.hits[k]
  BY <1>2
<1>5. MapOK(s)
  <2>1. s.hits = [k \in Tracked(s) |-> s.hits[k]]
    BY <1>2
  <2> HIDE DEF s, h
  <2> QED BY <1>1, <1>2, <1>3, <1>4, <2>1 DEF MapOK
<1> QED BY <1>2, <1>4, <1>5

\* The scheduled sweep: what is left is a part of the map, what is gone was not
\* fresh at now, and the last sweep is now less than a window before now.
LEMMA ScheduledFacts ==
  ASSUME NEW r, MapOK(r), Recent(r), NEW now \in Int
  PROVE  /\ MapOK(Scheduled(r, now))
         /\ Part(Scheduled(r, now), r)
         /\ Recent(Scheduled(r, now))
         /\ Scheduled(r, now).lastSweep \in {r.lastSweep, now}
         /\ now - Scheduled(r, now).lastSweep < Win
         /\ \A k \in Tracked(r) \ Tracked(Scheduled(r, now)) :
              ~Fresh(r.hits[k], now)
<1>1. CASE now - r.lastSweep >= Win
  BY <1>1, SweepFacts, LimiterConfig DEF Scheduled
<1>2. CASE ~(now - r.lastSweep >= Win)
  BY <1>2, LimiterConfig DEF Scheduled, MapOK, Part
<1> QED BY <1>1, <1>2

\* evictBatch (ratelimit.go:99-123) leaves target keys at most, untouched, and
\* names those it drops.
LEMMA EvictFacts ==
  ASSUME NEW r, MapOK(r), NEW target \in Nat, NEW e \in EvictBatch(r, target)
  PROVE  /\ MapOK(e.rl) /\ Part(e.rl, r) /\ e.rl.lastSweep = r.lastSweep
         /\ Cardinality(Tracked(e.rl)) <= target
         /\ e.evicted = Tracked(r) \ Tracked(e.rl)
<1>1. CASE Cardinality(Tracked(r)) <= target
  BY <1>1 DEF EvictBatch, Part
<1>2. CASE ~(Cardinality(Tracked(r)) <= target)
  <2>1. PICK S \in Survivors(r, target) :
          e = [rl |-> Keep(r, S), evicted |-> Tracked(r) \ S]
    BY <1>2 DEF EvictBatch
  <2>2. S \in SUBSET Tracked(r) /\ Cardinality(S) = target
    BY <2>1 DEF Survivors
  <2>3. e.rl = Keep(r, S) /\ e.evicted = Tracked(r) \ S
    BY <2>1
  <2> QED BY <2>2, <2>3, KeepFacts
<1> QED BY <1>1, <1>2

\* Making room leaves a part of the map with space for the key.  What is gone
\* was evicted or was not fresh.
LEMMA MakeRoomFacts ==
  ASSUME NEW r, MapOK(r), Recent(r), Cardinality(Tracked(r)) <= MaxKeys,
         NEW key \in Keys, NEW now \in Int, now - r.lastSweep < Win,
         NEW room \in MakeRoom(r, key, now)
  PROVE  /\ MapOK(room.rl) /\ Part(room.rl, r) /\ Recent(room.rl)
         /\ room.rl.lastSweep \in {r.lastSweep, now}
         /\ now - room.rl.lastSweep < Win
         /\ Cardinality(Tracked(room.rl) \cup {key}) <= MaxKeys
         /\ key \in Tracked(r) => room.rl = r
         /\ room.evicted \subseteq Tracked(r) \ Tracked(room.rl)
         /\ key \notin room.evicted
         /\ room.evicted # {} => Cardinality(Tracked(r)) >= MaxKeys
         /\ \A k \in Tracked(r) \ Tracked(room.rl) :
              k \in room.evicted \/ ~Fresh(r.hits[k], now)
<1> DEFINE s == Sweep(r, now)
<1>0. /\ IsFiniteSet(Tracked(r)) /\ Cardinality(Tracked(r)) \in Nat
      /\ MaxKeys \in Nat /\ Win \in Nat /\ Win > 0 /\ r.lastSweep \in Int
  BY FS_CardinalityType, LimiterConfig DEF MapOK
<1>1. CASE key \in Tracked(r)
  <2>1. room = [rl |-> r, evicted |-> {}]
    BY <1>1 DEF MakeRoom
  <2>2. Tracked(r) \cup {key} = Tracked(r)
    BY <1>1
  <2> QED BY <2>1, <2>2, <1>0 DEF Part
<1>2. CASE key \notin Tracked(r) /\ Cardinality(Tracked(r)) < MaxKeys
  <2>1. room = [rl |-> r, evicted |-> {}]
    BY <1>2 DEF MakeRoom
  <2>2. Cardinality(Tracked(r) \cup {key}) <= MaxKeys
    BY <1>0, <1>2, AddOne
  <2> QED BY <2>1, <2>2, <1>0, <1>2 DEF Part
<1>3. CASE key \notin Tracked(r) /\ ~(Cardinality(Tracked(r)) < MaxKeys)
  <2>1. /\ MapOK(s) /\ Part(s, r) /\ s.lastSweep = now /\ Recent(s)
        /\ \A k \in Tracked(r) \ Tracked(s) : ~Fresh(r.hits[k], now)
    BY SweepFacts
  <2>2. IsFiniteSet(Tracked(s)) /\ Cardinality(Tracked(s)) \in Nat
    BY <2>1, FS_CardinalityType DEF MapOK
  <2>3. key \notin Tracked(s)
    BY <2>1, <1>3 DEF Part
  <2>4. CASE Cardinality(Tracked(s)) < MaxKeys
    <3>1. room = [rl |-> s, evicted |-> {}]
      BY <1>3, <2>4 DEF MakeRoom
    <3>2. Cardinality(Tracked(s) \cup {key}) <= MaxKeys
      BY <1>0, <2>2, <2>4, AddOne
    <3> HIDE DEF s
    <3> QED BY <3>1, <3>2, <2>1, <1>0, <1>3
  <2>5. CASE ~(Cardinality(Tracked(s)) < MaxKeys)
    <3> DEFINE target == MaxKeys - MaxKeys \div EvictShare
    <3>1. target \in Nat /\ target < MaxKeys
      BY ShareFreesOne
    <3>2. room \in EvictBatch(s, target)
      BY <1>3, <2>5 DEF MakeRoom
    <3> HIDE DEF s, target
    <3>3. /\ MapOK(room.rl) /\ Part(room.rl, s) /\ room.rl.lastSweep = s.lastSweep
          /\ Cardinality(Tracked(room.rl)) <= target
          /\ room.evicted = Tracked(s) \ Tracked(room.rl)
      BY <3>1, <3>2, <2>1, EvictFacts
    <3>4. Cardinality(Tracked(room.rl) \cup {key}) <= MaxKeys
      <4>1. IsFiniteSet(Tracked(room.rl)) /\ Cardinality(Tracked(room.rl)) \in Nat
        BY <3>3, FS_CardinalityType DEF MapOK
      <4>2. Cardinality(Tracked(room.rl)) < MaxKeys
        BY <4>1, <3>1, <3>3, <1>0
      <4> QED BY <4>1, <4>2, <1>0, AddOne
    <3>5. Recent(room.rl)
      BY <3>3, <2>1 DEF Recent, Part
    <3>6. Part(room.rl, r)
      BY <3>3, <2>1 DEF Part
    <3>7. \A k \in Tracked(r) \ Tracked(room.rl) :
            k \in room.evicted \/ ~Fresh(r.hits[k], now)
      BY <3>3, <2>1
    <3>8. /\ room.evicted \subseteq Tracked(r) \ Tracked(room.rl)
          /\ key \notin room.evicted
      BY <3>3, <2>1, <2>3 DEF Part
    <3> QED BY <3>3, <3>4, <3>5, <3>6, <3>7, <3>8, <2>1, <1>0, <1>3
  <2> QED BY <2>4, <2>5
<1> QED BY <1>1, <1>2, <1>3

-----------------------------------------------------------------------------
(* What a call of allow returns                                            *)

\* The slice the call compares with the limit.
Compared(r, key, now, kept) ==
  /\ kept \subseteq HitsOf(r, key) /\ IsFiniteSet(kept)
  /\ \A h \in kept : h.at > now - Win
  /\ \A h \in HitsOf(r, key) :
       h \in kept \/ h.at <= now - Win \/ Last(HitsOf(r, key)).at <= now - Win

\* Which hits the map o.rl holds after the call: old ones and the new one.
Carried(r, key, now, n, o) ==
  \A k \in Tracked(o.rl) : \A h \in o.rl.hits[k] :
    \/ k \in Tracked(r) /\ h \in r.hits[k] /\ k \notin o.evicted
    \/ o.ok /\ k = key /\ h = [at |-> now, n |-> n]

\* Which hits it no longer holds.
Dropped(r, now, o) ==
  \A k \in Tracked(r) : \A h \in r.hits[k] :
    \/ k \in o.evicted
    \/ k \in Tracked(o.rl) /\ h \in o.rl.hits[k]
    \/ h.at <= now - Win
    \/ Last(r.hits[k]).at <= now - Win

\* The last hit of a slice that is not fresh has left the window.
LEMMA NotFresh ==
  ASSUME NEW r, MapOK(r), NEW k \in Tracked(r), NEW now \in Int, NEW c \in Nat,
         Slice(r.hits[k], c), ~Fresh(r.hits[k], now)
  PROVE  Last(r.hits[k]).at <= now - Win
<1>1. Last(r.hits[k]) \in Hit
  BY LastIsLatest DEF Slice
<1>2. ~(Last(r.hits[k]).at > now - Win)
  BY DEF Fresh, Slice
<1> QED BY <1>1, <1>2, LimiterConfig DEF Hit

\* The first half of allow, up to the comparison with the limit.
LEMMA ComparedFacts ==
  ASSUME NEW r, MapOK(r), Recent(r), NEW key \in Keys, NEW now \in Nat,
         NEW n \in Nat, \A k \in Tracked(r) : Slice(r.hits[k], n)
  PROVE  LET s == Scheduled(r, now)
         IN  Compared(r, key, now, Live(HitsOf(s, key), now))
<1> DEFINE s == Scheduled(r, now)
           kept == Live(HitsOf(s, key), now)
<1>1. /\ MapOK(s) /\ Part(s, r)
      /\ \A k \in Tracked(r) \ Tracked(s) : ~Fresh(r.hits[k], now)
  BY ScheduledFacts
<1> HIDE DEF s
<1>2. HitsOf(s, key) \subseteq HitsOf(r, key) /\ IsFiniteSet(HitsOf(s, key))
  BY <1>1, FS_EmptySet DEF HitsOf, Part, MapOK
<1>3. kept \subseteq HitsOf(s, key) /\ \A h \in kept : h.at > now - Win
  BY DEF Live
<1>4. IsFiniteSet(kept)
  BY <1>2, <1>3, FS_Subset
<1>5. ASSUME NEW h \in HitsOf(r, key)
      PROVE  h \in kept \/ h.at <= now - Win \/ Last(HitsOf(r, key)).at <= now - Win
  <2>1. key \in Tracked(r) /\ HitsOf(r, key) = r.hits[key] /\ h \in Hit
    BY <1>5 DEF HitsOf, MapOK
  <2>2. CASE key \in Tracked(s)
    <3>1. HitsOf(s, key) = HitsOf(r, key)
      BY <2>1, <2>2, <1>1 DEF HitsOf, Part
    <3>2. h.at \in Nat
      BY <2>1 DEF Hit
    <3> QED BY <3>1, <3>2, LimiterConfig DEF Live
  <2>3. CASE key \notin Tracked(s)
    BY <2>1, <2>3, <1>1, NotFresh
  <2> QED BY <2>2, <2>3
<1>6. Compared(r, key, now, kept)
  BY <1>2, <1>3, <1>4, <1>5 DEF Compared
<1> QED BY <1>6 DEF s

\* What a refused call returns.
Refused(r, key, now, n, o) ==
  /\ MapOK(o.rl) /\ Recent(o.rl) /\ Cardinality(Tracked(o.rl)) <= MaxKeys
  /\ o.rl.lastSweep \in {r.lastSweep, now} /\ now - o.rl.lastSweep < Win
  /\ o.ok = FALSE /\ o.evicted = {}
  /\ Carried(r, key, now, n, o) /\ Dropped(r, now, o)
  /\ \E kept : Compared(r, key, now, kept) /\ Cardinality(kept) >= Limit

\* A refused call.
LEMMA RefuseFacts ==
  ASSUME NEW r, MapOK(r), Recent(r), Cardinality(Tracked(r)) <= MaxKeys,
         NEW key \in Keys, NEW now \in Nat,
         NEW n \in Nat, \A k \in Tracked(r) : Slice(r.hits[k], n),
         NEW o \in Allow(r, key, now, n), ~o.ok
  PROVE  Refused(r, key, now, n, o)
<1> DEFINE s == Scheduled(r, now)
           kept == Live(HitsOf(s, key), now)
<1>1. /\ MapOK(s) /\ Part(s, r) /\ Recent(s)
      /\ s.lastSweep \in {r.lastSweep, now} /\ now - s.lastSweep < Win
      /\ \A k \in Tracked(r) \ Tracked(s) : ~Fresh(r.hits[k], now)
  BY ScheduledFacts
<1>2. Compared(r, key, now, kept)
  BY ComparedFacts
<1>3. o \in (IF OverLimit(kept) THEN Refuse(s, key, kept)
                                ELSE Admit(s, key, kept, now, n))
  BY DEF Allow
<1> HIDE DEF s, kept
<1>4. OverLimit(kept) /\ o = [ok |-> FALSE, rl |-> Store(s, key, kept), evicted |-> {}]
  BY <1>3 DEF Refuse, Admit
<1>5. Cardinality(kept) >= Limit /\ kept # {}
  BY <1>4, FS_EmptySet, LimiterConfig DEF OverLimit
<1>6. /\ key \in Tracked(s) /\ key \in Tracked(r)
      /\ kept = Live(r.hits[key], now) /\ HitsOf(r, key) = r.hits[key]
  BY <1>5, <1>1 DEF HitsOf, Part, kept, Live
<1>7. kept \subseteq r.hits[key] /\ kept \subseteq Hit /\ IsFiniteSet(kept)
  BY <1>2, <1>6 DEF Compared, MapOK
<1>8. /\ MapOK(o.rl) /\ Tracked(o.rl) = Tracked(s) /\ o.rl.hits[key] = kept
      /\ \A k \in Tracked(s) \ {key} : o.rl.hits[k] = s.hits[k]
      /\ o.rl.lastSweep = s.lastSweep
  <2>1. Tracked(s) \cup {key} = Tracked(s)
    BY <1>6
  <2>2. o.rl = Store(s, key, kept)
    BY <1>4
  <2>3. /\ MapOK(Store(s, key, kept))
        /\ Tracked(Store(s, key, kept)) = Tracked(s) \cup {key}
        /\ Store(s, key, kept).hits[key] = kept
        /\ \A k \in Tracked(s) \ {key} : Store(s, key, kept).hits[k] = s.hits[k]
        /\ Store(s, key, kept).lastSweep = s.lastSweep
    BY <1>1, <1>5, <1>7, StoreFacts
  <2> QED BY <2>1, <2>2, <2>3
<1>9. Cardinality(Tracked(o.rl)) <= MaxKeys
  <2>1. Tracked(o.rl) \in SUBSET Tracked(r)
    BY <1>8, <1>1 DEF Part
  <2>2. IsFiniteSet(Tracked(r))
    BY DEF MapOK
  <2>3. /\ Cardinality(Tracked(r)) \in Nat
        /\ IsFiniteSet(Tracked(o.rl)) /\ Cardinality(Tracked(o.rl)) <= Cardinality(Tracked(r))
    BY <2>1, <2>2, FS_Subset, FS_CardinalityType
  <2>4. Cardinality(Tracked(o.rl)) \in Nat
    BY <2>3, FS_CardinalityType
  <2> QED BY <2>3, <2>4, LimiterConfig
<1>10. Recent(o.rl)
  <2>1. ASSUME NEW k \in Tracked(o.rl), k # key
        PROVE  Last(o.rl.hits[k]).at > o.rl.lastSweep - Win
    BY <2>1, <1>8, <1>1 DEF Recent
  <2>2. Last(o.rl.hits[key]).at > o.rl.lastSweep - Win
    <3>1. Slice(r.hits[key], n) /\ s.hits[key] = r.hits[key]
      BY <1>6, <1>1 DEF Part
    <3>2. Last(r.hits[key]).at > s.lastSweep - Win
      BY <3>1, <1>6, <1>1 DEF Recent
    <3>3. \/ Last(kept) = Last(r.hits[key])
          \/ Last(r.hits[key]).at <= now - Win /\ Last(kept).at > now - Win
      <4>1. Live(r.hits[key], now) # {} /\ now \in Int
        BY <1>5, <1>6
      <4>2. \/ Last(Live(r.hits[key], now)) = Last(r.hits[key])
            \/ /\ Last(r.hits[key]).at <= now - Win
               /\ Last(Live(r.hits[key], now)).at > now - Win
        BY <3>1, <4>1, LastOfPruned
      <4> QED BY <4>2, <1>6
    <3>4. Slice(kept, n)
      BY <3>1, <1>7, <1>5 DEF Slice
    <3>5. Last(kept).at \in Nat /\ Last(r.hits[key]).at \in Nat
      BY <3>1, <3>4, LastIsLatest DEF Slice, Hit
    <3>6. s.lastSweep \in Int /\ Win \in Nat
      BY <1>1, LimiterConfig DEF MapOK
    <3> QED BY <3>2, <3>3, <3>5, <3>6, <1>8
  <2> QED BY <2>1, <2>2 DEF Recent
<1>11. Carried(r, key, now, n, o)
  <2>1. ASSUME NEW k \in Tracked(o.rl), NEW h \in o.rl.hits[k]
        PROVE  k \in Tracked(r) /\ h \in r.hits[k]
    BY <2>1, <1>8, <1>7, <1>6, <1>1 DEF Part
  <2> QED BY <2>1, <1>4 DEF Carried
<1>12. Dropped(r, now, o)
  <2>1. ASSUME NEW k \in Tracked(r), NEW h \in r.hits[k], k \notin Tracked(o.rl)
        PROVE  Last(r.hits[k]).at <= now - Win
    BY <2>1, <1>8, <1>1, NotFresh
  <2>2. ASSUME NEW k \in Tracked(r), NEW h \in r.hits[k], k \in Tracked(o.rl), k # key
        PROVE  h \in o.rl.hits[k]
    BY <2>2, <1>8, <1>1 DEF Part
  <2>3. ASSUME NEW h \in r.hits[key]
        PROVE  \/ h \in o.rl.hits[key] \/ h.at <= now - Win
               \/ Last(r.hits[key]).at <= now - Win
    BY <2>3, <1>2, <1>6, <1>8 DEF Compared
  <2>4. key \in Tracked(o.rl)
    BY <1>6, <1>8
  <2> QED BY <2>1, <2>2, <2>3, <2>4 DEF Dropped
<1>13. o.ok = FALSE /\ o.evicted = {}
  BY <1>4
<1> QED BY <1>1, <1>2, <1>5, <1>8, <1>9, <1>10, <1>11, <1>12, <1>13 DEF Refused

\* The hit just recorded is the last of its slice.
LEMMA LastOfExtended ==
  ASSUME NEW n \in Nat, NEW ts, ts \subseteq Hit, \A h \in ts : h.n < n,
         NEW now \in Nat
  PROVE  LET new == [at |-> now, n |-> n]
         IN  ts \cup {new} \subseteq Hit /\ Last(ts \cup {new}) = new
<1> DEFINE new == [at |-> now, n |-> n]
<1>1. new \in Hit /\ new.n = n
  BY DEF Hit
<1>2. \A h \in ts : h.n \in Nat
  BY DEF Hit
<1>3. \A g \in ts \cup {new} : g.n <= new.n
  BY <1>1, <1>2
<1>4. ASSUME NEW h \in ts \cup {new}, \A g \in ts \cup {new} : g.n <= h.n
      PROVE  h = new
  <2>1. new.n <= h.n
    BY <1>4
  <2>2. h \notin ts
    BY <2>1, <1>1, <1>2
  <2> QED BY <2>2
<1> HIDE DEF new
<1>5. Last(ts \cup {new}) = new
  BY <1>3, <1>4 DEF Last
<1> QED BY <1>1, <1>5 DEF new

\* What an admitted call returns.
Admitted(r, key, now, n, o) ==
  /\ MapOK(o.rl) /\ Recent(o.rl) /\ Cardinality(Tracked(o.rl)) <= MaxKeys
  /\ o.rl.lastSweep \in {r.lastSweep, now} /\ now - o.rl.lastSweep < Win
  /\ o.ok = TRUE
  /\ o.evicted \subseteq Tracked(r) /\ key \notin o.evicted
  /\ o.evicted # {} => Cardinality(Tracked(r)) >= MaxKeys
  /\ Carried(r, key, now, n, o) /\ Dropped(r, now, o)
  /\ key \in Tracked(o.rl) /\ [at |-> now, n |-> n] \in o.rl.hits[key]
  /\ \E kept : Compared(r, key, now, kept) /\ Cardinality(kept) < Limit

\* An admitted call leaves a map of the right shape and size, has counted fewer hits
\* than the limit and stored one of its own (ratelimit.go, allow).
LEMMA AdmitFacts ==
  ASSUME NEW r, MapOK(r), Recent(r), Cardinality(Tracked(r)) <= MaxKeys,
         NEW key \in Keys, NEW now \in Nat, r.lastSweep <= now + MaxDelay,
         NEW n \in Nat, \A k \in Tracked(r) : Slice(r.hits[k], n),
         NEW o \in Allow(r, key, now, n), o.ok
  PROVE  Admitted(r, key, now, n, o)
<1> DEFINE s == Scheduled(r, now)
           kept == Live(HitsOf(s, key), now)
           new == [at |-> now, n |-> n]
<1>1. /\ MapOK(s) /\ Part(s, r) /\ Recent(s)
      /\ s.lastSweep \in {r.lastSweep, now} /\ now - s.lastSweep < Win
      /\ \A k \in Tracked(r) \ Tracked(s) : ~Fresh(r.hits[k], now)
  BY ScheduledFacts
<1>2. Compared(r, key, now, kept)
  BY ComparedFacts
<1>3. o \in (IF OverLimit(kept) THEN Refuse(s, key, kept)
                                ELSE Admit(s, key, kept, now, n))
  BY DEF Allow
<1>4. kept \subseteq HitsOf(s, key)
  BY DEF Live
<1> HIDE DEF s, kept, new
<1>5. ~OverLimit(kept)
  BY <1>3 DEF Refuse
<1>6. Cardinality(kept) < Limit
  <2>1. Cardinality(kept) \in Nat
    BY <1>2, FS_CardinalityType DEF Compared
  <2> QED BY <2>1, <1>5, LimiterConfig DEF OverLimit
<1>7. PICK room \in MakeRoom(s, key, now) :
        o = [ok |-> TRUE, rl |-> Store(room.rl, key, kept \cup {new}),
             evicted |-> room.evicted]
  BY <1>3, <1>5 DEF Admit, new
<1>8. /\ o.ok = TRUE /\ o.evicted = room.evicted
      /\ o.rl = Store(room.rl, key, kept \cup {new})
  BY <1>7
<1>9. /\ IsFiniteSet(Tracked(r)) /\ IsFiniteSet(Tracked(s))
      /\ Cardinality(Tracked(s)) \in Nat /\ Cardinality(Tracked(r)) \in Nat
      /\ Cardinality(Tracked(s)) <= Cardinality(Tracked(r))
  <2>1. IsFiniteSet(Tracked(r)) /\ IsFiniteSet(Tracked(s)) /\ Tracked(s) \subseteq Tracked(r)
    BY <1>1 DEF MapOK, Part
  <2> QED BY <2>1, FS_Subset, FS_CardinalityType
<1>10. Cardinality(Tracked(s)) <= MaxKeys
  BY <1>9, LimiterConfig
<1>11. /\ MapOK(room.rl) /\ Part(room.rl, s) /\ Recent(room.rl)
       /\ room.rl.lastSweep \in {s.lastSweep, now}
       /\ now - room.rl.lastSweep < Win
       /\ Cardinality(Tracked(room.rl) \cup {key}) <= MaxKeys
       /\ room.evicted \subseteq Tracked(s) \ Tracked(room.rl)
       /\ key \notin room.evicted
       /\ room.evicted # {} => Cardinality(Tracked(s)) >= MaxKeys
       /\ \A k \in Tracked(s) \ Tracked(room.rl) :
            k \in room.evicted \/ ~Fresh(s.hits[k], now)
  BY <1>1, <1>10, MakeRoomFacts
<1>12. /\ kept \subseteq Hit /\ IsFiniteSet(kept) /\ \A h \in kept : h.n < n
       /\ \A h \in kept : key \in Tracked(r) /\ h \in r.hits[key]
  <2>1. \A h \in kept : key \in Tracked(r) /\ h \in r.hits[key]
    BY <1>2 DEF Compared, HitsOf
  <2>2. IsFiniteSet(kept)
    BY <1>2 DEF Compared
  <2> QED BY <2>1, <2>2 DEF Slice
<1>13. /\ kept \cup {new} \subseteq Hit /\ Last(kept \cup {new}) = new
       /\ IsFiniteSet(kept \cup {new}) /\ kept \cup {new} # {}
  <2>1. kept \cup {new} \subseteq Hit /\ Last(kept \cup {new}) = new
    BY <1>12, LastOfExtended DEF new
  <2>2. IsFiniteSet(kept \cup {new})
    BY <1>12, FS_AddElement
  <2> QED BY <2>1, <2>2
<1>14. /\ MapOK(o.rl) /\ Tracked(o.rl) = Tracked(room.rl) \cup {key}
       /\ o.rl.hits[key] = kept \cup {new}
       /\ \A k \in Tracked(room.rl) \ {key} : o.rl.hits[k] = room.rl.hits[k]
       /\ o.rl.lastSweep = room.rl.lastSweep
  <2> DEFINE ts == kept \cup {new}
             q  == room.rl
  <2>1. MapOK(q) /\ ts \subseteq Hit /\ IsFiniteSet(ts) /\ ts # {}
    BY <1>11, <1>13
  <2>2. o.rl = Store(q, key, ts)
    BY <1>8
  <2> HIDE DEF ts, q
  <2>3. /\ MapOK(Store(q, key, ts)) /\ Tracked(Store(q, key, ts)) = Tracked(q) \cup {key}
        /\ Store(q, key, ts).hits[key] = ts
        /\ \A k \in Tracked(q) \ {key} : Store(q, key, ts).hits[k] = q.hits[k]
        /\ Store(q, key, ts).lastSweep = q.lastSweep
    BY <2>1, StoreFacts
  <2> QED BY <2>2, <2>3 DEF ts, q
<1>15. Recent(o.rl)
  <2>1. ASSUME NEW k \in Tracked(o.rl), k # key
        PROVE  Last(o.rl.hits[k]).at > o.rl.lastSweep - Win
    BY <2>1, <1>14, <1>11 DEF Recent
  <2>2. Last(o.rl.hits[key]).at > o.rl.lastSweep - Win
    <3>1. Last(o.rl.hits[key]).at = now
      BY <1>13, <1>14 DEF new
    <3>2. o.rl.lastSweep \in {r.lastSweep, now} /\ r.lastSweep \in Int
      BY <1>14, <1>11, <1>1 DEF MapOK
    <3> QED BY <3>1, <3>2, LimiterConfig, CallerConfig
  <2> QED BY <2>1, <2>2 DEF Recent
<1>16. Carried(r, key, now, n, o)
  <2>1. ASSUME NEW k \in Tracked(o.rl), NEW h \in o.rl.hits[k], k # key
        PROVE  k \in Tracked(r) /\ h \in r.hits[k] /\ k \notin o.evicted
    <3>1. k \in Tracked(room.rl) /\ h \in room.rl.hits[k]
      BY <2>1, <1>14
    <3>2. k \in Tracked(s) /\ h \in s.hits[k] /\ k \notin room.evicted
      BY <3>1, <1>11 DEF Part
    <3> QED BY <3>2, <1>1, <1>8 DEF Part
  <2>2. ASSUME NEW h \in o.rl.hits[key]
        PROVE  h = new \/ (key \in Tracked(r) /\ h \in r.hits[key])
    BY <2>2, <1>14, <1>12
  <2> QED BY <2>1, <2>2, <1>8, <1>11 DEF Carried, new
<1>17. Dropped(r, now, o)
  <2>1. ASSUME NEW k \in Tracked(r), NEW h \in r.hits[k], k # key
        PROVE  \/ k \in o.evicted
               \/ (k \in Tracked(o.rl) /\ h \in o.rl.hits[k])
               \/ Last(r.hits[k]).at <= now - Win
    <3>1. CASE k \in Tracked(room.rl)
      <4>1. k \in Tracked(s) /\ room.rl.hits[k] = s.hits[k] /\ s.hits[k] = r.hits[k]
        BY <3>1, <1>11, <1>1 DEF Part
      <4> QED BY <3>1, <4>1, <2>1, <1>14
    <3>2. CASE k \in Tracked(s) /\ k \notin Tracked(room.rl)
      <4>1. s.hits[k] = r.hits[k]
        BY <3>2, <1>1 DEF Part
      <4>2. k \in o.evicted \/ ~Fresh(r.hits[k], now)
        BY <3>2, <4>1, <1>11, <1>8
      <4>3. now \in Int /\ Slice(r.hits[k], n)
        OBVIOUS
      <4>4. ~Fresh(r.hits[k], now) => Last(r.hits[k]).at <= now - Win
        BY <4>3, NotFresh
      <4> QED BY <4>2, <4>4
    <3>3. CASE k \notin Tracked(s)
      BY <3>3, <1>1, NotFresh
    <3> QED BY <3>1, <3>2, <3>3
  <2>2. ASSUME key \in Tracked(r), NEW h \in r.hits[key]
        PROVE  \/ h \in o.rl.hits[key] \/ h.at <= now - Win
               \/ Last(r.hits[key]).at <= now - Win
    BY <2>2, <1>2, <1>14 DEF Compared, HitsOf
  <2> QED BY <2>1, <2>2, <1>14 DEF Dropped
<1>18. o.evicted \subseteq Tracked(r) /\ key \notin o.evicted
  BY <1>8, <1>11, <1>1 DEF Part
<1>19. o.evicted # {} => Cardinality(Tracked(r)) >= MaxKeys
  BY <1>8, <1>9, <1>11, LimiterConfig
<1>20. Cardinality(Tracked(o.rl)) <= MaxKeys
  BY <1>11, <1>14
<1>21. o.rl.lastSweep \in {r.lastSweep, now} /\ now - o.rl.lastSweep < Win
  BY <1>14, <1>11, <1>1
<1>22. key \in Tracked(o.rl) /\ new \in o.rl.hits[key]
  BY <1>14
<1> QED BY <1>2, <1>6, <1>8, <1>14, <1>15, <1>16, <1>17, <1>18, <1>19, <1>20,
           <1>21, <1>22 DEF new, Admitted

-----------------------------------------------------------------------------
(* The map and the log                                                     *)

\* The admissions of a key in the `span' ticks that end at now.
InWindow(key, now, span) == {a \in log : a.key = key /\ a.at > now - span}

\* The slices of the map are slices: their hits are admissions of the log.
LEMMA Slices ==
  ASSUME Inv
  PROVE  \A k \in Tracked(rl) : Slice(rl.hits[k], calls)
<1>1. ASSUME NEW k \in Tracked(rl) PROVE Slice(rl.hits[k], calls)
  <2>1. rl.hits[k] \subseteq Hit /\ rl.hits[k] # {}
    BY DEF Inv, TypeOK, MapOK
  <2>2. \A h \in rl.hits[k] : [key |-> k, at |-> h.at, n |-> h.n] \in log
    BY DEF Inv, HitsLogged
  <2>3. \A h \in rl.hits[k] : h.n < calls
    BY <2>2 DEF Inv, LogDated
  <2>4. ASSUME NEW g \in rl.hits[k], NEW h \in rl.hits[k], g.n = h.n PROVE g = h
    <3>1. [key |-> k, at |-> g.at, n |-> g.n] = [key |-> k, at |-> h.at, n |-> h.n]
      BY <2>2, <2>4 DEF Inv, LogDated
    <3>2. g.at = h.at
      BY <3>1
    <3> QED BY <2>1, <2>4, <3>2 DEF Hit
  <2> QED BY <2>1, <2>3, <2>4 DEF Slice
<1> QED BY <1>1

\* A hit is at most MaxDelay younger than the last of its slice.
LEMMA LastIsYoung ==
  ASSUME Inv, NEW k \in Tracked(rl), NEW h \in rl.hits[k]
  PROVE  /\ h.at \in Nat /\ Last(rl.hits[k]).at \in Nat
         /\ h.at <= Last(rl.hits[k]).at + MaxDelay
<1> DEFINE l == Last(rl.hits[k])
<1>1. calls \in Nat /\ MaxDelay \in Nat
  BY CallerConfig DEF Inv, TypeOK
<1>2. Slice(rl.hits[k], calls)
  BY Slices
<1>3. l \in rl.hits[k] /\ h.n <= l.n
  BY <1>1, <1>2, LastIsLatest
<1> HIDE DEF l
<1>4. h \in Hit /\ l \in Hit
  BY <1>2, <1>3 DEF Slice
<1>5. h.at \in Nat /\ l.at \in Nat /\ h.n \in Nat /\ l.n \in Nat
  BY <1>4 DEF Hit
<1>6. CASE h.n = l.n
  <2>1. h = l
    BY <1>2, <1>3, <1>6 DEF Slice
  <2> QED BY <2>1, <1>1, <1>5 DEF l
<1>7. CASE h.n < l.n
  <2> DEFINE a == [key |-> k, at |-> h.at, n |-> h.n]
             b == [key |-> k, at |-> l.at, n |-> l.n]
  <2>1. a \in log /\ b \in log
    BY <1>3 DEF Inv, HitsLogged
  <2>2. a.n < b.n => a.at <= b.at + MaxDelay
    BY <2>1 DEF Inv, LogOrdered
  <2> QED BY <2>2, <1>5, <1>7 DEF l
<1> QED BY <1>3, <1>5, <1>6, <1>7

\* An admission that is in every window a call can still ask for is in the
\* slice that a call of its key compares with the limit.
LEMMA ComparedCovers ==
  ASSUME Inv, NEW key \in Keys, NEW now \in Nat, now <= clock,
         clock - now <= MaxDelay, NEW kept, Compared(rl, key, now, kept)
  PROVE  Cardinality(InWindow(key, now, Win - 2 * MaxDelay)) <= Cardinality(kept)
<1> DEFINE W == InWindow(key, now, Win - 2 * MaxDelay)
           f == [a \in W |-> Entry(a)]
<1>1. /\ clock \in Nat /\ MaxDelay \in Nat /\ Win \in Nat /\ log \subseteq Admission
  BY LimiterConfig, CallerConfig DEF Inv, TypeOK
<1>2. ASSUME NEW a \in W PROVE Entry(a) \in kept
  <2>1. /\ a \in log /\ a.key = key /\ a.at \in Nat
        /\ a.at > now - (Win - 2 * MaxDelay)
    BY <1>1 DEF InWindow, Admission
  <2>2. a.at > clock - Win + MaxDelay
    BY <2>1, <1>1
  <2>3. key \in Tracked(rl) /\ Entry(a) \in rl.hits[key]
    BY <2>1, <2>2 DEF Inv, Remembered
  <2>4. /\ Entry(a).at = a.at
        /\ Entry(a).at <= Last(rl.hits[key]).at + MaxDelay
        /\ Last(rl.hits[key]).at \in Nat
    BY <2>3, LastIsYoung DEF Entry
  <2>5. ~(Entry(a).at <= now - Win) /\ ~(Last(rl.hits[key]).at <= now - Win)
    BY <2>1, <2>4, <1>1
  <2> QED BY <2>3, <2>5 DEF Compared, HitsOf
<1>3. ASSUME NEW a \in W, NEW b \in W, Entry(a) = Entry(b) PROVE a = b
  <2>1. a.n = b.n
    BY <1>3 DEF Entry
  <2> QED BY <2>1 DEF InWindow, Inv, LogDated
<1>4. f \in [W -> kept] /\ \A a, b \in W : f[a] = f[b] => a = b
  BY <1>2, <1>3
<1>5. IsFiniteSet(kept)
  BY DEF Compared
<1> HIDE DEF W, f
<1>6. Cardinality(W) <= Cardinality(kept)
  BY <1>4, <1>5, CountByInjection
<1> QED BY <1>6 DEF W

\* What a call compares with the limit are admissions of its key and window.
LEMMA ComparedIsCovered ==
  ASSUME Inv, NEW key \in Keys, NEW now \in Nat,
         NEW kept, Compared(rl, key, now, kept)
  PROVE  Cardinality(kept) <= Cardinality(InWindow(key, now, Win))
<1> DEFINE W == InWindow(key, now, Win)
           f == [h \in kept |-> [key |-> key, at |-> h.at, n |-> h.n]]
<1>1. ASSUME NEW h \in kept
      PROVE  h \in Hit /\ [key |-> key, at |-> h.at, n |-> h.n] \in W
  <2>1. key \in Tracked(rl) /\ h \in rl.hits[key] /\ h.at > now - Win
    BY DEF Compared, HitsOf
  <2>2. h \in Hit
    BY <2>1 DEF Inv, TypeOK, MapOK
  <2>3. [key |-> key, at |-> h.at, n |-> h.n] \in log
    BY <2>1 DEF Inv, HitsLogged
  <2> QED BY <2>1, <2>2, <2>3 DEF InWindow
<1>2. ASSUME NEW g \in kept, NEW h \in kept, f[g] = f[h] PROVE g = h
  <2>1. g.at = h.at /\ g.n = h.n
    BY <1>2
  <2>2. g \in Hit /\ h \in Hit
    BY <1>1
  <2> QED BY <2>1, <2>2 DEF Hit
<1>3. f \in [kept -> W] /\ \A g, h \in kept : f[g] = f[h] => g = h
  BY <1>1, <1>2
<1>4. IsFiniteSet(W)
  <2>1. IsFiniteSet(log) /\ W \in SUBSET log
    BY DEF Inv, TypeOK, InWindow
  <2> HIDE DEF W
  <2> QED BY <2>1, FS_Subset
<1> HIDE DEF W, f
<1>5. Cardinality(kept) <= Cardinality(W)
  BY <1>3, <1>4, CountByInjection
<1> QED BY <1>5 DEF W

-----------------------------------------------------------------------------
(* The invariant                                                           *)

\* The admission of the call that enters now.
New(p) == [key |-> p.key, at |-> p.now, n |-> calls]

\* What is known of a call that enters and of the step it makes.
LEMMA EnterFacts ==
  ASSUME Inv, NEW p \in pending, NEW o \in Allow(rl, p.key, p.now, calls)
  PROVE  /\ p.key \in Keys /\ p.now \in Nat /\ p.now <= clock /\ clock - p.now <= MaxDelay
         /\ MapOK(o.rl) /\ Recent(o.rl) /\ Cardinality(Tracked(o.rl)) <= MaxKeys
         /\ o.rl.lastSweep \in {rl.lastSweep, p.now} /\ p.now - o.rl.lastSweep < Win
         /\ o.ok \in BOOLEAN
         /\ o.evicted \subseteq Tracked(rl) /\ p.key \notin o.evicted
         /\ o.evicted # {} => Cardinality(Tracked(rl)) >= MaxKeys
         /\ Carried(rl, p.key, p.now, calls, o) /\ Dropped(rl, p.now, o)
         /\ o.ok => /\ p.key \in Tracked(o.rl)
                    /\ [at |-> p.now, n |-> calls] \in o.rl.hits[p.key]
                    /\ Cardinality(InWindow(p.key, p.now, Win - 2 * MaxDelay)) < Limit
         /\ ~o.ok => /\ o.evicted = {}
                     /\ Cardinality(InWindow(p.key, p.now, Win)) >= Limit
<1> DEFINE key == p.key
           now == p.now
<1>1. /\ key \in Keys /\ now \in Nat /\ clock \in Nat /\ now <= clock
      /\ clock - now <= MaxDelay /\ calls \in Nat /\ MapOK(rl)
  BY DEF Inv, TypeOK, Call
<1>2. Recent(rl) /\ Cardinality(Tracked(rl)) <= MaxKeys
  BY DEF Inv, TrackedIsRecent, KeysBounded, Recent
<1>3. rl.lastSweep <= now + MaxDelay
  <2>1. rl.lastSweep \in Int /\ rl.lastSweep <= clock /\ MaxDelay \in Nat
    BY <1>1, CallerConfig DEF MapOK, Inv, SweepDated
  <2> QED BY <2>1, <1>1
<1>4. \A k \in Tracked(rl) : Slice(rl.hits[k], calls)
  BY Slices
<1>5. o \in Allow(rl, key, now, calls)
  OBVIOUS
<1>6. /\ Cardinality(InWindow(key, now, Win - 2 * MaxDelay)) \in Nat
      /\ Cardinality(InWindow(key, now, Win)) \in Nat
  <2>1. /\ InWindow(key, now, Win - 2 * MaxDelay) \in SUBSET log
        /\ InWindow(key, now, Win) \in SUBSET log /\ IsFiniteSet(log)
    BY DEF InWindow, Inv, TypeOK
  <2> QED BY <2>1, FS_Subset, FS_CardinalityType
<1> HIDE DEF key, now
<1>7. CASE o.ok
  <2>1. /\ MapOK(o.rl) /\ Recent(o.rl) /\ Cardinality(Tracked(o.rl)) <= MaxKeys
        /\ o.rl.lastSweep \in {rl.lastSweep, now} /\ now - o.rl.lastSweep < Win
        /\ o.ok = TRUE
        /\ o.evicted \subseteq Tracked(rl) /\ key \notin o.evicted
        /\ o.evicted # {} => Cardinality(Tracked(rl)) >= MaxKeys
        /\ Carried(rl, key, now, calls, o) /\ Dropped(rl, now, o)
        /\ key \in Tracked(o.rl) /\ [at |-> now, n |-> calls] \in o.rl.hits[key]
        /\ \E kept : Compared(rl, key, now, kept) /\ Cardinality(kept) < Limit
    <3>1. Admitted(rl, key, now, calls, o)
      BY <1>1, <1>2, <1>3, <1>4, <1>5, <1>7, AdmitFacts
    <3> QED BY <3>1 DEF Admitted
  <2>2. PICK kept : Compared(rl, key, now, kept) /\ Cardinality(kept) < Limit
    BY <2>1
  <2>3. Cardinality(InWindow(key, now, Win - 2 * MaxDelay)) <= Cardinality(kept)
    BY <1>1, <2>2, ComparedCovers
  <2>4. Cardinality(kept) \in Nat
    BY <2>2, FS_CardinalityType DEF Compared
  <2>5. Cardinality(InWindow(key, now, Win - 2 * MaxDelay)) < Limit
    BY <2>2, <2>3, <2>4, <1>6, LimiterConfig
  <2> QED BY <1>1, <1>7, <2>1, <2>5 DEF key, now
<1>8. CASE ~o.ok
  <2>1. Refused(rl, key, now, calls, o)
    BY <1>1, <1>2, <1>4, <1>5, <1>8, RefuseFacts
  <2>2. PICK kept : Compared(rl, key, now, kept) /\ Cardinality(kept) >= Limit
    BY <2>1 DEF Refused
  <2>3. Cardinality(kept) <= Cardinality(InWindow(key, now, Win))
    BY <1>1, <2>2, ComparedIsCovered
  <2>4. Cardinality(kept) \in Nat
    BY <2>2, FS_CardinalityType DEF Compared
  <2>5. Cardinality(InWindow(key, now, Win)) >= Limit
    BY <2>2, <2>3, <2>4, <1>6, LimiterConfig
  <2> QED BY <1>1, <1>8, <2>1, <2>5 DEF key, now, Refused
<1> QED BY <1>7, <1>8

\* A call that enters preserves the invariant.
LEMMA EnterInv ==
  ASSUME Inv, NEW p \in pending, Enter(p)
  PROVE  Inv'
<1>1. PICK o \in Allow(rl, p.key, p.now, calls) :
        /\ pending' = pending \ {p}
        /\ rl' = o.rl
        /\ calls' = calls + 1
        /\ log' = {a \in log : a.key \notin o.evicted}
                    \cup (IF o.ok THEN {New(p)} ELSE {})
        /\ answer' = [key |-> p.key, now |-> p.now, ok |-> o.ok]
        /\ clock' = clock
  BY DEF Enter, New
<1>2. /\ p.key \in Keys /\ p.now \in Nat /\ p.now <= clock /\ clock - p.now <= MaxDelay
      /\ MapOK(rl') /\ Recent(rl') /\ Cardinality(Tracked(rl')) <= MaxKeys
      /\ rl'.lastSweep \in {rl.lastSweep, p.now}
      /\ o.ok \in BOOLEAN
      /\ o.evicted \subseteq Tracked(rl) /\ p.key \notin o.evicted
      /\ Carried(rl, p.key, p.now, calls, o) /\ Dropped(rl, p.now, o)
      /\ o.ok => /\ p.key \in Tracked(rl')
                 /\ [at |-> p.now, n |-> calls] \in rl'.hits[p.key]
                 /\ Cardinality(InWindow(p.key, p.now, Win - 2 * MaxDelay)) < Limit
      /\ ~o.ok => /\ o.evicted = {}
                  /\ Cardinality(InWindow(p.key, p.now, Win)) >= Limit
  BY <1>1, EnterFacts
<1>3. /\ clock \in Nat /\ calls \in Nat /\ MaxDelay \in Nat /\ Win \in Nat
      /\ Limit \in Nat
      /\ log \subseteq Admission /\ IsFiniteSet(log)
      /\ \A a \in log : a.at \in Nat /\ a.n \in Nat /\ a.at <= clock /\ a.n < calls
  BY LimiterConfig, CallerConfig DEF Inv, TypeOK, LogDated, Admission
<1>4. New(p) \in Admission /\ New(p).key = p.key /\ New(p).at = p.now /\ New(p).n = calls
  BY <1>2, <1>3 DEF New, Admission
<1>5. \A a \in log' : a = New(p) \/ a \in log
  BY <1>1
<1>6. TypeOK'
  <2>1. /\ pending' \subseteq Call
        /\ \A x, y \in pending' : x.by = y.by => x = y
        /\ \A x \in pending' : x.now <= clock' /\ clock' - x.now <= MaxDelay
    BY <1>1 DEF Inv, TypeOK
  <2>2. log' \subseteq Admission
    BY <1>3, <1>4, <1>5
  <2>3. IsFiniteSet(log')
    <3>1. IsFiniteSet({a \in log : a.key \notin o.evicted})
      BY <1>3, FS_Subset
    <3>2. IsFiniteSet({a \in log : a.key \notin o.evicted} \cup {New(p)})
      BY <3>1, FS_AddElement
    <3> QED BY <3>1, <3>2, <1>1
  <2>4. answer' \in Answer
    BY <1>1, <1>2 DEF Answer
  <2>5. MapOK(rl)'
    BY <1>2 DEF MapOK, Tracked
  <2> QED BY <1>1, <1>3, <2>1, <2>2, <2>3, <2>4, <2>5 DEF TypeOK
<1>7. HitsLogged'
  <2> SUFFICES ASSUME NEW k \in Tracked(rl'), NEW h \in rl'.hits[k]
               PROVE  [key |-> k, at |-> h.at, n |-> h.n] \in log'
    BY DEF HitsLogged, Tracked
  <2>1. CASE k \in Tracked(rl) /\ h \in rl.hits[k] /\ k \notin o.evicted
    <3>1. [key |-> k, at |-> h.at, n |-> h.n] \in log
      BY <2>1 DEF Inv, HitsLogged
    <3> QED BY <3>1, <2>1, <1>1
  <2>2. CASE o.ok /\ k = p.key /\ h = [at |-> p.now, n |-> calls]
    <3>1. [key |-> k, at |-> h.at, n |-> h.n] = New(p)
      BY <2>2 DEF New
    <3> QED BY <3>1, <2>2, <1>1
  <2> QED BY <2>1, <2>2, <1>1, <1>2 DEF Carried
<1>8. LogDated'
  <2>1. \A a \in log' : a.at <= clock' /\ a.n < calls'
    BY <1>1, <1>2, <1>3, <1>4, <1>5
  <2>2. ASSUME NEW a \in log', NEW b \in log', a.n = b.n PROVE a = b
    <3>1. CASE a \in log /\ b \in log
      BY <3>1, <2>2 DEF Inv, LogDated
    <3>2. \A c \in log : c.n # New(p).n
      BY <1>3, <1>4
    <3> QED BY <3>1, <3>2, <2>2, <1>5
  <2> QED BY <2>1, <2>2 DEF LogDated
<1>9. LogOrdered'
  <2> SUFFICES ASSUME NEW a \in log', NEW b \in log', a.n < b.n
               PROVE  a.at <= b.at + MaxDelay
    BY DEF LogOrdered
  <2>1. CASE a \in log /\ b \in log
    BY <2>1 DEF Inv, LogOrdered
  <2>2. CASE a \in log /\ b = New(p)
    BY <2>2, <1>2, <1>3, <1>4
  <2>3. CASE a = New(p)
    BY <2>3, <1>3, <1>4, <1>5
  <2> QED BY <2>1, <2>2, <2>3, <1>5
<1>10. Remembered'
  <2> SUFFICES ASSUME NEW a \in log', a.at > clock - Win + MaxDelay
               PROVE  a.key \in Tracked(rl') /\ Entry(a) \in rl'.hits[a.key]
    BY <1>1 DEF Remembered, Tracked, Entry
  <2>1. CASE o.ok /\ a = New(p)
    BY <2>1, <1>2, <1>4 DEF Entry
  <2>2. CASE a \in log /\ a.key \notin o.evicted
    <3>1. a.key \in Tracked(rl) /\ Entry(a) \in rl.hits[a.key]
      BY <2>2 DEF Inv, Remembered
    <3>2. /\ Entry(a).at = a.at /\ a.at \in Nat
          /\ a.at <= Last(rl.hits[a.key]).at + MaxDelay
          /\ Last(rl.hits[a.key]).at \in Nat
      BY <3>1, LastIsYoung DEF Entry
    <3>3. ~(Entry(a).at <= p.now - Win) /\ ~(Last(rl.hits[a.key]).at <= p.now - Win)
      BY <3>2, <1>2, <1>3
    <3> QED BY <3>1, <3>3, <2>2, <1>1, <1>2 DEF Dropped
  <2> QED BY <2>1, <2>2, <1>1
<1>11. SweepDated'
  <2>1. rl.lastSweep <= clock
    BY DEF Inv, SweepDated
  <2>2. rl'.lastSweep <= clock
    BY <2>1, <1>2
  <2> QED BY <2>2, <1>1 DEF SweepDated
<1>12. TrackedIsRecent' /\ KeysBounded'
  BY <1>2 DEF TrackedIsRecent, KeysBounded, Recent, Tracked
<1>13. WithinLimit'
  <2> DEFINE span == Win - 2 * MaxDelay
  <2> SUFFICES ASSUME NEW a \in log'
               PROVE  Cardinality(Before(a, span)') <= Limit
    BY DEF WithinLimit, Before
  <2> HIDE DEF span
  <2>1. CASE a \in log
    <3>1. Before(a, span)' \subseteq Before(a, span)
      <4>1. ~(New(p).n <= a.n)
        BY <2>1, <1>3, <1>4
      <4> QED BY <4>1, <1>5 DEF Before
    <3>2. Cardinality(Before(a, span)) <= Limit
      BY <2>1 DEF Inv, WithinLimit, span
    <3>3. IsFiniteSet(Before(a, span))
      <4>1. Before(a, span) \in SUBSET log
        BY DEF Before
      <4> QED BY <4>1, <1>3, FS_Subset
    <3>4. /\ Cardinality(Before(a, span)) \in Nat /\ IsFiniteSet(Before(a, span)')
          /\ Cardinality(Before(a, span)') <= Cardinality(Before(a, span))
      BY <3>1, <3>3, FS_Subset, FS_CardinalityType
    <3>5. Cardinality(Before(a, span)') \in Nat
      BY <3>4, FS_CardinalityType
    <3> QED BY <3>2, <3>4, <3>5, <1>3
  <2>2. CASE o.ok /\ a = New(p)
    <3> DEFINE W == InWindow(p.key, p.now, span)
    <3>1. Before(a, span)' \subseteq W \cup {New(p)}
      BY <2>2, <1>4, <1>5 DEF Before, InWindow
    <3>2. IsFiniteSet(W) /\ Cardinality(W) < Limit
      <4>1. W \in SUBSET log
        BY DEF InWindow
      <4>2. Cardinality(W) < Limit
        BY <2>2, <1>2 DEF span
      <4> HIDE DEF W
      <4> QED BY <4>1, <4>2, <1>3, FS_Subset
    <3> HIDE DEF W
    <3>3. IsFiniteSet(W \cup {New(p)}) /\ Cardinality(W \cup {New(p)}) <= Limit
      BY <3>2, <1>3, AddOne
    <3>4. /\ IsFiniteSet(Before(a, span)')
          /\ Cardinality(Before(a, span)') <= Cardinality(W \cup {New(p)})
      BY <3>1, <3>3, FS_Subset
    <3>5. Cardinality(Before(a, span)') \in Nat /\ Cardinality(W \cup {New(p)}) \in Nat
      BY <3>3, <3>4, FS_CardinalityType
    <3> QED BY <3>3, <3>4, <3>5, <1>3
  <2> QED BY <2>1, <2>2, <1>1
<1>14. RefusalJustified'
  <2>1. CASE o.ok
    BY <2>1, <1>1 DEF RefusalJustified
  <2>2. CASE ~o.ok
    <3>1. log' = log
      BY <2>2, <1>1, <1>2
    <3>2. {a \in log' : a.key = answer'.key /\ a.at > answer'.now - Win}
            = InWindow(p.key, p.now, Win)
      BY <3>1, <1>1 DEF InWindow
    <3> QED BY <3>2, <2>2, <1>2 DEF RefusalJustified
  <2> QED BY <2>1, <2>2
<1> QED BY <1>6, <1>7, <1>8, <1>9, <1>10, <1>11, <1>12, <1>13, <1>14 DEF Inv

\* A new limiter satisfies the invariant.
LEMMA InitInv == Init => Inv
<1> SUFFICES ASSUME Init PROVE Inv
  OBVIOUS
<1>1. /\ rl.hits = [k \in {} |-> {}] /\ rl.lastSweep = -Win /\ Tracked(rl) = {}
      /\ rl = [hits |-> rl.hits, lastSweep |-> rl.lastSweep]
  BY DEF Init, NewLimiter, Tracked
<1>2. /\ IsFiniteSet({}) /\ Cardinality({}) = 0
  BY FS_EmptySet
<1>3. MapOK(rl)
  <2>1. rl.hits = [k \in Tracked(rl) |-> rl.hits[k]]
    BY <1>1
  <2>2. rl.lastSweep \in Int
    BY <1>1, LimiterConfig
  <2> QED BY <1>1, <1>2, <2>1, <2>2 DEF MapOK
<1>4. TypeOK
  <2>1. answer \in Answer
    BY DEF Init, Answer
  <2>2. pending = {} /\ log = {} /\ clock = 0 /\ calls = 0
    BY DEF Init
  <2> QED BY <1>2, <1>3, <2>1, <2>2 DEF TypeOK
<1>5. HitsLogged /\ TrackedIsRecent
  BY <1>1 DEF HitsLogged, TrackedIsRecent
<1>6. KeysBounded
  BY <1>1, <1>2, LimiterConfig DEF KeysBounded
<1>7. LogDated /\ LogOrdered /\ Remembered /\ WithinLimit
  BY DEF Init, LogDated, LogOrdered, Remembered, WithinLimit
<1>8. SweepDated
  BY <1>1, LimiterConfig DEF Init, SweepDated
<1>9. RefusalJustified
  BY DEF Init, RefusalJustified
<1> QED BY <1>4, <1>5, <1>6, <1>7, <1>8, <1>9 DEF Inv

\* Time preserves it: windows only move forward.
LEMMA TickInv == ASSUME Inv, Tick PROVE Inv'
<1>1. /\ clock \in Nat /\ clock' = clock + 1 /\ MaxDelay \in Nat /\ Win \in Nat
      /\ UNCHANGED <<pending, rl, calls, log, answer>>
      /\ \A p \in pending : clock - p.now < MaxDelay /\ p.now \in Nat
  BY LimiterConfig, CallerConfig DEF Tick, Inv, TypeOK, Call
<1>2. TypeOK'
  <2>1. \A p \in pending : p.now <= clock' /\ clock' - p.now <= MaxDelay
    <3> SUFFICES ASSUME NEW p \in pending
                 PROVE  p.now <= clock' /\ clock' - p.now <= MaxDelay
      OBVIOUS
    <3>1. p.now <= clock /\ p.now \in Nat /\ clock - p.now < MaxDelay
      BY <1>1 DEF Inv, TypeOK
    <3> QED BY <3>1, <1>1
  <2>2. MapOK(rl)'
    BY <1>1 DEF Inv, TypeOK, MapOK, Tracked
  <2> QED BY <1>1, <2>1, <2>2 DEF Inv, TypeOK
<1>3. /\ HitsLogged' /\ LogOrdered' /\ TrackedIsRecent' /\ KeysBounded'
  BY <1>1 DEF Inv, HitsLogged, LogOrdered, TrackedIsRecent, KeysBounded, Tracked
<1>4. WithinLimit' /\ RefusalJustified'
  BY <1>1 DEF Inv, WithinLimit, Before, RefusalJustified
<1>5. \A a \in log : a.at \in Nat
  BY DEF Inv, TypeOK, Admission
<1>6. LogDated'
  <2>1. \A a \in log : a.at <= clock'
    BY <1>1, <1>5 DEF Inv, LogDated
  <2> QED BY <1>1, <2>1 DEF Inv, LogDated
<1>7. Remembered'
  <2>1. \A a \in log : a.at > clock' - Win + MaxDelay => a.at > clock - Win + MaxDelay
    BY <1>1, <1>5
  <2> QED BY <1>1, <2>1 DEF Inv, Remembered, Tracked, Entry
<1>8. SweepDated'
  <2>1. rl.lastSweep \in Int /\ rl.lastSweep <= clock
    BY DEF Inv, TypeOK, MapOK, SweepDated
  <2> QED BY <1>1, <2>1 DEF SweepDated
<1> QED BY <1>2, <1>3, <1>4, <1>6, <1>7, <1>8 DEF Inv

\* A call that has read the clock preserves it.
LEMMA ReadClockInv ==
  ASSUME Inv, NEW c \in Callers, NEW k \in Keys, ReadClock(c, k)
  PROVE  Inv'
<1> DEFINE new == [by |-> c, key |-> k, now |-> clock]
<1>1. /\ pending' = pending \cup {new} /\ \A p \in pending : p.by # c
      /\ UNCHANGED <<clock, rl, calls, log, answer>>
      /\ clock \in Nat /\ MaxDelay \in Nat
  BY CallerConfig DEF ReadClock, Inv, TypeOK
<1>2. TypeOK'
  <2>1. pending' \subseteq Call
    BY <1>1 DEF Inv, TypeOK, Call
  <2>2. \A p, q \in pending' : p.by = q.by => p = q
    BY <1>1 DEF Inv, TypeOK
  <2>3. \A p \in pending' : p.now <= clock /\ clock - p.now <= MaxDelay
    BY <1>1 DEF Inv, TypeOK
  <2>4. MapOK(rl)'
    BY <1>1 DEF Inv, TypeOK, MapOK, Tracked
  <2> QED BY <1>1, <2>1, <2>2, <2>3, <2>4 DEF Inv, TypeOK
<1>3. HitsLogged' /\ LogDated' /\ LogOrdered' /\ Remembered'
  BY <1>1 DEF Inv, HitsLogged, LogDated, LogOrdered, Remembered, Tracked, Entry
<1>4. SweepDated' /\ TrackedIsRecent' /\ KeysBounded'
  BY <1>1 DEF Inv, SweepDated, TrackedIsRecent, KeysBounded, Tracked
<1>5. WithinLimit' /\ RefusalJustified'
  BY <1>1 DEF Inv, WithinLimit, Before, RefusalJustified
<1> QED BY <1>2, <1>3, <1>4, <1>5 DEF Inv

\* So does a step of something else.
LEMMA StutterInv == ASSUME Inv, UNCHANGED vars PROVE Inv'
<1>1. UNCHANGED <<clock, pending, rl, calls, log, answer>>
  BY DEF vars
<1>2. TypeOK'
  BY <1>1 DEF Inv, TypeOK, MapOK, Tracked
<1>3. HitsLogged' /\ LogDated' /\ LogOrdered' /\ Remembered'
  BY <1>1 DEF Inv, HitsLogged, LogDated, LogOrdered, Remembered, Tracked, Entry
<1>4. SweepDated' /\ TrackedIsRecent' /\ KeysBounded'
  BY <1>1 DEF Inv, SweepDated, TrackedIsRecent, KeysBounded, Tracked
<1>5. WithinLimit' /\ RefusalJustified'
  BY <1>1 DEF Inv, WithinLimit, Before, RefusalJustified
<1> QED BY <1>2, <1>3, <1>4, <1>5 DEF Inv

\* Inv is an invariant of the limiter, however its callers interleave.
THEOREM Invariance == Spec => []Inv
<1>1. Inv /\ [Next]_vars => Inv'
  <2> SUFFICES ASSUME Inv, [Next]_vars PROVE Inv'
    OBVIOUS
  <2>1. CASE Tick
    BY <2>1, TickInv
  <2>2. ASSUME NEW c \in Callers, NEW k \in Keys, ReadClock(c, k) PROVE Inv'
    BY <2>2, ReadClockInv
  <2>3. ASSUME NEW p \in pending, Enter(p) PROVE Inv'
    BY <2>3, EnterInv
  <2>4. CASE UNCHANGED vars
    BY <2>4, StutterInv
  <2> QED BY <2>1, <2>2, <2>3, <2>4 DEF Next
<1> QED BY InitInv, <1>1, PTL DEF Spec

\* The variables have their types: in particular no slice of the map is ever
\* empty and every tracked key is one that called (ratelimit.go:40-75).
THEOREM TypeCorrect == Spec => []TypeOK
<1>1. Inv => TypeOK
  BY DEF Inv
<1> QED BY Invariance, <1>1, PTL

\* The map is bounded by maxKeys for any number of keys and callers, and any
\* choice evictBatch makes between keys of the same age.
THEOREM MapBounded == Spec => []KeysBounded
<1>1. Inv => KeysBounded
  BY DEF Inv
<1> QED BY Invariance, <1>1, PTL

\* The lazy sweep leaves only keys hit less than a window before it.
THEOREM Swept == Spec => []TrackedIsRecent
<1>1. Inv => TrackedIsRecent
  BY DEF Inv
<1> QED BY Invariance, <1>1, PTL

\* No key is admitted more than Limit times in the window the limiter polices.
THEOREM Limited == Spec => []WithinLimit
<1>1. Inv => WithinLimit
  BY DEF Inv
<1> QED BY Invariance, <1>1, PTL

\* No call is refused that did not find Limit admissions in its window.
THEOREM Justified == Spec => []RefusalJustified
<1>1. Inv => RefusalJustified
  BY DEF Inv
<1> QED BY Invariance, <1>1, PTL

\* When calls enter in the order of their clock readings, the limiter is exact
\* over the whole window, as ratelimit.go:17 says.
THEOREM Exact == ASSUME MaxDelay = 0 PROVE Spec => []ExactWindow
<1>1. Inv => ExactWindow
  <2>1. Win - 2 * MaxDelay = Win
    BY LimiterConfig
  <2> QED BY <2>1 DEF Inv, WithinLimit, ExactWindow
<1> QED BY Invariance, <1>1, PTL

\* Once a call has returned, no key is tracked that has been idle for two
\* windows.
THEOREM NoneOutlives == Spec => NothingOutlivesTwoWindows
<1> DEFINE Dated == \A k \in Tracked(rl) : Last(rl.hits[k]).at \in Nat
           Idle == \A k \in Tracked(rl') : Last(rl'.hits[k]).at > answer'.now - 2 * Win
<1>1. Inv => Dated
  <2> SUFFICES ASSUME Inv, NEW k \in Tracked(rl) PROVE Last(rl.hits[k]).at \in Nat
    OBVIOUS
  <2>1. PICK h \in rl.hits[k] : TRUE
    BY DEF Inv, TypeOK, MapOK
  <2> QED BY <2>1, LastIsYoung
<1>2. ASSUME Inv, Dated', [Next]_vars PROVE [calls' # calls => Idle]_vars
  <2> SUFFICES ASSUME NEW p \in pending, Enter(p) PROVE Idle
    BY <1>2 DEF Next, Tick, ReadClock
  <2>1. PICK o \in Allow(rl, p.key, p.now, calls) :
          rl' = o.rl /\ answer' = [key |-> p.key, now |-> p.now, ok |-> o.ok]
    BY DEF Enter
  <2>2. /\ MapOK(rl') /\ Recent(rl') /\ p.now - rl'.lastSweep < Win /\ p.now \in Nat
    BY <1>2, <2>1, EnterFacts
  <2>3. ASSUME NEW k \in Tracked(rl') PROVE Last(rl'.hits[k]).at > p.now - 2 * Win
    <3>1. Last(rl'.hits[k]).at > rl'.lastSweep - Win
      BY <2>2 DEF Recent
    <3>2. rl'.lastSweep \in Int /\ Win \in Nat
      BY <2>2, LimiterConfig DEF MapOK
    <3>3. Last(rl'.hits[k]).at \in Nat
      BY <1>2 DEF Tracked, Last
    <3> QED BY <3>1, <3>2, <3>3, <2>2
  <2> QED BY <2>1, <2>3
<1> QED BY Invariance, <1>1, <1>2, PTL DEF Spec, NothingOutlivesTwoWindows

-----------------------------------------------------------------------------
(* Refinement                                                              *)

\* Counting by a function onto.
LEMMA CountBySurjection ==
  ASSUME NEW S, NEW T, IsFiniteSet(S), NEW f \in [S -> T],
         \A t \in T : \E s \in S : f[s] = t
  PROVE  IsFiniteSet(T)
<1>1. f \in Surjection(S, T)
  BY DEF Surjection
<1> QED BY <1>1, FS_Surjection

\* When keys were evicted, MaxKeys keys have admissions in the log.
LEMMA KeysLogged ==
  ASSUME Inv, Cardinality(Tracked(rl)) >= MaxKeys
  PROVE  Cardinality({a.key : a \in log}) >= MaxKeys
<1> DEFINE K == {a.key : a \in log}
<1>1. Tracked(rl) \subseteq K
  <2> SUFFICES ASSUME NEW k \in Tracked(rl) PROVE k \in K
    OBVIOUS
  <2>1. PICK h \in rl.hits[k] : TRUE
    BY DEF Inv, TypeOK, MapOK
  <2>2. [key |-> k, at |-> h.at, n |-> h.n] \in log
    BY DEF Inv, HitsLogged
  <2> QED BY <2>2
<1>2. IsFiniteSet(K)
  <2> DEFINE f == [a \in log |-> a.key]
  <2>1. IsFiniteSet(log) /\ f \in [log -> K] /\ \A k \in K : \E a \in log : f[a] = k
    BY DEF Inv, TypeOK
  <2> HIDE DEF f, K
  <2> QED BY <2>1, CountBySurjection
<1> HIDE DEF K
<1>3. /\ Cardinality(Tracked(rl)) \in Nat /\ Cardinality(K) \in Nat
      /\ Cardinality(Tracked(rl)) <= Cardinality(K)
  BY <1>1, <1>2, FS_Subset, FS_CardinalityType
<1> QED BY <1>3, LimiterConfig DEF K

\* Cardinality means the same in the instance.
LEMMA SameCardinality == \A S : Promise!Cardinality(S) = Cardinality(S)
  BY DEF Cardinality, Promise!Cardinality

\* A call that enters is an attempt the promise admits or refuses.
LEMMA EnterKeepsPromise ==
  ASSUME Inv, NEW p \in pending, Enter(p)
  PROVE  Promise!Next
<1>1. PICK o \in Allow(rl, p.key, p.now, calls) :
        /\ calls' = calls + 1
        /\ log' = {a \in log : a.key \notin o.evicted}
                    \cup (IF o.ok THEN {New(p)} ELSE {})
        /\ answer' = [key |-> p.key, now |-> p.now, ok |-> o.ok]
        /\ clock' = clock
  BY DEF Enter, New
<1>2. /\ p.key \in Keys /\ p.now \in Nat /\ p.now <= clock /\ clock - p.now <= MaxDelay
      /\ o.ok \in BOOLEAN
      /\ o.evicted \subseteq Tracked(rl) /\ p.key \notin o.evicted
      /\ o.evicted # {} => Cardinality(Tracked(rl)) >= MaxKeys
      /\ o.ok => Cardinality(InWindow(p.key, p.now, Win - 2 * MaxDelay)) < Limit
      /\ ~o.ok => /\ o.evicted = {}
                  /\ Cardinality(InWindow(p.key, p.now, Win)) >= Limit
  BY EnterFacts
<1>3. p.now \in (clock - MaxDelay)..clock
  BY <1>2, CallerConfig DEF Inv, TypeOK
<1>4. CASE o.ok
  <2>1. Cardinality(Promise!Recent(p.key, p.now, Win - 2 * MaxDelay)) < Limit
    BY <1>2, <1>4 DEF InWindow, Promise!Recent
  <2>2. o.evicted \in SUBSET (Keys \ {p.key})
    BY <1>2 DEF Inv, TypeOK, MapOK
  <2>3. Promise!MayForget(o.evicted)
    BY <1>2, KeysLogged, SameCardinality DEF Promise!MayForget
  <2>4. log' = {a \in log : a.key \notin o.evicted}
                 \cup {[key |-> p.key, at |-> p.now, n |-> calls]}
    BY <1>1, <1>4 DEF New
  <2>5. answer' = [key |-> p.key, now |-> p.now, ok |-> TRUE]
    BY <1>1, <1>2, <1>4
  <2>6. Promise!Admit(p.key, p.now)
    BY <1>1, <2>1, <2>2, <2>3, <2>4, <2>5, SameCardinality DEF Promise!Admit
  <2> QED BY <1>2, <1>3, <2>6 DEF Promise!Next
<1>5. CASE ~o.ok
  <2>1. Cardinality(Promise!Recent(p.key, p.now, Win)) >= Limit
    BY <1>2, <1>5 DEF InWindow, Promise!Recent
  <2>2. log' = log
    BY <1>1, <1>2, <1>5
  <2>3. answer' = [key |-> p.key, now |-> p.now, ok |-> FALSE]
    BY <1>1, <1>2, <1>5
  <2>4. Promise!Refuse(p.key, p.now)
    BY <1>1, <2>1, <2>2, <2>3, SameCardinality DEF Promise!Refuse
  <2> QED BY <1>2, <1>3, <2>4 DEF Promise!Next
<1> QED BY <1>4, <1>5

\* The limiter, with its lock, its sweeps and its hard cap, does what the
\* promise of ratelimit.go:37-38 lets it, but for the slack.
THEOREM Refinement == Spec => KeepsPromise
<1>1. Init => Promise!Init
  BY DEF Init, Promise!Init
<1>2. Inv /\ [Next]_vars => [Promise!Next]_(Promise!vars)
  <2> SUFFICES ASSUME Inv, [Next]_vars PROVE [Promise!Next]_(Promise!vars)
    OBVIOUS
  <2>1. CASE Tick
    BY <2>1 DEF Tick, Promise!Next, Promise!Tick
  <2>2. ASSUME NEW c \in Callers, NEW k \in Keys, ReadClock(c, k)
        PROVE  UNCHANGED Promise!vars
    BY <2>2 DEF ReadClock, Promise!vars
  <2>3. ASSUME NEW p \in pending, Enter(p) PROVE Promise!Next
    BY <2>3, EnterKeepsPromise
  <2>4. CASE UNCHANGED vars
    BY <2>4 DEF vars, Promise!vars
  <2> QED BY <2>1, <2>2, <2>3, <2>4 DEF Next
<1> QED BY Invariance, <1>1, <1>2, PTL DEF Spec, KeepsPromise, Promise!Spec

-----------------------------------------------------------------------------
(* A limiter whose calls enter in the order of their clock readings, and    *)
(* that has room for every key: nothing is lost that a call can ask for.    *)
(* This is how Contact uses its limiters.                                   *)

\* The hits of a key after t.
HitsAfter(r, k, t) == {h \in HitsOf(r, k) : h.at > t}

\* What such a limiter holds at time now: slices in the order of their times,
\* with numbers that are bounded.
InOrder(r, now) ==
  /\ MapOK(r) /\ Recent(r) /\ r.lastSweep <= now /\ Cardinality(Tracked(r)) <= MaxKeys
  /\ \A k \in Tracked(r) : \A g, h \in r.hits[k] :
       /\ h.at <= now
       /\ g.n = h.n => g = h
       /\ g.n < h.n => g.at <= h.at
  /\ \E b \in Nat : \A k \in Tracked(r) : \A h \in r.hits[k] : h.n <= b

\* It does so from the start.
LEMMA NewInOrder ==
  ASSUME NEW now \in Nat
  PROVE  InOrder(NewLimiter, now) /\ \A k, t : HitsAfter(NewLimiter, k, t) = {}
<1> DEFINE r == NewLimiter
<1>1. /\ r.hits = [k \in {} |-> {}] /\ r.lastSweep = -Win /\ Tracked(r) = {}
      /\ r = [hits |-> r.hits, lastSweep |-> r.lastSweep]
  BY DEF NewLimiter, Tracked
<1> HIDE DEF r
<1>2. r.hits = [k \in Tracked(r) |-> r.hits[k]]
  BY <1>1
<1>3. MapOK(r)
  BY <1>1, <1>2, LimiterConfig, FS_EmptySet DEF MapOK
<1>4. Cardinality(Tracked(r)) <= MaxKeys /\ r.lastSweep <= now
  BY <1>1, FS_EmptySet, LimiterConfig
<1>5. InOrder(r, now)
  BY <1>1, <1>3, <1>4 DEF InOrder, Recent
<1>6. \A k, t : HitsAfter(r, k, t) = {}
  BY <1>1 DEF HitsAfter, HitsOf
<1> QED BY <1>5, <1>6 DEF r

\* ... and goes on doing so as time passes.
LEMMA StillInOrder ==
  ASSUME NEW r, NEW now \in Int, NEW later \in Int, now <= later, InOrder(r, now)
  PROVE  InOrder(r, later)
<1>1. r.lastSweep \in Int /\ \A k \in Tracked(r) : \A h \in r.hits[k] : h.at \in Int
  BY DEF InOrder, MapOK, Hit
<1> QED BY <1>1 DEF InOrder

\* NextNumber is a number that no hit has reached.
LEMMA NextIsNext ==
  ASSUME NEW r, NEW now, InOrder(r, now)
  PROVE  /\ NextNumber(r) \in Nat
         /\ \A k \in Tracked(r) : Slice(r.hits[k], NextNumber(r))
<1> DEFINE used == {0} \cup UNION {{h.n : h \in r.hits[k]} : k \in Tracked(r)}
<1>1. PICK b \in Nat : \A k \in Tracked(r) : \A h \in r.hits[k] : h.n <= b
  BY DEF InOrder
<1>2. \A k \in Tracked(r) : \A h \in r.hits[k] : h.n \in used
  OBVIOUS
<1>3. used \in SUBSET Nat /\ used # {} /\ \A n \in used : n <= b
  <2>1. \A k \in Tracked(r) : \A h \in r.hits[k] : h.n \in Nat
    BY DEF InOrder, MapOK, Hit
  <2> QED BY <1>1, <2>1
<1>4. NextNumber(r) = 1 + (CHOOSE n \in used : \A m \in used : m <= n)
  BY DEF NextNumber
<1> HIDE DEF used
<1>5. PICK n \in used : \A m \in used : m <= n
  BY <1>1, <1>3, NatMaximum
<1> DEFINE top == CHOOSE m \in used : \A l \in used : l <= m
<1>6. top \in used /\ \A m \in used : m <= top
  BY <1>5
<1> HIDE DEF top
<1>7. NextNumber(r) = 1 + top
  BY <1>4 DEF top
<1>8. top \in Nat /\ NextNumber(r) \in Nat
  BY <1>3, <1>6, <1>7
<1>9. ASSUME NEW k \in Tracked(r) PROVE Slice(r.hits[k], NextNumber(r))
  <2>1. r.hits[k] \subseteq Hit /\ r.hits[k] # {}
    BY DEF InOrder, MapOK
  <2>2. \A h \in r.hits[k] : h.n \in Nat /\ h.n <= top
    BY <2>1, <1>2, <1>6 DEF Hit
  <2>3. \A h \in r.hits[k] : h.n < NextNumber(r)
    BY <2>2, <1>7, <1>8
  <2> QED BY <2>1, <2>3 DEF Slice, InOrder
<1> QED BY <1>8, <1>9

\* As many keys as the map may track leave evictBatch nothing to do.
LEMMA NothingEvicted ==
  ASSUME NEW r, MapOK(r), Recent(r), NEW key \in Keys, NEW now \in Nat, NEW n,
         NEW o \in Allow(r, key, now, n), o.ok,
         IsFiniteSet(Keys), Cardinality(Keys) <= MaxKeys
  PROVE  o.evicted = {}
<1> DEFINE s == Scheduled(r, now)
           w == Sweep(s, now)
<1>1. MapOK(s)
  BY ScheduledFacts
<1>2. MapOK(w) /\ Tracked(w) \subseteq Tracked(s)
  BY <1>1, SweepFacts DEF Part
<1>3. PICK kept : o \in Admit(s, key, kept, now, n)
  BY DEF Allow, Refuse
<1>4. PICK room \in MakeRoom(s, key, now) : o.evicted = room.evicted
  BY <1>3 DEF Admit
<1> HIDE DEF s
<1>5. key \notin Tracked(s) => Cardinality(Tracked(w)) < MaxKeys
  <2> SUFFICES ASSUME key \notin Tracked(s) PROVE Cardinality(Tracked(w)) < MaxKeys
    OBVIOUS
  <2>1. Tracked(w) \in SUBSET (Keys \ {key})
    BY <1>1, <1>2 DEF MapOK
  <2>2. /\ IsFiniteSet(Keys \ {key}) /\ Cardinality(Keys \ {key}) = Cardinality(Keys) - 1
        /\ Cardinality(Keys) \in Nat
    BY FS_RemoveElement, FS_CardinalityType
  <2>3. Cardinality(Tracked(w)) <= Cardinality(Keys \ {key})
    BY <2>1, <2>2, FS_Subset
  <2>4. Cardinality(Tracked(w)) \in Nat
    BY <1>2, FS_CardinalityType DEF MapOK
  <2> QED BY <2>2, <2>3, <2>4, LimiterConfig
<1> HIDE DEF w
<1>6. \/ room = [rl |-> s, evicted |-> {}]
      \/ key \notin Tracked(s) /\ room = [rl |-> w, evicted |-> {}]
  BY <1>4, <1>5 DEF MakeRoom, w
<1> QED BY <1>4, <1>6

\* A call is admitted just when its key has fewer than Limit hits in the window,
\* and the map then has its hit besides those it had, as far back as any later
\* call can ask.
LEMMA AllowExact ==
  ASSUME NEW now \in Nat, NEW r, InOrder(r, now), NEW key \in Keys,
         NEW o \in Allow(r, key, now, NextNumber(r)),
         IsFiniteSet(Keys), Cardinality(Keys) <= MaxKeys
  PROVE  /\ InOrder(o.rl, now)
         /\ o.ok \in BOOLEAN
         /\ IsFiniteSet(HitsAfter(r, key, now - Win))
         /\ o.ok <=> Cardinality(HitsAfter(r, key, now - Win)) < Limit
         /\ \A k \in Keys, t \in Int : t >= now - Win =>
              /\ IsFiniteSet(HitsAfter(r, k, t))
              /\ IsFiniteSet(HitsAfter(o.rl, k, t))
              /\ Cardinality(HitsAfter(o.rl, k, t))
                   = Cardinality(HitsAfter(r, k, t))
                       + IF o.ok /\ k = key /\ now > t THEN 1 ELSE 0
<1> DEFINE n   == NextNumber(r)
           new == [at |-> now, n |-> n]
<1>1. n \in Nat /\ \A k \in Tracked(r) : Slice(r.hits[k], n)
  BY NextIsNext
<1>2. /\ MapOK(r) /\ Recent(r) /\ Cardinality(Tracked(r)) <= MaxKeys
      /\ r.lastSweep <= now + MaxDelay /\ r.lastSweep \in Int
  BY CallerConfig DEF InOrder, MapOK
<1> HIDE DEF n
<1>3. o \in Allow(r, key, now, n)
  BY DEF n
<1>4. /\ MapOK(o.rl) /\ Recent(o.rl) /\ Cardinality(Tracked(o.rl)) <= MaxKeys
      /\ o.rl.lastSweep \in {r.lastSweep, now} /\ o.ok \in BOOLEAN /\ o.evicted = {}
      /\ Carried(r, key, now, n, o) /\ Dropped(r, now, o)
      /\ o.ok => key \in Tracked(o.rl) /\ new \in o.rl.hits[key]
      /\ \E kept : Compared(r, key, now, kept) /\ (o.ok <=> Cardinality(kept) < Limit)
  <2>1. CASE o.ok
    <3>1. Admitted(r, key, now, n, o)
      BY <1>1, <1>2, <1>3, <2>1, AdmitFacts
    <3>2. o.evicted = {}
      BY <1>2, <1>3, <2>1, NothingEvicted
    <3> QED BY <3>1, <3>2, <2>1 DEF Admitted
  <2>2. CASE ~o.ok
    <3>1. Refused(r, key, now, n, o)
      BY <1>1, <1>2, <1>3, <2>2, RefuseFacts
    <3>2. ASSUME NEW kept, Compared(r, key, now, kept), Cardinality(kept) >= Limit
          PROVE  ~(Cardinality(kept) < Limit)
      <4>1. Cardinality(kept) \in Nat
        BY <3>2, FS_CardinalityType DEF Compared
      <4> QED BY <4>1, <3>2, LimiterConfig
    <3> QED BY <3>1, <3>2 DEF Refused
  <2> QED BY <2>1, <2>2
<1>5. /\ \A k \in Tracked(r) : IsFiniteSet(r.hits[k])
      /\ \A k \in Tracked(r) : \A h \in r.hits[k] : h.at \in Nat /\ h.n \in Nat /\ h.n < n
  BY <1>1, <1>2 DEF MapOK, Hit, Slice
<1>6. ASSUME NEW k \in Tracked(r), NEW h \in r.hits[k]
      PROVE  h.at <= Last(r.hits[k]).at /\ Last(r.hits[k]).at \in Nat
  <2>1. Last(r.hits[k]) \in r.hits[k] /\ h.n <= Last(r.hits[k]).n
    BY <1>1, LastIsLatest
  <2>2. CASE h.n = Last(r.hits[k]).n
    BY <2>1, <2>2, <1>5 DEF InOrder
  <2>3. CASE h.n < Last(r.hits[k]).n
    BY <2>1, <2>3, <1>5 DEF InOrder
  <2> QED BY <2>1, <2>2, <2>3, <1>5
<1>7. new.at = now /\ new.n = n
  OBVIOUS
<1> HIDE DEF new
<1>8. Win \in Nat /\ now - Win \in Int
  BY LimiterConfig
<1>9. ASSUME NEW k \in Keys, NEW t \in Int, t >= now - Win
      PROVE  /\ IsFiniteSet(HitsAfter(r, k, t)) /\ new \notin HitsAfter(r, k, t)
             /\ HitsAfter(o.rl, k, t) = IF o.ok /\ k = key /\ now > t
                                        THEN HitsAfter(r, k, t) \cup {new}
                                        ELSE HitsAfter(r, k, t)
  <2>1. IsFiniteSet(HitsAfter(r, k, t))
    <3>1. IsFiniteSet(HitsOf(r, k))
      BY <1>5, FS_EmptySet DEF HitsOf
    <3>2. HitsAfter(r, k, t) \in SUBSET HitsOf(r, k)
      BY DEF HitsAfter
    <3> QED BY <3>1, <3>2, FS_Subset
  <2>2. new \notin HitsAfter(r, k, t)
    BY <1>1, <1>5, <1>7 DEF HitsAfter, HitsOf
  <2>3. ASSUME NEW h \in HitsAfter(o.rl, k, t)
        PROVE  h \in HitsAfter(r, k, t) \/ (o.ok /\ k = key /\ now > t /\ h = new)
    <3>1. k \in Tracked(o.rl) /\ h \in o.rl.hits[k] /\ h.at > t
      BY <2>3 DEF HitsAfter, HitsOf
    <3>2. \/ k \in Tracked(r) /\ h \in r.hits[k]
          \/ o.ok /\ k = key /\ h = new
      BY <3>1, <1>4 DEF Carried, new
    <3> QED BY <3>1, <3>2, <1>7 DEF HitsAfter, HitsOf
  <2>4. ASSUME NEW h \in HitsAfter(r, k, t) PROVE h \in HitsAfter(o.rl, k, t)
    <3>1. k \in Tracked(r) /\ h \in r.hits[k] /\ h.at > t
      BY <2>4 DEF HitsAfter, HitsOf
    <3>2. h.at > now - Win /\ Last(r.hits[k]).at > now - Win
      BY <3>1, <1>5, <1>6, <1>8, <1>9
    <3>3. \/ k \in Tracked(o.rl) /\ h \in o.rl.hits[k]
          \/ h.at <= now - Win
          \/ Last(r.hits[k]).at <= now - Win
      BY <3>1, <1>4 DEF Dropped
    <3>4. k \in Tracked(o.rl) /\ h \in o.rl.hits[k]
      BY <3>1, <3>2, <3>3, <1>5, <1>6, <1>8
    <3> QED BY <3>1, <3>4 DEF HitsAfter, HitsOf
  <2>5. o.ok /\ k = key /\ now > t => new \in HitsAfter(o.rl, k, t)
    BY <1>4, <1>7 DEF HitsAfter, HitsOf
  <2>6. CASE o.ok /\ k = key /\ now > t
    BY <2>1, <2>2, <2>3, <2>4, <2>5, <2>6
  <2>7. CASE ~(o.ok /\ k = key /\ now > t)
    BY <2>1, <2>2, <2>3, <2>4, <2>7
  <2> QED BY <2>6, <2>7
<1>10. ASSUME NEW k \in Keys, NEW t \in Int, t >= now - Win
       PROVE  /\ IsFiniteSet(HitsAfter(r, k, t))
              /\ IsFiniteSet(HitsAfter(o.rl, k, t))
              /\ Cardinality(HitsAfter(o.rl, k, t))
                   = Cardinality(HitsAfter(r, k, t))
                       + IF o.ok /\ k = key /\ now > t THEN 1 ELSE 0
  <2> DEFINE A == HitsAfter(r, k, t)
             B == HitsAfter(o.rl, k, t)
  <2>1. /\ IsFiniteSet(A) /\ new \notin A
        /\ B = IF o.ok /\ k = key /\ now > t THEN A \cup {new} ELSE A
    BY <1>9, <1>10
  <2> HIDE DEF A, B
  <2>2. /\ Cardinality(A) \in Nat /\ IsFiniteSet(A \cup {new})
        /\ Cardinality(A \cup {new}) = Cardinality(A) + 1
    BY <2>1, FS_AddElement, FS_CardinalityType
  <2>3. CASE o.ok /\ k = key /\ now > t
    <3>1. B = A \cup {new}
      BY <2>1, <2>3
    <3> QED BY <2>1, <2>2, <2>3, <3>1 DEF A, B
  <2>4. CASE ~(o.ok /\ k = key /\ now > t)
    <3>1. B = A
      BY <2>1, <2>4
    <3> QED BY <2>1, <2>2, <2>4, <3>1 DEF A, B
  <2> QED BY <2>3, <2>4
<1>11. o.ok <=> Cardinality(HitsAfter(r, key, now - Win)) < Limit
  <2>1. PICK kept : Compared(r, key, now, kept) /\ (o.ok <=> Cardinality(kept) < Limit)
    BY <1>4
  <2>2. ASSUME NEW h \in kept PROVE h \in HitsAfter(r, key, now - Win)
    BY <2>1, <2>2 DEF Compared, HitsAfter
  <2>3. ASSUME NEW h \in HitsAfter(r, key, now - Win) PROVE h \in kept
    <3>1. /\ key \in Tracked(r) /\ h \in r.hits[key] /\ HitsOf(r, key) = r.hits[key]
          /\ h.at > now - Win
      BY <2>3 DEF HitsAfter, HitsOf
    <3>2. h \in kept \/ h.at <= now - Win \/ Last(r.hits[key]).at <= now - Win
      BY <3>1, <2>1 DEF Compared
    <3> QED BY <3>1, <3>2, <1>5, <1>6, <1>8
  <2>4. kept = HitsAfter(r, key, now - Win)
    BY <2>2, <2>3
  <2> QED BY <2>1, <2>4
<1>12. InOrder(o.rl, now)
  <2>1. o.rl.lastSweep <= now
    BY <1>4 DEF InOrder
  <2>2. ASSUME NEW k \in Tracked(o.rl), NEW g \in o.rl.hits[k], NEW h \in o.rl.hits[k]
        PROVE  /\ h.at <= now
               /\ g.n = h.n => g = h
               /\ g.n < h.n => g.at <= h.at
    <3>1. /\ (k \in Tracked(r) /\ g \in r.hits[k]) \/ g = new
          /\ (k \in Tracked(r) /\ h \in r.hits[k]) \/ h = new
      BY <1>4 DEF Carried, new
    <3>2. CASE k \in Tracked(r) /\ g \in r.hits[k] /\ h \in r.hits[k]
      BY <3>2 DEF InOrder
    <3>3. CASE g = new /\ h = new
      BY <3>3, <1>1, <1>7
    <3>4. CASE k \in Tracked(r) /\ g \in r.hits[k] /\ h = new
      BY <3>4, <1>1, <1>5, <1>7 DEF InOrder
    <3>5. CASE k \in Tracked(r) /\ h \in r.hits[k] /\ g = new
      BY <3>5, <1>1, <1>5, <1>7 DEF InOrder
    <3> QED BY <3>1, <3>2, <3>3, <3>4, <3>5
  <2>3. ASSUME NEW k \in Tracked(o.rl), NEW h \in o.rl.hits[k]
        PROVE  h.n <= n
    <3>1. (k \in Tracked(r) /\ h \in r.hits[k]) \/ h = new
      BY <1>4 DEF Carried, new
    <3> QED BY <3>1, <1>1, <1>5, <1>7
  <2> QED BY <2>1, <2>2, <2>3, <1>1, <1>4 DEF InOrder
<1>13. IsFiniteSet(HitsAfter(r, key, now - Win))
  BY <1>8, <1>10
<1> QED BY <1>4, <1>10, <1>11, <1>12, <1>13
=============================================================================
