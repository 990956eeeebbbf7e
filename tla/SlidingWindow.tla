---------------------------- MODULE SlidingWindow ----------------------------
(***************************************************************************)
(* The sliding-window rate limiter of the contact service                  *)
(* (services/contact/ratelimit.go): the map it keeps and the one operation *)
(* on it, allow, with the two helpers allow calls, sweep and evictBatch.   *)
(*                                                                         *)
(* The operators are functions of the limiter's state, so that this one    *)
(* module serves the limiter on its own (RateLimiter) and the three        *)
(* limiters a submission passes through (Contact).                         *)
(*                                                                         *)
(* A slice of timestamps is a set of hits.  A hit carries the time `at' it *)
(* was recorded with and the number `n' of the call that recorded it; n    *)
(* grows with every call, so it stands for the position in the slice: the  *)
(* last element of the slice is the hit with the largest n.                *)
(***************************************************************************)
EXTENDS Integers, FiniteSets

CONSTANTS Limit,       \* rl.limit: attempts admitted per key and window
          Win,         \* rl.win: length of the window
          MaxKeys,     \* rl.maxKeys: hard cap on the number of tracked keys
          EvictShare   \* the 10 of maxKeys/10: the share evictBatch frees

ASSUME LimiterConfig ==
  /\ Limit \in Nat \ {0}           \* config.go refuses a limit below one
  /\ Win \in Nat \ {0}
  /\ EvictShare \in Nat \ {0}
  /\ MaxKeys \in Nat
  /\ MaxKeys >= EvictShare         \* 50 000 and 10 in the code

Hit == [at: Nat, n: Nat]

\* newRateLimiter: no hits; lastSweep is Go's zero time, further back than a
\* window, so the first call always sweeps.
NewLimiter == [hits |-> [k \in {} |-> {}], lastSweep |-> -Win]

Tracked(rl) == DOMAIN rl.hits

\* Bugs for the mutant runs: the cutoff one tick late, or inclusive.
LiveCutoffLate(ts, now) == {h \in ts : h.at > now - Win + 1}
LiveInclusive(ts, now)  == {h \in ts : h.at >= now - Win}

\* The hits of a slice that are After the cutoff now - win.
Live(ts, now) == {h \in ts : h.at > now - Win}

\* The slice's last element (ts is not empty).
Last(ts) == CHOOSE h \in ts : \A g \in ts : g.n <= h.n

\* rl.hits[key]; Go reads a missing key as the nil slice.
HitsOf(rl, key) == IF key \in Tracked(rl) THEN rl.hits[key] ELSE {}

\* rl.hits[key] = ts
Store(rl, key, ts) ==
  [rl EXCEPT !.hits = [k \in Tracked(rl) \cup {key} |->
                         IF k = key THEN ts ELSE rl.hits[k]]]

Keep(rl, keys) == [rl EXCEPT !.hits = [k \in keys |-> rl.hits[k]]]

\* A number for the next call: larger than every number in the map.
NextNumber(rl) ==
  LET used == {0} \cup UNION {{h.n : h \in rl.hits[k]} : k \in Tracked(rl)}
  IN  1 + (CHOOSE n \in used : \A m \in used : m <= n)

\* sweep: a key is dropped when its slice is empty or its last hit expired.
\* Only the last hit is looked at.
FreshAnything(ts, now) == TRUE       \* bug: the sweep never drops a key

\* Bug: the sweep drops keys a tick before their last hit expires.
FreshEarly(ts, now) == ts # {} /\ Last(ts).at > now - Win + 1

Fresh(ts, now) == ts # {} /\ Last(ts).at > now - Win

Sweep(rl, now) ==
  [Keep(rl, {k \in Tracked(rl) : Fresh(rl.hits[k], now)})
     EXCEPT !.lastSweep = now]

\* evictBatch: keep `target' keys, so that no key that goes has a younger last
\* hit than one that stays.  Map iteration and sort.Slice leave ties open:
\* each choice of the survivors is one element of the result.
Age(ts) == IF ts = {} THEN -Win ELSE Last(ts).at

Survivors(rl, target) ==
  {S \in SUBSET Tracked(rl) :
     /\ Cardinality(S) = target
     /\ \A k \in S, g \in Tracked(rl) \ S :
          Age(rl.hits[g]) <= Age(rl.hits[k])}

EvictBatch(rl, target) ==
  IF Cardinality(Tracked(rl)) <= target
  THEN {[rl |-> rl, evicted |-> {}]}
  ELSE {[rl |-> Keep(rl, S), evicted |-> Tracked(rl) \ S] :
          S \in Survivors(rl, target)}

MakeRoomBySweep(rl, key, now) ==     \* bug: no backstop when all keys are live
  {[rl |-> Sweep(rl, now), evicted |-> {}]}

\* The block of allow that makes room before a new key is tracked.
MakeRoom(rl, key, now) ==
  LET swept == Sweep(rl, now)
  IN  IF key \in Tracked(rl) \/ Cardinality(Tracked(rl)) < MaxKeys
      THEN {[rl |-> rl, evicted |-> {}]}
      ELSE IF Cardinality(Tracked(swept)) < MaxKeys
      THEN {[rl |-> swept, evicted |-> {}]}
      ELSE EvictBatch(swept, MaxKeys - MaxKeys \div EvictShare)

\* The scheduled sweep at the head of allow: at most once per window.
ScheduledNever(rl, now) == rl        \* bug: the map only ever grows (issue #41)

Scheduled(rl, now) == IF now - rl.lastSweep >= Win THEN Sweep(rl, now) ELSE rl

OverLimitLate(kept) == Cardinality(kept) > Limit      \* bug: one too many

OverLimit(kept) == Cardinality(kept) >= Limit

\* The attempt is refused: the pruned slice goes back, without the attempt.
Refuse(rl, key, kept) ==
  {[ok |-> FALSE, rl |-> Store(rl, key, kept), evicted |-> {}]}

\* The attempt is recorded, after room was made for a key not yet tracked.
Admit(rl, key, kept, now, n) ==
  {[ok      |-> TRUE,
    rl      |-> Store(room.rl, key, kept \cup {[at |-> now, n |-> n]}),
    evicted |-> room.evicted] : room \in MakeRoom(rl, key, now)}

\* allow(key, now), as the n-th call: the set of its possible results.
\* `evicted' names the keys the hard cap made it forget.
Allow(rl, key, now, n) ==
  LET swept == Scheduled(rl, now)
      kept  == Live(HitsOf(swept, key), now)
  IN  IF OverLimit(kept) THEN Refuse(swept, key, kept)
                         ELSE Admit(swept, key, kept, now, n)
=============================================================================
