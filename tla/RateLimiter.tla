----------------------------- MODULE RateLimiter -----------------------------
(***************************************************************************)
(* One rateLimiter of the contact service used by concurrent HTTP          *)
(* handlers.                                                               *)
(*                                                                         *)
(* Every use in server.go has the form  limiter.allow(key, s.now()): Go    *)
(* evaluates s.now() first and only then does allow take rl.mu.  Two steps *)
(* therefore, ReadClock and Enter, and other calls may enter between them; *)
(* the body of allow runs under the mutex and is one step.                 *)
(*                                                                         *)
(* MaxDelay bounds how far the clock runs between the two steps of a call. *)
(* With MaxDelay = 0 calls enter in the order of their readings, which is  *)
(* what the comment in sweep ("now is monotonic in practice") relies on.   *)
(***************************************************************************)
EXTENDS SlidingWindow

CONSTANTS Keys,      \* client IPs, or the one key of a global limiter
          Callers,   \* handler goroutines
          MaxDelay   \* longest wait between reading the clock and the lock

ASSUME CallerConfig ==
  /\ MaxDelay \in Nat
  /\ MaxDelay < Win

VARIABLES clock,     \* the wall clock s.now() reads
          pending,   \* calls that have read the clock and wait for rl.mu
          rl,        \* the limiter's map and lastSweep
          calls,     \* number of calls that have been through the mutex
          log,       \* history: admissions, save those of keys evicted since
          answer     \* history: the last call and what it was told

vars == <<clock, pending, rl, calls, log, answer>>

Call      == [by: Callers, key: Keys, now: Nat]
Admission == [key: Keys, at: Nat, n: Nat]
Answer    == [key: Keys, now: Nat, ok: BOOLEAN]

Init ==
  /\ clock = 0
  /\ pending = {}
  /\ rl = NewLimiter
  /\ calls = 0
  /\ log = {}
  /\ \E k \in Keys : answer = [key |-> k, now |-> 0, ok |-> TRUE]

\* Time passes, unless a waiting call would then have waited too long.
Tick ==
  /\ \A p \in pending : clock - p.now < MaxDelay
  /\ clock' = clock + 1
  /\ UNCHANGED <<pending, rl, calls, log, answer>>

\* A handler evaluates s.now() for its call.
ReadClock(c, k) ==
  /\ \A p \in pending : p.by # c
  /\ pending' = pending \cup {[by |-> c, key |-> k, now |-> clock]}
  /\ UNCHANGED <<clock, rl, calls, log, answer>>

\* The call takes rl.mu, runs allow to its end and returns.
Enter(p) ==
  \E o \in Allow(rl, p.key, p.now, calls) :
    /\ pending' = pending \ {p}
    /\ rl' = o.rl
    /\ calls' = calls + 1
    /\ log' = {a \in log : a.key \notin o.evicted}
                \cup (IF o.ok THEN {[key |-> p.key, at |-> p.now, n |-> calls]}
                              ELSE {})
    /\ answer' = [key |-> p.key, now |-> p.now, ok |-> o.ok]
    /\ UNCHANGED clock

Next ==
  \/ Tick
  \/ \E c \in Callers, k \in Keys : ReadClock(c, k)
  \/ \E p \in pending : Enter(p)

Spec == Init /\ [][Next]_vars

-----------------------------------------------------------------------------
\* A limiter's state: a map from tracked keys to finite slices, none empty.
MapOK(r) ==
  /\ r = [hits |-> r.hits, lastSweep |-> r.lastSweep]
  /\ r.hits = [k \in Tracked(r) |-> r.hits[k]]
  /\ Tracked(r) \subseteq Keys
  /\ IsFiniteSet(Tracked(r))
  /\ \A k \in Tracked(r) :
       r.hits[k] \subseteq Hit /\ IsFiniteSet(r.hits[k]) /\ r.hits[k] # {}
  /\ r.lastSweep \in Int

\* The variables range over what the code can put in them; a caller waits with
\* one call at a time, and no longer than MaxDelay.
TypeOK ==
  /\ clock \in Nat
  /\ pending \subseteq Call
  /\ \A p, q \in pending : p.by = q.by => p = q
  /\ \A p \in pending : p.now <= clock /\ clock - p.now <= MaxDelay
  /\ MapOK(rl)
  /\ calls \in Nat
  /\ log \subseteq Admission /\ IsFiniteSet(log)
  /\ answer \in Answer

\* The map never tracks more than maxKeys keys, whatever keys the clients come
\* with (ratelimit.go:9-14, "a hard backstop against memory exhaustion").
KeysBounded == Cardinality(Tracked(rl)) <= MaxKeys

\* The lazy sweep bounds the map to recent keys even though it looks only at
\* the last hit of a slice and runs only when some call comes (ratelimit.go:44
\* -49): every tracked key was hit less than a window before the last sweep.
TrackedIsRecent == \A k \in Tracked(rl) : Last(rl.hits[k]).at > rl.lastSweep - Win

\* ... and so, once a call has returned, no key is left whose last hit is two
\* windows older than that call.
NothingOutlivesTwoWindows ==
  [][calls' # calls =>
       \A k \in Tracked(rl') : Last(rl'.hits[k]).at > answer'.now - 2 * Win]_vars

\* The admissions of a key in the `span' ticks that end with admission a.
Before(a, span) ==
  {b \in log : b.key = a.key /\ b.n <= a.n /\ b.at > a.at - span}

\* No admission is the (Limit+1)-th of its key over the trailing window, even
\* though hits are pruned, swept and stored by calls that enter in any order.
\* A call may be MaxDelay late, and so may the one that pruned for it: the
\* window the limiter is sure to police is that much shorter, twice.
WithinLimit == \A a \in log : Cardinality(Before(a, Win - 2 * MaxDelay)) <= Limit

\* The same over the whole window, as ratelimit.go:17 ("on the single prod
\* node it is exact") and :37-38 state it.
ExactWindow == \A a \in log : Cardinality(Before(a, Win)) <= Limit

\* A refusal is never the limiter's own doing: the key had Limit admissions in
\* the window that ends with the refused attempt.  Refused attempts themselves
\* do not count, so a client that keeps trying is not locked out for ever.
RefusalJustified ==
  answer.ok \/ Cardinality({a \in log : /\ a.key = answer.key
                                        /\ a.at > answer.now - Win}) >= Limit

-----------------------------------------------------------------------------
(* The inductive invariant behind the properties above                     *)

Entry(a) == [at |-> a.at, n |-> a.n]

\* Every hit in the map is an admission in the log.
HitsLogged ==
  \A k \in Tracked(rl) : \A h \in rl.hits[k] :
    [key |-> k, at |-> h.at, n |-> h.n] \in log

\* Admissions carry distinct numbers and times that have been.
LogDated ==
  /\ \A a \in log : a.at <= clock /\ a.n < calls
  /\ \A a, b \in log : a.n = b.n => a = b

\* A later admission has at most a MaxDelay older time.
LogOrdered == \A a, b \in log : a.n < b.n => a.at <= b.at + MaxDelay

\* What the map has lost is out of every window a call can still ask for,
\* but for the MaxDelay by which a sweep can misjudge a slice.
Remembered ==
  \A a \in log : a.at > clock - Win + MaxDelay =>
    a.key \in Tracked(rl) /\ Entry(a) \in rl.hits[a.key]

SweepDated == rl.lastSweep <= clock

Inv == /\ TypeOK /\ HitsLogged /\ LogDated /\ LogOrdered /\ Remembered
       /\ SweepDated /\ TrackedIsRecent /\ KeysBounded
       /\ WithinLimit /\ RefusalJustified

-----------------------------------------------------------------------------
\* The limiter implements the promise: sweeps, slices, eviction and the race
\* for the lock change nothing about the answers but the slack.  What a wait
\* for the lock can cost is MaxDelay for the call itself and MaxDelay for the
\* hit that a sweep takes for the youngest of its slice.
Promise == INSTANCE WindowLimit WITH Slack <- 2 * MaxDelay, Capacity <- MaxKeys

KeepsPromise == Promise!Spec
=============================================================================
