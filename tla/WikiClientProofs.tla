--------------------------- MODULE WikiClientProofs ---------------------------
(***************************************************************************)
(* Proofs about WikiClient, for any number of calls, any retry budget, any *)
(* timeout and delay, and any set of 4xx that are told apart.              *)
(*                                                                         *)
(* The argument.  An attempt has one fate: its request is on the wire, or   *)
(* was carried out, or is gone, and it never comes back.  So a response     *)
(* that BookStack itself gave, unlike a 5xx of the gateway or a transport  *)
(* error, settles its attempt; and as a call keeps the attempt at which it *)
(* returned, what it concluded stays true whatever else is still under way. *)
(***************************************************************************)
EXTENDS WikiClient, FiniteSetTheorems, TLAPS

\* A request of attempt n is on the wire; attempt n has been carried out.
OnWire(c, n)  == \E r \in wire : r.call = c /\ r.n = n
Carried(c, n) == \E m \in commits : m.call = c /\ m.n = n

\* A call is idle, under way without a result, or done with one; it began after
\* calls that were done.
CallsRun ==
  \A c \in Calls :
    /\ call[c].stage = "idle" => call[c] = Idle
    /\ call[c].stage # "idle" => call[c].op \in Ops /\ call[c].url \in Urls
    /\ call[c].stage = "done" <=> call[c].result # "none"
    /\ \A d \in call[c].after : d # c /\ call[d].stage = "done"

\* A call that has sent requests.
HasSent(c) == call[c].stage # "idle" /\ call[c].result # "unsent"

\* A request is of an attempt that its call has made, and asks for what the call
\* does unless it was redirected.
RequestsSent ==
  \A r \in wire :
    /\ HasSent(r.call) /\ r.n <= call[r.call].attempt
    /\ \/ r.op = call[r.call].op
       \/ call[r.call].url = "redirected" /\ r.op = "get"
    /\ r.hop = "redirected" => call[r.call].url = "redirected"

\* A write that was carried out is of an attempt that its call has made.
CommitsSent ==
  \A m \in commits : /\ HasSent(m.call) /\ m.n <= call[m.call].attempt
                     /\ Writes(call[m.call].op)

\* No attempt is on the wire twice, carried out twice, or both.
OneFate ==
  /\ \A r, s \in wire : r.call = s.call /\ r.n = s.n => r = s
  /\ \A m, n \in commits : m.call = n.call /\ m.n = n.n => m = n
  /\ \A r \in wire : ~Carried(r.call, r.n)

\* An answer of BookStack's to the last attempt of c: nothing of it is under way;
\* a write that was answered 2xx has been carried out, one answered 4xx has not.
Settled(c, answer) ==
  /\ ~OnWire(c, call[c].attempt)
  /\ answer \in {"ok", "undecodable"} /\ Writes(call[c].op) /\ call[c].url # "redirected"
       => Carried(c, call[c].attempt)
  /\ answer \in Refusals => ~Carried(c, call[c].attempt)

\* A response is for a call that waits, which has no other; if it is not a 5xx,
\* its attempt is settled.
RepliesSettle ==
  \A r \in replies :
    /\ call[r.call].stage = "waiting"
    /\ \A s \in replies : s.call = r.call => s = r
    /\ r.status # "server" => Settled(r.call, r.status)

\* So it is for a call that returned what BookStack answered.
ResultsSettle ==
  \A c \in Calls : call[c].result \in Refusals \cup {"ok", "undecodable"}
                     => Settled(c, call[c].result)

\* The numbers of the writes are those of their order.
CommitsCounted ==
  /\ IsFiniteSet(commits)
  /\ \A m \in commits : m.seq < Cardinality(commits)

\* The inductive invariant behind the theorems on writes.
ClientInv == /\ TypeOK /\ CallsRun /\ RequestsSent /\ CommitsSent /\ OneFate
             /\ RepliesSettle /\ ResultsSettle /\ CommitsCounted /\ EditsKeepOrder

-----------------------------------------------------------------------------
(* Arithmetic and types                                                    *)

\* A power of two is a positive number: that many subsets has 1..n.
LEMMA PowerOfTwo == ASSUME NEW n \in Nat PROVE 2 ^ n \in Nat \ {0}
<1> DEFINE S == SUBSET (1..n)
<1>1. IsFiniteSet(1..n) /\ Cardinality(1..n) = n
  BY FS_Interval
<1>2. IsFiniteSet(S) /\ Cardinality(S) = 2 ^ n
  BY <1>1, FS_SUBSET
<1>3. Cardinality(S) \in Nat /\ Cardinality(S) # 0
  <2>1. {} \in S
    OBVIOUS
  <2> HIDE DEF S
  <2> QED BY <2>1, <1>2, FS_CardinalityType, FS_EmptySet
<1> QED BY <1>2, <1>3

\* Whatever the shift overflows to, a delay lies between nothing and the cap
\* (client.go, backoff).
LEMMA DelayCapped ==
  ASSUME NEW attempt \in Nat \ {0}
  PROVE  Delay(attempt) \in 0..MaxDelay
<1>1. 2 ^ (attempt - 1) \in Nat /\ 2 ^ WordBits \in Nat \ {0} /\ 2 ^ (WordBits - 1) \in Nat
  BY PowerOfTwo, ClientConfig
<1>2. Shifted(attempt) \in Int
  BY <1>1, ClientConfig DEF Shifted
<1> QED BY <1>2, ClientConfig DEF Delay

\* So does a delay with its jitter.
LEMMA JitterCapped ==
  ASSUME NEW attempt \in Nat \ {0}, NEW d \in Jitter(Delay(attempt))
  PROVE  d \in 0..MaxDelay
  BY DelayCapped, ClientConfig DEF Jitter

\* A step of a call changes that call and leaves it a call.
LEMMA GoesTo ==
  ASSUME TypeOK, NEW c \in Calls, NEW r \in CallType, Goes(c, r)
  PROVE  /\ call' \in [Calls -> CallType]
         /\ call'[c] = r
         /\ \A d \in Calls \ {c} : call'[d] = call[d]
  BY DEF TypeOK, Goes

\* A call that returns keeps what it asked for and its attempt.
LEMMA ReturnType ==
  ASSUME NEW r \in CallType, NEW result \in Results,
         NEW entity \in {"none", "zero", "stored", "other"}
  PROVE  /\ Return(r, result, entity) \in CallType
         /\ Return(r, result, entity).stage = "done"
         /\ Return(r, result, entity).result = result
         /\ Return(r, result, entity).op = r.op /\ Return(r, result, entity).url = r.url
         /\ Return(r, result, entity).attempt = r.attempt
         /\ Return(r, result, entity).after = r.after
         /\ Return(r, result, entity).spent = 0
  BY DEF Return, CallType, NoTimer

\* The idle call is a call.
LEMMA IdleType == Idle \in CallType
  BY ClientConfig DEF Idle, CallType, NoTimer, Results

-----------------------------------------------------------------------------
(* One call moves on                                                       *)

\* The fate of attempts as seen from a step that takes nothing away from the
\* writes and puts nothing on the wire.
LEMMA SettledStays ==
  ASSUME NEW c, NEW a, Settled(c, a), commits' = commits, wire' \subseteq wire,
         call'[c].attempt = call[c].attempt, call'[c].op = call[c].op,
         call'[c].url = call[c].url
  PROVE  Settled(c, a)'
  BY DEF Settled, OnWire, Carried

\* A call under way goes on to back off or returns, and keeps what it asked for
\* and its attempt; it has no response left; if it returns an answer of
\* BookStack's, its attempt is settled.
LEMMA MoveOnInv ==
  ASSUME ClientInv, NEW c \in Calls, NEW r \in CallType, Goes(c, r),
         call[c].stage \in {"waiting", "backoff"}, r.stage \in {"backoff", "done"},
         r.stage = "done" <=> r.result # "none", r.result # "unsent",
         r.stage = "backoff" => r.attempt < MaxRetries,
         r.op = call[c].op, r.url = call[c].url, r.attempt = call[c].attempt,
         r.after = call[c].after,
         r.result \in Refusals \cup {"ok", "undecodable"} => Settled(c, r.result),
         replies' \subseteq replies, \A s \in replies' : s.call # c,
         UNCHANGED <<wire, commits>>
  PROVE  ClientInv'
<1>1. /\ call' \in [Calls -> CallType] /\ call'[c] = r
      /\ \A d \in Calls \ {c} : call'[d] = call[d]
  BY GoesTo DEF ClientInv
<1>2. \A d \in Calls : /\ call'[d].op = call[d].op /\ call'[d].url = call[d].url
                       /\ call'[d].attempt = call[d].attempt
                       /\ call'[d].after = call[d].after
                       /\ call[d].stage = "done" => call'[d].stage = "done"
                       /\ call[d].stage = "idle" <=> call'[d].stage = "idle"
                       /\ call[d].result = "unsent" <=> call'[d].result = "unsent"
  <2>1. call[c].result = "none"
    <3>1. CallsRun
      BY DEF ClientInv
    <3>2. call[c].stage = "done" <=> call[c].result # "none"
      BY <3>1 DEF CallsRun
    <3> QED BY <3>2
  <2> QED BY <2>1, <1>1
<1>3. TypeOK'
  BY <1>1 DEF ClientInv, TypeOK
<1>4. CallsRun'
  <2>1. CallsRun
    BY DEF ClientInv
  <2> SUFFICES ASSUME NEW d \in Calls
               PROVE  /\ call'[d].stage = "idle" => call'[d] = Idle
                      /\ call'[d].stage # "idle" => call'[d].op \in Ops /\ call'[d].url \in Urls
                      /\ call'[d].stage = "done" <=> call'[d].result # "none"
                      /\ \A e \in call'[d].after : e # d /\ call'[e].stage = "done"
    BY DEF CallsRun
  <2>2. \A e \in call'[d].after : e # d /\ call'[e].stage = "done"
    <3>1. call[d].after \subseteq Calls
      BY DEF ClientInv, TypeOK, CallType
    <3> QED BY <2>1, <3>1, <1>2 DEF CallsRun
  <2> QED BY <2>1, <2>2, <1>1 DEF CallsRun
<1>5. RequestsSent' /\ CommitsSent' /\ OneFate'
  BY <1>1, <1>2 DEF ClientInv, TypeOK, Request, RequestsSent, CommitsSent, OneFate, Carried, HasSent
<1>6. ASSUME NEW d \in Calls, NEW a, Settled(d, a) PROVE Settled(d, a)'
  BY <1>2, <1>6, SettledStays
<1>7. RepliesSettle'
  BY <1>1, <1>6 DEF ClientInv, TypeOK, RepliesSettle
<1>8. ResultsSettle'
  BY <1>1, <1>2 DEF ClientInv, ResultsSettle, Settled, OnWire, Carried
<1>9. CommitsCounted'
  BY DEF ClientInv, CommitsCounted
<1>10. EditsKeepOrder'
  <2> SUFFICES ASSUME NEW x \in Calls, NEW y \in Calls, x \in call'[y].after,
                      call'[x].op = "update", call'[y].op = "update",
                      call'[x].result = "ok", call'[x].attempt = 0
               PROVE  \A m \in CommitsOf(x), n \in CommitsOf(y) : m.seq < n.seq
    BY DEF EditsKeepOrder, CommitsOf
  <2>1. x # c
    BY <1>1, <1>2 DEF ClientInv, CallsRun
  <2> QED BY <2>1, <1>1, <1>2 DEF ClientInv, EditsKeepOrder
<1> QED BY <1>3, <1>4, <1>5, <1>7, <1>8, <1>9, <1>10 DEF ClientInv

\* What holds of a call and its attempts survives a step that changes another
\* call, takes away no write, and puts nothing on the wire for this one.
LEMMA SettledElsewhere ==
  ASSUME NEW c, NEW d, c # d, NEW a, Settled(d, a), call'[d] = call[d], commits' = commits,
         \A s \in wire' \ wire : s.call = c
  PROVE  Settled(d, a)'
  BY DEF Settled, OnWire, Carried

\* A call sends the request of a new attempt: all that it sent before is of
\* earlier attempts, and no response is on its way to it.
LEMMA SendInv ==
  ASSUME ClientInv, NEW c \in Calls, NEW r \in CallType, Send(c, r),
         r.result = "none", r.op \in Ops, r.url \in Urls,
         \A d \in r.after : d # c /\ call[d].stage = "done",
         \/ call[c].stage = "idle"
         \/ /\ call[c].stage = "backoff"
            /\ r.op = call[c].op /\ r.url = call[c].url /\ r.after = call[c].after
            /\ r.attempt = call[c].attempt + 1,
         UNCHANGED <<replies, commits>>
  PROVE  ClientInv'
<1> DEFINE q   == [r EXCEPT !.stage = "waiting",
                            !.left = IF HttpTimeout = 0 THEN NoTimer ELSE HttpTimeout]
           new == [call |-> c, n |-> r.attempt, op |-> r.op, hop |-> r.url]
<1>1. /\ Goes(c, q) /\ commits' = commits /\ replies' = replies
      /\ wire' = wire \/ (r.url # "hostless" /\ wire' = wire \cup {new})
  <2> DEFINE out == {k \in {new} : ~r.cancelled /\ k.hop # "hostless"}
  <2>1. wire' = wire \cup out
    BY DEF Send
  <2>2. new.hop = r.url
    OBVIOUS
  <2> HIDE DEF new
  <2>3. out = {} \/ (r.url # "hostless" /\ out = {new})
    BY <2>2
  <2> HIDE DEF out
  <2>4. wire' = wire \/ (r.url # "hostless" /\ wire' = wire \cup {new})
    <3>1. CASE out = {}
      BY <2>1, <3>1
    <3>2. CASE r.url # "hostless" /\ out = {new}
      BY <2>1, <3>2
    <3> QED BY <2>3, <3>1, <3>2
  <2> QED BY <2>4 DEF Send
<1>2. /\ q \in CallType /\ q.stage = "waiting" /\ q.result = "none" /\ q.op = r.op
      /\ q.url = r.url /\ q.attempt = r.attempt /\ q.after = r.after
  BY ClientConfig DEF CallType, NoTimer
<1>3. /\ r.url # "hostless" => new \in Request
      /\ new.call = c /\ new.n = r.attempt /\ new.op = r.op /\ new.hop = r.url
  BY ClientConfig DEF Request, CallType
<1> HIDE DEF q, new
<1>4. /\ call' \in [Calls -> CallType] /\ call'[c] = q
      /\ \A d \in Calls \ {c} : call'[d] = call[d]
  BY <1>1, <1>2, GoesTo DEF ClientInv
<1>5. call[c].result = "none" /\ call[c].stage \notin {"waiting", "done"}
  BY DEF ClientInv, CallsRun
<1>6. /\ \A s \in wire : s.call = c => s.n < r.attempt /\ call[c].stage = "backoff"
      /\ \A m \in commits : m.call = c => m.n < r.attempt /\ call[c].stage = "backoff"
  <2>1. r.attempt \in Nat /\ call[c].attempt \in Nat
    BY DEF ClientInv, TypeOK, CallType
  <2>2. /\ \A s \in wire : s.n \in Nat /\ (s.call = c => s.n <= call[c].attempt /\ HasSent(c))
        /\ \A m \in commits : m.n \in Nat /\ (m.call = c => m.n <= call[c].attempt /\ HasSent(c))
    BY DEF ClientInv, TypeOK, Request, RequestsSent, CommitsSent
  <2> QED BY <2>1, <2>2 DEF HasSent
<1>7. TypeOK'
  BY <1>1, <1>2, <1>3, <1>4 DEF ClientInv, TypeOK
<1>8. CallsRun'
  <2>1. CallsRun /\ \A d \in Calls : call[d].after \subseteq Calls
    BY DEF ClientInv, TypeOK, CallType
  <2>2. r.after \subseteq Calls
    BY DEF CallType
  <2> QED BY <2>1, <2>2, <1>2, <1>4, <1>5 DEF CallsRun
<1>9. RequestsSent'
  <2> SUFFICES ASSUME NEW s \in wire'
               PROVE  /\ HasSent(s.call)' /\ s.n <= call'[s.call].attempt
                      /\ \/ s.op = call'[s.call].op
                         \/ call'[s.call].url = "redirected" /\ s.op = "get"
                      /\ s.hop = "redirected" => call'[s.call].url = "redirected"
    BY DEF RequestsSent
  <2>1. CASE s = new
    BY <2>1, <1>2, <1>3, <1>4 DEF HasSent, CallType
  <2>2. CASE s \in wire /\ s.call # c
    BY <2>2, <1>4 DEF ClientInv, TypeOK, Request, RequestsSent, HasSent
  <2>3. CASE s \in wire /\ s.call = c
    <3>1. s.n < r.attempt /\ call[c].stage = "backoff" /\ s.n \in Nat /\ r.attempt \in Nat
      BY <2>3, <1>6 DEF ClientInv, TypeOK, Request, CallType
    <3> QED BY <2>3, <3>1, <1>2, <1>4, <1>5 DEF ClientInv, RequestsSent, HasSent
  <2> QED BY <2>1, <2>2, <2>3, <1>1
<1>10. CommitsSent'
  <2> SUFFICES ASSUME NEW m \in commits
               PROVE  /\ HasSent(m.call)' /\ m.n <= call'[m.call].attempt
                      /\ Writes(call'[m.call].op)
    BY <1>1 DEF CommitsSent, Writes
  <2>1. CASE m.call # c
    BY <2>1, <1>4 DEF ClientInv, TypeOK, CommitsSent, HasSent
  <2>2. CASE m.call = c
    <3>1. m.n < r.attempt /\ call[c].stage = "backoff" /\ m.n \in Nat /\ r.attempt \in Nat
      BY <2>2, <1>6 DEF ClientInv, TypeOK, CallType
    <3> QED BY <2>2, <3>1, <1>2, <1>4, <1>5 DEF ClientInv, CommitsSent, HasSent
  <2> QED BY <2>1, <2>2
<1>11. OneFate'
  <2>1. r.attempt \in Nat /\ \A s \in wire : s.n \in Nat
    BY DEF ClientInv, TypeOK, Request, CallType
  <2>2. \A m \in commits : m.n \in Nat
    BY DEF ClientInv, TypeOK
  <2> QED BY <2>1, <2>2, <1>1, <1>3, <1>6 DEF ClientInv, OneFate, Carried
<1>12. \A s \in wire' \ wire : s.call = c
  BY <1>1, <1>3
<1>13. RepliesSettle'
  <2> SUFFICES ASSUME NEW s \in replies
               PROVE  /\ call'[s.call].stage = "waiting"
                      /\ \A t \in replies : t.call = s.call => t = s
                      /\ s.status # "server" => Settled(s.call, s.status)'
    BY <1>1 DEF RepliesSettle
  <2>1. /\ call[s.call].stage = "waiting" /\ s.call \in Calls
        /\ \A t \in replies : t.call = s.call => t = s
        /\ s.status # "server" => Settled(s.call, s.status)
    BY DEF ClientInv, TypeOK, RepliesSettle
  <2>2. s.call # c
    BY <2>1, <1>5
  <2> QED BY <2>1, <2>2, <1>1, <1>4, <1>12, SettledElsewhere
<1>14. ResultsSettle'
  <2> SUFFICES ASSUME NEW d \in Calls,
                      call'[d].result \in Refusals \cup {"ok", "undecodable"}
               PROVE  Settled(d, call[d].result)'
    BY DEF ResultsSettle
  <2>1. d # c
    BY <1>2, <1>4, ClientConfig
  <2>2. call'[d] = call[d] /\ Settled(d, call[d].result)
    BY <2>1, <1>4 DEF ClientInv, ResultsSettle
  <2> QED BY <2>1, <2>2, <1>1, <1>12 DEF Settled, OnWire, Carried
<1>15. CommitsCounted'
  BY <1>1 DEF ClientInv, CommitsCounted
<1>16. EditsKeepOrder'
  <2> SUFFICES ASSUME NEW x \in Calls, NEW y \in Calls, x \in call'[y].after,
                      call'[x].op = "update", call'[y].op = "update",
                      call'[x].result = "ok", call'[x].attempt = 0,
                      NEW m \in commits, m.call = x, NEW n \in commits, n.call = y
               PROVE  m.seq < n.seq
    BY <1>1 DEF EditsKeepOrder, CommitsOf
  <2>1. x # c /\ call'[x] = call[x]
    BY <1>2, <1>4
  <2>2. y = c => call[c].stage = "backoff" /\ call'[c].op = call[c].op
                                           /\ call'[c].after = call[c].after
    BY <1>2, <1>4, <1>6
  <2>3. x \in call[y].after /\ call[y].op = "update"
    BY <2>2, <1>4
  <2> QED BY <2>1, <2>3 DEF ClientInv, EditsKeepOrder, CommitsOf
<1> QED BY <1>7, <1>8, <1>9, <1>10, <1>11, <1>13, <1>14, <1>15, <1>16 DEF ClientInv

\* A call that is cancelled, or whose time passes, is under way as before.
LEMMA WaitsOnInv ==
  ASSUME ClientInv, call' \in [Calls -> CallType], UNCHANGED <<wire, replies, commits>>,
         \A c \in Calls : \/ call'[c] = call[c]
                          \/ /\ call[c].stage \in {"waiting", "backoff"}
                             /\ call'[c].stage = call[c].stage /\ call'[c].op = call[c].op
                             /\ call'[c].url = call[c].url /\ call'[c].after = call[c].after
                             /\ call'[c].attempt = call[c].attempt
                             /\ call'[c].result = call[c].result
  PROVE  ClientInv'
<1>1. \A c \in Calls : /\ call'[c].stage = call[c].stage /\ call'[c].op = call[c].op
                       /\ call'[c].url = call[c].url /\ call'[c].after = call[c].after
                       /\ call'[c].attempt = call[c].attempt
                       /\ call'[c].result = call[c].result
                       /\ call[c].stage = "idle" => call'[c] = call[c]
  OBVIOUS
<1>2. TypeOK'
  BY <1>1 DEF ClientInv, TypeOK
<1>3. CallsRun'
  <2>1. CallsRun /\ \A c \in Calls : call[c].after \subseteq Calls
    BY DEF ClientInv, TypeOK, CallType
  <2> QED BY <2>1, <1>1 DEF CallsRun
<1>4. RequestsSent' /\ CommitsSent' /\ OneFate'
  BY <1>1 DEF ClientInv, TypeOK, Request, RequestsSent, CommitsSent, OneFate, Carried, HasSent
<1>5. RepliesSettle'
  BY <1>1, SettledStays DEF ClientInv, TypeOK, RepliesSettle
<1>6. ResultsSettle'
  BY <1>1 DEF ClientInv, ResultsSettle, Settled, OnWire, Carried
<1>7. CommitsCounted' /\ EditsKeepOrder'
  BY <1>1 DEF ClientInv, CommitsCounted, EditsKeepOrder, CommitsOf
<1> QED BY <1>2, <1>3, <1>4, <1>5, <1>6, <1>7 DEF ClientInv

-----------------------------------------------------------------------------
(* One lemma per action of a call                                          *)

\* A method is called and its first request goes out.
LEMMA BeginInv ==
  ASSUME ClientInv, NEW c \in Calls, NEW op \in Ops, NEW url \in Urls, Begin(c, op, url)
  PROVE  ClientInv'
<1> DEFINE done == {d \in Calls : call[d].stage = "done"}
           r    == [Idle EXCEPT !.op = op, !.url = url, !.after = done]
<1>1. r \in CallType /\ r.result = "none" /\ r.op = op /\ r.url = url /\ r.after = done
  BY IdleType DEF CallType, Idle
<1>2. Send(c, r) /\ call[c].stage = "idle" /\ UNCHANGED <<replies, commits>>
  BY DEF Begin
<1>3. \A d \in done : d # c /\ call[d].stage = "done"
  BY <1>2
<1> HIDE DEF r, done
<1> QED BY <1>1, <1>2, <1>3, SendInv

\* A method is called and its request cannot be built.
LEMMA BeginFailsInv ==
  ASSUME ClientInv, NEW c \in Calls, NEW op \in Ops, NEW url \in Urls, BeginFails(c, op, url)
  PROVE  ClientInv'
<1> DEFINE i == [Idle EXCEPT !.op = op, !.url = url]
           r == Return(i, "unsent", "none")
<1>1. i \in CallType /\ i.op = op /\ i.url = url /\ i.after = {} /\ i.attempt = 0
  BY IdleType DEF CallType, Idle
<1>2. Goes(c, r) /\ call[c].stage = "idle" /\ UNCHANGED <<wire, replies, commits>>
  BY DEF BeginFails
<1> HIDE DEF i
<1>3. /\ r \in CallType /\ r.stage = "done" /\ r.result = "unsent" /\ r.op = op /\ r.url = url
      /\ r.after = {}
  BY <1>1, ReturnType DEF Results
<1> HIDE DEF r
<1>4. /\ call' \in [Calls -> CallType] /\ call'[c] = r
      /\ \A d \in Calls \ {c} : call'[d] = call[d]
  BY <1>2, <1>3, GoesTo DEF ClientInv
<1>5. /\ \A s \in wire : s.call # c
      /\ \A m \in commits : m.call # c
      /\ \A s \in replies : s.call # c
  BY <1>2 DEF ClientInv, RequestsSent, CommitsSent, RepliesSettle, HasSent
<1>6. TypeOK'
  BY <1>2, <1>3, <1>4 DEF ClientInv, TypeOK
<1>7. CallsRun'
  <2>1. CallsRun /\ \A d \in Calls : call[d].after \subseteq Calls
    BY DEF ClientInv, TypeOK, CallType
  <2> QED BY <2>1, <1>3, <1>4 DEF CallsRun
<1>8. RequestsSent' /\ CommitsSent' /\ OneFate'
  BY <1>2, <1>4, <1>5 DEF ClientInv, TypeOK, Request, RequestsSent, CommitsSent, OneFate, Carried, HasSent
<1>9. RepliesSettle'
  <2>1. \A s \in replies : call'[s.call] = call[s.call]
    BY <1>4, <1>5 DEF ClientInv, TypeOK
  <2> QED BY <2>1, <1>2, SettledStays DEF ClientInv, RepliesSettle
<1>10. ResultsSettle'
  <2> SUFFICES ASSUME NEW d \in Calls,
                      call'[d].result \in Refusals \cup {"ok", "undecodable"}
               PROVE  Settled(d, call[d].result)'
    BY DEF ResultsSettle
  <2>1. d # c
    BY <1>3, <1>4, ClientConfig
  <2>2. call'[d] = call[d] /\ Settled(d, call[d].result)
    BY <2>1, <1>4 DEF ClientInv, ResultsSettle
  <2> QED BY <2>1, <2>2, <1>2 DEF Settled, OnWire, Carried
<1>11. CommitsCounted'
  BY <1>2 DEF ClientInv, CommitsCounted
<1>12. EditsKeepOrder'
  BY <1>2, <1>3, <1>4 DEF ClientInv, EditsKeepOrder, CommitsOf
<1> QED BY <1>6, <1>7, <1>8, <1>9, <1>10, <1>11, <1>12 DEF ClientInv

\* The attempt failed in a way that is retried: the call backs off or gives up.
LEMMA RetryOrReturnInv ==
  ASSUME ClientInv, NEW c \in Calls, call[c].stage = "waiting",
         NEW error \in {"server", "timeout", "refused", "cancelled"},
         RetryOrReturn(c, error), replies' \subseteq replies, \A s \in replies' : s.call # c,
         UNCHANGED <<wire, commits>>
  PROVE  ClientInv'
<1>1. call[c] \in CallType /\ call[c].result = "none"
  BY DEF ClientInv, TypeOK, CallsRun
<1>2. CASE call[c].attempt < MaxRetries
  <2>1. PICK d \in Jitter(Delay(call[c].attempt + 1)) :
          Goes(c, [call[c] EXCEPT !.stage = "backoff", !.left = d])
    BY <1>2 DEF RetryOrReturn
  <2> DEFINE r == [call[c] EXCEPT !.stage = "backoff", !.left = d]
  <2>2. call[c].attempt + 1 \in Nat \ {0}
    BY <1>1 DEF CallType
  <2>3. d \in Nat
    BY <2>2, JitterCapped
  <2>4. /\ r \in CallType /\ r.stage = "backoff" /\ r.result = "none" /\ r.op = call[c].op
        /\ r.url = call[c].url /\ r.attempt = call[c].attempt /\ r.after = call[c].after
    BY <1>1, <2>3 DEF CallType
  <2> HIDE DEF r
  <2>5. Goes(c, r)
    BY <2>1 DEF r
  <2>6. "none" \notin Refusals \cup {"ok", "undecodable"}
    BY ClientConfig
  <2> QED BY <1>2, <2>4, <2>5, <2>6, MoveOnInv
<1>3. CASE ~(call[c].attempt < MaxRetries)
  <2> DEFINE r == Return(call[c], error, "none")
  <2>1. Goes(c, r)
    BY <1>3 DEF RetryOrReturn
  <2>2. error \in Results /\ error \notin Refusals \cup {"ok", "undecodable"}
    BY ClientConfig DEF Results
  <2>3. /\ r \in CallType /\ r.stage = "done" /\ r.result = error /\ r.op = call[c].op
        /\ r.url = call[c].url /\ r.attempt = call[c].attempt /\ r.after = call[c].after
    <3>1. call[c] \in CallType /\ error \in Results
      BY <1>1, <2>2
    <3> HIDE DEF r
    <3>2. r = Return(call[c], error, "none")
      BY DEF r
    <3> QED BY <3>1, <3>2, ReturnType
  <2> HIDE DEF r
  <2> QED BY <2>1, <2>2, <2>3, MoveOnInv
<1> QED BY <1>2, <1>3

\* No response comes.
LEMMA TransportFailsInv ==
  ASSUME ClientInv, NEW c \in Calls, TransportFails(c)
  PROVE  ClientInv'
<1> DEFINE error == IF call[c].cancelled THEN "cancelled"
                    ELSE IF Overdue(c) THEN "timeout" ELSE "refused"
<1>1. error \in {"server", "timeout", "refused", "cancelled"}
  OBVIOUS
<1>2. /\ call[c].stage = "waiting" /\ RetryOrReturn(c, error)
      /\ replies' \subseteq replies /\ \A s \in replies' : s.call # c
      /\ UNCHANGED <<wire, commits>>
  BY DEF TransportFails
<1> HIDE DEF error
<1> QED BY <1>1, <1>2, RetryOrReturnInv

\* A response comes: 5xx is retried, 4xx and 2xx are returned.
LEMMA ReadReplyInv ==
  ASSUME ClientInv, NEW c \in Calls, ReadReply(c)
  PROVE  ClientInv'
<1>1. PICK s \in replies :
        /\ s.call = c
        /\ \/ s.status = "server" /\ RetryOrReturn(c, "server")
           \/ s.status \in Refusals /\ Goes(c, Return(call[c], s.status, "none"))
           \/ s.status = "ok"
              /\ \/ Goes(c, Return(call[c], "ok", s.entity))
                 \/ Goes(c, Return(call[c], "undecodable", "none"))
                 \/ Goes(c, Return(call[c], "ok", "zero"))
        /\ replies' = replies \ {s}
  BY DEF ReadReply
<1>2. call[c].stage = "waiting" /\ UNCHANGED <<wire, commits>>
  BY DEF ReadReply
<1>3. /\ replies' \subseteq replies
      /\ \A t \in replies' : t.call # c
      /\ s.status # "server" => Settled(c, s.status)
      /\ s.entity \in {"none", "zero", "stored", "other"}
  BY <1>1 DEF ClientInv, TypeOK, RepliesSettle
<1>4. CASE s.status = "server" /\ RetryOrReturn(c, "server")
  BY <1>2, <1>3, <1>4, RetryOrReturnInv
<1>5. ASSUME NEW result \in Refusals \cup {"ok", "undecodable"},
             NEW entity \in {"none", "zero", "stored", "other"},
             Settled(c, result), Goes(c, Return(call[c], result, entity))
      PROVE  ClientInv'
  <2> DEFINE r == Return(call[c], result, entity)
  <2>1. call[c] \in CallType
    BY DEF ClientInv, TypeOK
  <2>2. result \in Results /\ result \notin {"none", "unsent"}
    BY ClientConfig DEF Results
  <2>3. /\ r \in CallType /\ r.stage = "done" /\ r.result = result /\ r.op = call[c].op
        /\ r.url = call[c].url /\ r.attempt = call[c].attempt /\ r.after = call[c].after
    <3>1. call[c] \in CallType /\ result \in Results
      BY <2>1, <2>2
    <3> HIDE DEF r
    <3>2. r = Return(call[c], result, entity)
      BY DEF r
    <3> QED BY <3>1, <3>2, ReturnType
  <2>4. Goes(c, r)
    BY <1>5
  <2> HIDE DEF r
  <2> QED BY <1>2, <1>3, <1>5, <2>2, <2>3, <2>4, MoveOnInv
<1>6. CASE s.status \in Refusals /\ Goes(c, Return(call[c], s.status, "none"))
  <2>1. Settled(c, s.status)
    BY <1>3, <1>6, ClientConfig
  <2> QED BY <2>1, <1>5, <1>6
<1>7. CASE s.status = "ok" /\ \/ Goes(c, Return(call[c], "ok", s.entity))
                              \/ Goes(c, Return(call[c], "undecodable", "none"))
                              \/ Goes(c, Return(call[c], "ok", "zero"))
  <2>1. Settled(c, "ok") /\ Settled(c, "undecodable")
    BY <1>3, <1>7, ClientConfig DEF Settled
  <2> QED BY <2>1, <1>3, <1>5, <1>7
<1> QED BY <1>1, <1>4, <1>6, <1>7

\* The timer of a backoff fires and the next attempt goes out.
LEMMA BackoffEndsInv ==
  ASSUME ClientInv, NEW c \in Calls, BackoffEnds(c)
  PROVE  ClientInv'
<1> DEFINE r == [call[c] EXCEPT !.attempt = @ + 1]
<1>1. Send(c, r) /\ call[c].stage = "backoff" /\ UNCHANGED <<replies, commits>>
  BY DEF BackoffEnds
<1>2. /\ call[c] \in CallType /\ call[c].attempt < MaxRetries /\ call[c].result = "none"
      /\ call[c].op \in Ops /\ call[c].url \in Urls
      /\ \A d \in call[c].after : d # c /\ call[d].stage = "done"
  BY <1>1 DEF ClientInv, TypeOK, CallsRun
<1>3. /\ r \in CallType /\ r.result = "none" /\ r.op = call[c].op /\ r.url = call[c].url
      /\ r.after = call[c].after /\ r.attempt = call[c].attempt + 1
  BY <1>2, ClientConfig DEF CallType
<1> HIDE DEF r
<1> QED BY <1>1, <1>2, <1>3, SendInv

\* A cancelled call stops backing off and returns.
LEMMA BackoffAbortsInv ==
  ASSUME ClientInv, NEW c \in Calls, BackoffAborts(c)
  PROVE  ClientInv'
<1> DEFINE r == Return(call[c], "cancelled", "none")
<1>1. Goes(c, r) /\ call[c].stage = "backoff" /\ UNCHANGED <<wire, replies, commits>>
  BY DEF BackoffAborts
<1>2. call[c] \in CallType
  BY DEF ClientInv, TypeOK
<1>3. /\ r \in CallType /\ r.stage = "done" /\ r.result = "cancelled" /\ r.op = call[c].op
      /\ r.url = call[c].url /\ r.attempt = call[c].attempt /\ r.after = call[c].after
  BY <1>2, ReturnType DEF Results
<1> HIDE DEF r
<1>4. "cancelled" \notin Refusals \cup {"ok", "undecodable"}
  BY ClientConfig
<1>5. \A s \in replies : s.call # c
  BY <1>1 DEF ClientInv, RepliesSettle
<1> QED BY <1>1, <1>3, <1>4, <1>5, MoveOnInv

\* The context of a call is cancelled, which the call has yet to notice.
LEMMA CancelInv ==
  ASSUME ClientInv, NEW c \in Calls, Cancel(c)
  PROVE  ClientInv'
<1> DEFINE r == [call[c] EXCEPT !.cancelled = TRUE]
<1>1. /\ Goes(c, r) /\ call[c].stage \in {"waiting", "backoff"}
      /\ UNCHANGED <<wire, replies, commits>>
  BY DEF Cancel
<1>2. call[c] \in CallType
  BY DEF ClientInv, TypeOK
<1>3. /\ r \in CallType /\ r.stage = call[c].stage /\ r.result = call[c].result
      /\ r.op = call[c].op /\ r.url = call[c].url /\ r.attempt = call[c].attempt
      /\ r.after = call[c].after
  BY <1>2 DEF CallType
<1> HIDE DEF r
<1>4. /\ call' \in [Calls -> CallType] /\ call'[c] = r
      /\ \A d \in Calls \ {c} : call'[d] = call[d]
  BY <1>1, <1>3, GoesTo DEF ClientInv
<1> QED BY <1>1, <1>3, <1>4, WaitsOnInv

\* Time passes for the calls under way, and changes nothing else of them.
LEMMA TickOnlyTimes ==
  ASSUME ClientInv, Tick
  PROVE  /\ call' \in [Calls -> CallType] /\ UNCHANGED <<wire, replies, commits>>
         /\ \A c \in Calls :
              /\ call'[c].stage = call[c].stage /\ call'[c].op = call[c].op
              /\ call'[c].url = call[c].url /\ call'[c].after = call[c].after
              /\ call'[c].attempt = call[c].attempt /\ call'[c].result = call[c].result
              /\ call'[c] = call[c] \/ call[c].stage \in {"waiting", "backoff"}
<1> DEFINE Later(c) == IF Running(c)
                       THEN [call[c] EXCEPT !.spent = @ + 1,
                                            !.left = IF @ = NoTimer THEN @ ELSE @ - 1]
                       ELSE call[c]
<1>1. call' = [c \in Calls |-> Later(c)] /\ UNCHANGED <<wire, replies, commits>>
  BY DEF Tick
<1>2. ASSUME NEW c \in Calls
      PROVE  /\ Later(c) \in CallType /\ Later(c).stage = call[c].stage
             /\ Later(c).result = call[c].result /\ Later(c).op = call[c].op
             /\ Later(c).url = call[c].url /\ Later(c).attempt = call[c].attempt
             /\ Later(c).after = call[c].after
  <2>1. call[c] \in CallType /\ (Running(c) => call[c].left # 0)
    BY DEF ClientInv, TypeOK, Tick, Overdue
  <2>2. CASE ~Running(c)
    BY <2>1, <2>2
  <2>3. CASE Running(c)
    <3> DEFINE left  == IF call[c].left = NoTimer THEN call[c].left ELSE call[c].left - 1
               later == [call[c] EXCEPT !.spent = @ + 1, !.left = left]
    <3>1. left \in Nat \cup {NoTimer} /\ call[c].spent + 1 \in Nat
      BY <2>1, <2>3 DEF CallType, NoTimer
    <3>2. Later(c) = later
      BY <2>3
    <3> HIDE DEF left, Later
    <3> QED BY <2>1, <3>1, <3>2 DEF CallType
  <2> QED BY <2>2, <2>3
<1>3. \A c \in Calls : Later(c) = call[c] \/ call[c].stage \in {"waiting", "backoff"}
  BY DEF Running
<1> HIDE DEF Later
<1>4. call' \in [Calls -> CallType] /\ \A c \in Calls : call'[c] = Later(c)
  BY <1>1, <1>2
<1> QED BY <1>1, <1>2, <1>3, <1>4

\* So it keeps the invariant.
LEMMA TickInv == ASSUME ClientInv, Tick PROVE ClientInv'
  BY TickOnlyTimes, WaitsOnInv

-----------------------------------------------------------------------------
(* One lemma per action of BookStack and of what stands before it          *)

\* A write that BookStack carries out is the last one, and counted as such.
LEMMA CommitCounts ==
  ASSUME ClientInv, NEW r \in wire, Commits(r)
  PROVE  /\ IsFiniteSet(commits')
         /\ Cardinality(commits) \in Nat
         /\ Cardinality(commits') = Cardinality(commits) + 1
         /\ \A m \in commits : m.seq < Cardinality(commits)
<1> DEFINE k == Cardinality(commits)
           m == [call |-> r.call, n |-> r.n, seq |-> k]
<1>1. commits' = commits \cup {m}
  BY DEF Commits
<1>2. IsFiniteSet(commits) /\ \A x \in commits : x.seq < k
  BY DEF ClientInv, CommitsCounted
<1>3. k \in Nat
  BY <1>2, FS_CardinalityType
<1>4. m.seq = k
  OBVIOUS
<1> HIDE DEF m
<1>5. m \notin commits
  <2> HIDE DEF k
  <2> QED BY <1>2, <1>3, <1>4
<1>6. IsFiniteSet(commits \cup {m}) /\ Cardinality(commits \cup {m}) = k + 1
  BY <1>2, <1>5, FS_AddElement
<1> QED BY <1>1, <1>2, <1>3, <1>6

\* BookStack decides a request: it leaves the wire, and is carried out or not;
\* the response, if one gets through, says so or is a 5xx.
LEMMA DecidedInv ==
  ASSUME ClientInv, NEW r \in wire, wire' = wire \ {r}, call' = call,
         \/ commits' = commits
         \/ Writes(r.op) /\ Commits(r),
         \/ replies' = replies
         \/ \E s \in [call: {r.call}, status: Refusals \cup {"ok", "server"},
                      entity: {"none", "stored", "other"}] :
              /\ Awaited(r) /\ \A t \in replies : t.call # r.call
              /\ replies' = replies \cup {s}
              /\ s.status = "ok" /\ Writes(r.op) => Commits(r)
              /\ s.status \in Refusals => commits' = commits
  PROVE  ClientInv'
<1> DEFINE new == [call |-> r.call, n |-> r.n, seq |-> Cardinality(commits)]
<1>1. /\ r \in Request /\ r.call \in Calls /\ r.n \in Nat
      /\ \A q \in wire : q.call \in Calls /\ q.n \in Nat
      /\ \A m \in commits : m.call \in Calls /\ m.n \in Nat /\ m.seq \in Nat
      /\ \A c \in Calls : call[c].attempt \in Nat
  BY DEF ClientInv, TypeOK, Request, CallType
<1>2. /\ new.call = r.call /\ new.n = r.n /\ new.seq = Cardinality(commits)
      /\ Commits(r) <=> commits' = commits \cup {new}
  BY DEF Commits
<1>3. /\ Cardinality(commits) \in Nat
      /\ \A m \in commits : m.seq < Cardinality(commits)
  BY FS_CardinalityType DEF ClientInv, CommitsCounted
<1>4. new \in [call: Calls, n: 0..MaxRetries, seq: Nat]
  BY <1>1, <1>3 DEF Request
<1> HIDE DEF new
<1>5. \A m \in commits' : m \in commits \/ (m = new /\ Writes(r.op) /\ Commits(r))
  BY <1>2
<1>6. commits \subseteq commits'
  BY <1>2
<1>7. TypeOK'
  BY <1>1, <1>4, <1>5 DEF ClientInv, TypeOK
<1>8. CallsRun' /\ RequestsSent'
  BY DEF ClientInv, CallsRun, RequestsSent, HasSent
<1>9. CommitsSent'
  <2> SUFFICES ASSUME NEW m \in commits'
               PROVE  /\ HasSent(m.call) /\ m.n <= call[m.call].attempt
                      /\ Writes(call[m.call].op)
    BY DEF CommitsSent, HasSent
  <2>1. CASE m \in commits
    BY <2>1 DEF ClientInv, CommitsSent
  <2>2. CASE m = new /\ Writes(r.op)
    BY <2>2, <1>2 DEF ClientInv, RequestsSent, Writes
  <2> QED BY <2>1, <2>2, <1>5
<1>10. OneFate'
  BY <1>2, <1>5 DEF ClientInv, OneFate, Carried
<1>11. ASSUME NEW c \in Calls, NEW answer, Settled(c, answer)
       PROVE  Settled(c, answer)'
  <2>1. ~(r.call = c /\ r.n = call[c].attempt)
    BY <1>11 DEF Settled, OnWire
  <2>2. Carried(c, call[c].attempt)' <=> Carried(c, call[c].attempt)
    BY <2>1, <1>2, <1>5, <1>6 DEF Carried
  <2>3. ~OnWire(c, call[c].attempt)'
    BY <1>11 DEF Settled, OnWire
  <2> QED BY <2>2, <2>3, <1>11 DEF Settled
<1>12. RepliesSettle'
  <2>1. CASE replies' = replies
    BY <2>1, <1>11 DEF ClientInv, TypeOK, RepliesSettle
  <2>2. ASSUME NEW s \in [call: {r.call}, status: Refusals \cup {"ok", "server"},
                          entity: {"none", "stored", "other"}],
               Awaited(r), \A t \in replies : t.call # r.call,
               replies' = replies \cup {s},
               s.status = "ok" /\ Writes(r.op) => Commits(r),
               s.status \in Refusals => commits' = commits
        PROVE  RepliesSettle'
    <3>1. s.call = r.call /\ call[r.call].stage = "waiting" /\ r.n = call[r.call].attempt
      BY <2>2 DEF Awaited
    <3>2. ~OnWire(r.call, r.n)'
      BY DEF ClientInv, OneFate, OnWire
    <3>3. s.status = "ok" /\ Writes(call[r.call].op) /\ call[r.call].url # "redirected"
            => Carried(r.call, r.n)'
      <4>1. call[r.call].url # "redirected" => r.op = call[r.call].op
        BY DEF ClientInv, RequestsSent
      <4> QED BY <4>1, <2>2, <1>2 DEF Carried
    <3>4. s.status \in Refusals => ~Carried(r.call, r.n)'
      BY <2>2 DEF ClientInv, OneFate, Carried
    <3>5. s.status # "undecodable" /\ ("ok" \notin Refusals /\ "server" \notin Refusals)
      BY ClientConfig
    <3>6. Settled(r.call, s.status)'
      BY <3>1, <3>2, <3>3, <3>4, <3>5 DEF Settled
    <3>7. \A t \in replies : /\ call[t.call].stage = "waiting" /\ t.call \in Calls
                             /\ \A u \in replies : u.call = t.call => u = t
                             /\ t.status # "server" => Settled(t.call, t.status)'
      BY <1>11 DEF ClientInv, TypeOK, RepliesSettle
    <3> QED BY <2>2, <3>1, <3>6, <3>7 DEF RepliesSettle
  <2> QED BY <2>1, <2>2
<1>13. ResultsSettle'
  BY <1>11 DEF ClientInv, ResultsSettle
<1>14. CommitsCounted'
  <2>1. CASE commits' = commits
    BY <2>1 DEF ClientInv, CommitsCounted
  <2>2. CASE Commits(r)
    BY <2>2, <1>1, <1>2, <1>3, <1>5, CommitCounts DEF CommitsCounted
  <2> QED BY <2>1, <2>2
<1>15. EditsKeepOrder'
  <2> SUFFICES ASSUME NEW x \in Calls, NEW y \in Calls, x \in call[y].after,
                      call[x].op = "update", call[y].op = "update",
                      call[x].result = "ok", call[x].attempt = 0,
                      NEW m \in commits', m.call = x, NEW n \in commits', n.call = y
               PROVE  m.seq < n.seq
    BY DEF EditsKeepOrder, CommitsOf
  <2>1. m \in commits
    <3>1. SUFFICES r.call # x
      BY <1>2, <1>5
    <3>2. ~OnWire(x, 0)
      BY DEF ClientInv, ResultsSettle, Settled
    <3>3. r.call = x => r.n = 0
      BY <1>1 DEF ClientInv, RequestsSent
    <3> QED BY <3>2, <3>3 DEF OnWire
  <2>2. CASE n \in commits
    BY <2>1, <2>2 DEF ClientInv, EditsKeepOrder, CommitsOf
  <2>3. CASE n = new
    BY <2>1, <2>3, <1>2, <1>3
  <2> QED BY <2>2, <2>3, <1>5
<1> QED BY <1>7, <1>8, <1>9, <1>10, <1>12, <1>13, <1>14, <1>15 DEF ClientInv

\* BookStack carries out what it is asked for.
LEMMA BookStackAcceptsInv ==
  ASSUME ClientInv, NEW r \in wire, BookStackAccepts(r)
  PROVE  ClientInv'
<1>1. /\ wire' = wire \ {r} /\ call' = call
      /\ IF Writes(r.op) THEN Commits(r) ELSE commits' = commits
  BY DEF BookStackAccepts
<1>2. PICK entity \in {"stored", "other"} :
        \/ Responds(r, "ok", entity) \/ Responds(r, "server", "none") \/ UNCHANGED replies
  BY DEF BookStackAccepts
<1>3. ASSUME NEW status \in {"ok", "server"}, NEW e \in {"none", "stored", "other"},
             Responds(r, status, e)
      PROVE  \/ replies' = replies
             \/ \E s \in [call: {r.call}, status: Refusals \cup {"ok", "server"},
                          entity: {"none", "stored", "other"}] :
                  /\ Awaited(r) /\ \A t \in replies : t.call # r.call
                  /\ replies' = replies \cup {s}
                  /\ s.status = "ok" /\ Writes(r.op) => Commits(r)
                  /\ s.status \in Refusals => commits' = commits
  <2> DEFINE s == [call |-> r.call, status |-> status, entity |-> e]
  <2>1. s \in [call: {r.call}, status: Refusals \cup {"ok", "server"},
               entity: {"none", "stored", "other"}]
    OBVIOUS
  <2>2. s.status \notin Refusals
    BY ClientConfig
  <2>3. \/ replies' = replies
        \/ /\ Awaited(r) /\ \A t \in replies : t.call # r.call
           /\ replies' = replies \cup {s}
    BY <1>3 DEF Responds
  <2> HIDE DEF s
  <2> QED BY <2>1, <2>2, <2>3, <1>1
<1> QED BY <1>1, <1>2, <1>3, DecidedInv

\* BookStack refuses a request, or fails before it writes.
LEMMA BookStackRefusesInv ==
  ASSUME ClientInv, NEW r \in wire, BookStackRefuses(r)
  PROVE  ClientInv'
<1>1. wire' = wire \ {r} /\ call' = call /\ commits' = commits
  BY DEF BookStackRefuses
<1>2. CASE replies' = replies
  BY <1>1, <1>2, DecidedInv
<1>3. ASSUME NEW status \in Refusals \cup {"server"}, Responds(r, status, "none")
      PROVE  ClientInv'
  <2> DEFINE s == [call |-> r.call, status |-> status, entity |-> "none"]
  <2>1. s \in [call: {r.call}, status: Refusals \cup {"ok", "server"},
               entity: {"none", "stored", "other"}]
    OBVIOUS
  <2>2. s.status # "ok"
    BY ClientConfig
  <2>3. \/ replies' = replies
        \/ /\ Awaited(r) /\ \A t \in replies : t.call # r.call
           /\ replies' = replies \cup {s}
    BY <1>3 DEF Responds
  <2> HIDE DEF s
  <2> QED BY <2>1, <2>2, <2>3, <1>1, DecidedInv
<1> QED BY <1>2, <1>3 DEF BookStackRefuses

\* The gateway answers in place of BookStack: nothing is settled.
LEMMA GatewayGivesUpInv ==
  ASSUME ClientInv, NEW r \in wire, GatewayGivesUp(r)
  PROVE  ClientInv'
<1> DEFINE s == [call |-> r.call, status |-> "server", entity |-> "none"]
<1>1. UNCHANGED <<call, wire, commits>> /\ call[r.call].stage = "waiting"
  BY DEF GatewayGivesUp, Awaited
<1>2. \/ replies' = replies
      \/ replies' = replies \cup {s} /\ \A t \in replies : t.call # r.call
  BY DEF GatewayGivesUp, Responds
<1>3. /\ s \in [call: Calls, status: Refusals \cup {"ok", "server"},
                entity: {"none", "stored", "other"}]
      /\ s.call = r.call /\ s.status = "server"
  BY DEF ClientInv, TypeOK, Request
<1> HIDE DEF s
<1>4. TypeOK'
  BY <1>1, <1>2, <1>3 DEF ClientInv, TypeOK
<1>5. CallsRun' /\ RequestsSent' /\ CommitsSent' /\ OneFate'
  BY <1>1 DEF ClientInv, CallsRun, RequestsSent, CommitsSent, OneFate, Carried, HasSent
<1>6. RepliesSettle'
  <2>1. ASSUME NEW c, NEW a, Settled(c, a) PROVE Settled(c, a)'
    BY <1>1, <2>1, SettledStays
  <2> QED BY <1>1, <1>2, <1>3, <2>1 DEF ClientInv, RepliesSettle
<1>7. ResultsSettle'
  BY <1>1 DEF ClientInv, ResultsSettle, Settled, OnWire, Carried
<1>8. CommitsCounted' /\ EditsKeepOrder'
  BY <1>1 DEF ClientInv, CommitsCounted, EditsKeepOrder, CommitsOf
<1> QED BY <1>4, <1>5, <1>6, <1>7, <1>8 DEF ClientInv

\* The listener on port 80 sends a request on, as a GET.
LEMMA FollowRedirectInv ==
  ASSUME ClientInv, NEW r \in wire, FollowRedirect(r)
  PROVE  ClientInv'
<1> DEFINE q == [r EXCEPT !.hop = "direct", !.op = "get"]
<1>1. /\ wire' = (wire \ {r}) \cup {q} /\ UNCHANGED <<call, replies, commits>>
      /\ r.hop = "redirected"
  BY DEF FollowRedirect
<1>2. r \in Request
  BY DEF ClientInv, TypeOK
<1>3. q \in Request /\ q.call = r.call /\ q.n = r.n /\ q.op = "get" /\ q.hop = "direct"
  BY <1>2 DEF Request
<1> HIDE DEF q
<1>4. TypeOK'
  BY <1>1, <1>3 DEF ClientInv, TypeOK
<1>5. CallsRun' /\ CommitsSent'
  BY <1>1 DEF ClientInv, CallsRun, CommitsSent, HasSent
<1>6. RequestsSent'
  BY <1>1, <1>3 DEF ClientInv, RequestsSent, HasSent
<1>7. OneFate'
  BY <1>1, <1>3 DEF ClientInv, OneFate, Carried
<1>8. ASSUME NEW c, NEW a, Settled(c, a) PROVE Settled(c, a)'
  <2>1. \A n : OnWire(c, n)' <=> OnWire(c, n)
    BY <1>1, <1>3 DEF OnWire
  <2> QED BY <1>1, <1>8, <2>1 DEF Settled, Carried
<1>9. RepliesSettle' /\ ResultsSettle'
  BY <1>1, <1>8 DEF ClientInv, RepliesSettle, ResultsSettle
<1>10. CommitsCounted' /\ EditsKeepOrder'
  BY <1>1 DEF ClientInv, CommitsCounted, EditsKeepOrder, CommitsOf
<1> QED BY <1>4, <1>5, <1>6, <1>7, <1>9, <1>10 DEF ClientInv

-----------------------------------------------------------------------------
(* The invariant and what it says of writes                                *)

\* At first nobody has called, and nothing is under way.
LEMMA InitClient == Init => ClientInv
<1> SUFFICES ASSUME Init PROVE ClientInv
  OBVIOUS
<1>1. call = [c \in Calls |-> Idle] /\ wire = {} /\ replies = {} /\ commits = {}
  BY DEF Init
<1>2. /\ Idle.stage = "idle" /\ Idle.result = "none" /\ Idle.after = {}
  BY DEF Idle
<1>3. TypeOK
  BY <1>1, <1>2, IdleType DEF TypeOK
<1>4. CallsRun /\ RequestsSent /\ CommitsSent /\ OneFate /\ RepliesSettle
  BY <1>1, <1>2 DEF CallsRun, RequestsSent, CommitsSent, OneFate, RepliesSettle, Carried
<1>5. ResultsSettle
  BY <1>1, <1>2, ClientConfig DEF ResultsSettle
<1>6. CommitsCounted /\ EditsKeepOrder
  BY <1>1, <1>2, FS_EmptySet DEF CommitsCounted, EditsKeepOrder, CommitsOf
<1> QED BY <1>3, <1>4, <1>5, <1>6 DEF ClientInv

\* Every step keeps it.
LEMMA StepKeepsClientInv == ClientInv /\ [Next]_vars => ClientInv'
<1> SUFFICES ASSUME ClientInv, [Next]_vars PROVE ClientInv'
  OBVIOUS
<1>1. ASSUME NEW c \in Calls, NEW op \in Ops, NEW url \in Urls,
             Begin(c, op, url) \/ BeginFails(c, op, url)
      PROVE  ClientInv'
  BY <1>1, BeginInv, BeginFailsInv
<1>2. ASSUME NEW c \in Calls, Loop(c) \/ Cancel(c) PROVE ClientInv'
  BY <1>2, TransportFailsInv, ReadReplyInv, BackoffEndsInv, BackoffAbortsInv, CancelInv DEF Loop
<1>3. CASE Outside
  BY <1>3, BookStackAcceptsInv, BookStackRefusesInv, GatewayGivesUpInv, FollowRedirectInv,
     TickInv DEF Outside
<1>4. CASE UNCHANGED vars
  <2>1. call' \in [Calls -> CallType] /\ UNCHANGED <<call, wire, replies, commits>>
    BY <1>4 DEF vars, ClientInv, TypeOK
  <2> QED BY <2>1, WaitsOnInv
<1> QED BY <1>1, <1>2, <1>3, <1>4 DEF Next

\* An attempt has one fate and a settled one stays settled, for whatever calls,
\* budgets, timeouts and delays (client.go, doRaw).
THEOREM ClientInvariance == Spec => []ClientInv
<1> QED BY InitClient, StepKeepsClientInv, PTL DEF Spec

\* The client's state keeps its type; a call backs off only with budget left.
THEOREM ClientTypes == Spec => []TypeOK
<1>1. ClientInv => TypeOK
  BY DEF ClientInv
<1> QED BY <1>1, ClientInvariance, PTL

\* A write that the client reports as done is in the wiki, provided that
\* WIKI_BASE_URL leads there without a redirect (client.go, doRaw and send).
THEOREM SuccessTold ==
  ASSUME "redirected" \notin Urls
  PROVE  Spec => []SuccessIsCommitted
<1>1. ClientInv => SuccessIsCommitted
  <2> SUFFICES ASSUME ClientInv, NEW c \in Calls, call[c].result \in {"ok", "undecodable"},
                      Writes(call[c].op)
               PROVE  CommitsOf(c) # {}
    BY DEF SuccessIsCommitted
  <2>1. call[c].url # "redirected"
    BY ClientConfig DEF ClientInv, CallsRun, Idle
  <2>2. Carried(c, call[c].attempt)
    BY <2>1 DEF ClientInv, ResultsSettle, Settled
  <2> QED BY <2>2 DEF Carried, CommitsOf
<1> QED BY <1>1, ClientInvariance, PTL

\* An update that returned at the first attempt never overwrites one that was
\* made after it, whether or not requests are redirected (pages.go, UpdatePage).
THEOREM EditsOrdered == Spec => []EditsKeepOrder
<1>1. ClientInv => EditsKeepOrder
  BY DEF ClientInv
<1> QED BY <1>1, ClientInvariance, PTL

\* A call whose context was done while it backed off: it backs off or is in an
\* attempt that nothing went out for, or it has returned the context's error.
Sunk(c) ==
  \/ call[c].stage = "backoff" /\ call[c].cancelled
  \/ /\ call[c].stage = "waiting" /\ call[c].cancelled
     /\ ~OnWire(c, call[c].attempt) /\ \A r \in replies : r.call # c
  \/ call[c].stage = "done" /\ call[c].result = "cancelled"

\* No step of its own brings such a call back.
LEMMA OwnStepSinks ==
  ASSUME ClientInv, NEW c \in Calls, Sunk(c), Loop(c) \/ Cancel(c)
  PROVE  Sunk(c)'
<1>0. call \in [Calls -> CallType]
  BY DEF ClientInv, TypeOK
<1>1. CASE TransportFails(c)
  <2>1. call[c].stage = "waiting" /\ call[c].cancelled
    BY <1>1 DEF Sunk, TransportFails
  <2>2. RetryOrReturn(c, "cancelled")
    BY <1>1, <2>1 DEF TransportFails
  <2>3. \/ call'[c].stage = "backoff" /\ call'[c].cancelled
        \/ call'[c].stage = "done" /\ call'[c].result = "cancelled"
    <3>1. /\ call[c] \in CallType
          /\ \A q : Goes(c, q) => call'[c] = q
      BY <1>0 DEF Goes
    <3>2. CASE call[c].attempt < MaxRetries
      BY <2>1, <2>2, <3>1, <3>2 DEF RetryOrReturn, CallType
    <3>3. CASE ~(call[c].attempt < MaxRetries)
      BY <2>2, <3>1, <3>3 DEF RetryOrReturn, Return, CallType
    <3> QED BY <3>2, <3>3
  <2> QED BY <2>3 DEF Sunk
<1>2. CASE ReadReply(c)
  BY <1>2 DEF Sunk, ReadReply
<1>3. CASE BackoffEnds(c)
  <2>1. /\ call[c].stage = "backoff" /\ call[c].cancelled
        /\ call[c].attempt \in Nat
    BY <1>0, <1>3, ClientConfig DEF Sunk, BackoffEnds, CallType
  <2>2. /\ wire' = wire /\ replies' = replies
        /\ call'[c].stage = "waiting" /\ call'[c].cancelled
        /\ call'[c].attempt = call[c].attempt + 1
    BY <1>0, <1>3, <2>1 DEF BackoffEnds, Send, Goes, CallType
  <2>3. ~OnWire(c, call[c].attempt + 1)
    <3>1. \A r \in wire : r.call = c => r.n \in Nat /\ r.n <= call[c].attempt
      BY ClientConfig DEF ClientInv, TypeOK, Request, RequestsSent
    <3> QED BY <2>1, <3>1 DEF OnWire
  <2>4. \A r \in replies : r.call # c
    BY <2>1 DEF ClientInv, RepliesSettle
  <2> QED BY <2>2, <2>3, <2>4 DEF Sunk, OnWire
<1>4. CASE BackoffAborts(c)
  BY <1>0, <1>4 DEF Sunk, BackoffAborts, Goes, Return
<1>5. CASE Cancel(c)
  BY <1>5 DEF Sunk, Cancel
<1> QED BY <1>1, <1>2, <1>3, <1>4, <1>5 DEF Loop

\* Nor does a step of another call, of BookStack or of the clock.
LEMMA StaysSunk ==
  ASSUME ClientInv, [Next]_vars, NEW c \in Calls, Sunk(c)
  PROVE  Sunk(c)'
<1>0. call \in [Calls -> CallType]
  BY DEF ClientInv, TypeOK
<1> DEFINE Same == call'[c] = call[c]
           NoneNew == \A r \in wire' : r.call = c => \E q \in wire : q.call = c /\ q.n = r.n
           NoAnswer == \A r \in replies' : r.call = c => r \in replies
<1>1. ASSUME Same, NoneNew, call[c].stage = "waiting" => NoAnswer PROVE Sunk(c)'
  BY <1>1 DEF Sunk, OnWire
<1>2. ASSUME NEW r \in wire, r.call = c, Awaited(r) PROVE FALSE
  BY <1>2 DEF Sunk, OnWire, Awaited
<1>3. ASSUME NEW d \in Calls, NEW op \in Ops, NEW url \in Urls,
             Begin(d, op, url) \/ BeginFails(d, op, url)
      PROVE  Sunk(c)'
  <2>1. d # c
    BY <1>3 DEF Sunk, Begin, BeginFails
  <2> QED BY <1>0, <1>1, <1>3, <2>1 DEF Begin, BeginFails, Send, Goes
<1>4. ASSUME NEW d \in Calls, d # c, Loop(d) \/ Cancel(d) PROVE Sunk(c)'
  <2>1. Same
    BY <1>0, <1>4 DEF Loop, TransportFails, ReadReply, BackoffEnds, BackoffAborts, Cancel,
                      RetryOrReturn, Send, Goes
  <2>2. NoneNew
    BY <1>4 DEF Loop, TransportFails, ReadReply, BackoffEnds, BackoffAborts, Cancel, Send
  <2>3. NoAnswer
    BY <1>4 DEF Loop, TransportFails, ReadReply, BackoffEnds, BackoffAborts, Cancel
  <2> QED BY <1>1, <2>1, <2>2, <2>3
<1>5. CASE Outside
  <2>1. ASSUME NEW r \in wire, BookStackAccepts(r) \/ BookStackRefuses(r) \/ GatewayGivesUp(r)
        PROVE  Sunk(c)'
    <3>1. Same /\ NoneNew
      BY <2>1 DEF BookStackAccepts, BookStackRefuses, GatewayGivesUp
    <3>2. NoAnswer
      BY <1>2, <2>1 DEF BookStackAccepts, BookStackRefuses, GatewayGivesUp, Responds
    <3> QED BY <1>1, <3>1, <3>2
  <2>2. ASSUME NEW r \in wire, FollowRedirect(r) PROVE Sunk(c)'
    <3>1. r.call # c /\ r \in Request
      BY <1>2, <2>2 DEF FollowRedirect, ClientInv, TypeOK
    <3>2. [r EXCEPT !.hop = "direct", !.op = "get"].call = r.call
      BY <3>1 DEF Request
    <3> QED BY <1>1, <2>2, <3>1, <3>2 DEF FollowRedirect
  <2>3. CASE Tick
    <3>1. call[c].stage = "done"
      BY <2>3 DEF Tick, Running, Sunk
    <3>2. Same
      BY <1>0, <2>3, <3>1 DEF Tick, Running
    <3> QED BY <1>1, <2>3, <3>2 DEF Tick
  <2> QED BY <1>5, <2>1, <2>2, <2>3 DEF Outside
<1>6. CASE UNCHANGED vars
  BY <1>1, <1>6 DEF vars
<1> QED BY <1>3, <1>4, <1>5, <1>6, OwnStepSinks DEF Next

\* A call whose context is done while it backs off returns the context's error,
\* for any budget, any delays and whatever else goes on (client.go, doRaw and
\* backoff).
THEOREM CancellationTold == Spec => CancelledIsTold
<1>1. ASSUME NEW c \in Calls
      PROVE  Spec => [](call[c].stage = "backoff" /\ call[c].cancelled
                         => [](call[c].stage = "done" => call[c].result = "cancelled"))
  <2>1. call[c].stage = "backoff" /\ call[c].cancelled => Sunk(c)
    BY DEF Sunk
  <2>2. ClientInv /\ [Next]_vars /\ Sunk(c) => Sunk(c)'
    BY StaysSunk
  <2>3. Sunk(c) => (call[c].stage = "done" => call[c].result = "cancelled")
    BY DEF Sunk
  <2> QED BY <2>1, <2>2, <2>3, ClientInvariance, PTL DEF Spec
<1> QED BY <1>1 DEF CancelledIsTold

-----------------------------------------------------------------------------
(* How long a call lasts                                                   *)

\* What so many attempts and so many waits may take.
Spendable(attempts, waits) == attempts * HttpTimeout + waits * MaxDelay

\* A call that waits or backs off has a timer, and by the time that it fires will
\* have spent no more than its attempts and waits so far are worth.
InTime(r) ==
  /\ r.stage \in {"idle", "done"} => r.spent = 0
  /\ r.stage = "waiting" => /\ r.left \in Nat
                            /\ r.spent + r.left <= Spendable(r.attempt + 1, r.attempt)
  /\ r.stage = "backoff" => /\ r.left \in Nat
                            /\ r.spent + r.left <= Spendable(r.attempt + 1, r.attempt + 1)

\* The inductive invariant behind the theorem on time.
TimeInv == HttpTimeout > 0 => \A c \in Calls : InTime(call[c])

\* A budget is a time.
LEMMA SpendableType ==
  ASSUME NEW a \in Nat, NEW w \in Nat PROVE Spendable(a, w) \in Nat
  BY ClientConfig DEF Spendable

\* One more attempt may take HttpTimeout more, one more wait MaxDelay.
LEMMA SpendableGrows ==
  ASSUME NEW a \in Nat, NEW w \in Nat
  PROVE  /\ Spendable(a + 1, w) = Spendable(a, w) + HttpTimeout
         /\ Spendable(a, w + 1) = Spendable(a, w) + MaxDelay
<1>1. HttpTimeout \in Nat /\ MaxDelay \in Nat
  BY ClientConfig
<1> QED BY <1>1 DEF Spendable

\* More attempts and more waits never take less.
LEMMA SpendableMonotone ==
  ASSUME NEW a \in Nat, NEW w \in Nat, NEW b \in Nat, NEW v \in Nat, a <= b, w <= v
  PROVE  Spendable(a, w) <= Spendable(b, v)
<1>1. ASSUME NEW k \in Nat, NEW m \in Nat, NEW n \in Nat, m <= n
      PROVE  m * k <= n * k
  <2>1. (n - m) * k \in Nat
    BY <1>1
  <2>2. n * k = m * k + (n - m) * k
    OBVIOUS
  <2>3. m * k \in Nat /\ n * k \in Nat
    OBVIOUS
  <2> QED BY <2>1, <2>2, <2>3
<1>2. HttpTimeout \in Nat /\ MaxDelay \in Nat
  BY ClientConfig
<1>3. a * HttpTimeout <= b * HttpTimeout /\ w * MaxDelay <= v * MaxDelay
  BY <1>1, <1>2
<1>4. {a * HttpTimeout, b * HttpTimeout, w * MaxDelay, v * MaxDelay} \subseteq Nat
  BY <1>2
<1> QED BY <1>3, <1>4 DEF Spendable

\* The first attempt of a call, and the next one when a backoff ends.
LEMMA SendInTime ==
  ASSUME HttpTimeout > 0, NEW c \in Calls, NEW r \in CallType, ClientInv, TimeInv, Send(c, r),
         \/ r.attempt = 0 /\ r.spent = 0
         \/ /\ call[c].stage = "backoff" /\ call[c].left = 0
            /\ r.attempt = call[c].attempt + 1 /\ r.spent = call[c].spent
  PROVE  TimeInv'
<1> DEFINE q == [r EXCEPT !.stage = "waiting",
                          !.left = IF HttpTimeout = 0 THEN NoTimer ELSE HttpTimeout]
<1>1. HttpTimeout \in Nat /\ MaxDelay \in Nat /\ r.attempt \in Nat /\ r.spent \in Nat
  BY ClientConfig DEF CallType
<1>2. /\ q \in CallType /\ q.stage = "waiting" /\ q.left = HttpTimeout
      /\ q.attempt = r.attempt /\ q.spent = r.spent
  <2>1. (IF HttpTimeout = 0 THEN NoTimer ELSE HttpTimeout) = HttpTimeout
    BY <1>1
  <2>2. q = [r EXCEPT !.stage = "waiting", !.left = HttpTimeout]
    BY <2>1
  <2> HIDE DEF q
  <2> QED BY <1>1, <2>2 DEF CallType
<1>3. Goes(c, q)
  BY DEF Send
<1> HIDE DEF q
<1>4. call'[c] = q /\ \A d \in Calls \ {c} : call'[d] = call[d]
  BY <1>2, <1>3, GoesTo DEF ClientInv
<1>5. r.spent + HttpTimeout <= Spendable(r.attempt + 1, r.attempt)
  <2>1. CASE r.attempt = 0 /\ r.spent = 0
    BY <2>1, <1>1 DEF Spendable
  <2>2. CASE /\ call[c].stage = "backoff" /\ call[c].left = 0
             /\ r.attempt = call[c].attempt + 1 /\ r.spent = call[c].spent
    <3>1. call[c].attempt \in Nat /\ call[c].spent \in Nat
      BY DEF ClientInv, TypeOK, CallType
    <3>2. r.spent <= Spendable(r.attempt, r.attempt)
      BY <2>2, <3>1 DEF TimeInv, InTime
    <3>3. Spendable(r.attempt, r.attempt) \in Nat
      BY <1>1, SpendableType
    <3>4. Spendable(r.attempt + 1, r.attempt) = Spendable(r.attempt, r.attempt) + HttpTimeout
      BY <1>1, SpendableGrows
    <3> QED BY <1>1, <3>2, <3>3, <3>4
  <2> QED BY <2>1, <2>2
<1> QED BY <1>1, <1>2, <1>4, <1>5 DEF TimeInv, InTime

\* A call that returns stops its clock.
LEMMA ReturnInTime ==
  ASSUME NEW c \in Calls, NEW result \in Results, ClientInv, TimeInv,
         NEW entity \in {"none", "zero", "stored", "other"},
         Goes(c, Return(call[c], result, entity))
  PROVE  TimeInv'
<1> DEFINE r == Return(call[c], result, entity)
<1>1. call[c] \in CallType
  BY DEF ClientInv, TypeOK
<1>2. r \in CallType /\ r.stage = "done" /\ r.spent = 0
  BY <1>1, ReturnType
<1> HIDE DEF r
<1>3. call'[c] = r /\ \A d \in Calls \ {c} : call'[d] = call[d]
  BY <1>2, GoesTo DEF ClientInv, r
<1> QED BY <1>2, <1>3 DEF TimeInv, InTime

\* An attempt has failed: a capped wait is added to what the call may spend.
LEMMA RetryInTime ==
  ASSUME NEW c \in Calls, ClientInv, TimeInv, call[c].stage = "waiting",
         NEW error \in {"server", "timeout", "refused", "cancelled"}, RetryOrReturn(c, error)
  PROVE  TimeInv'
<1>1. CASE ~(call[c].attempt < MaxRetries)
  BY <1>1, ReturnInTime DEF RetryOrReturn, Results
<1>2. CASE call[c].attempt < MaxRetries
  <2> SUFFICES ASSUME HttpTimeout > 0 PROVE \A d \in Calls : InTime(call[d])'
    BY DEF TimeInv
  <2>1. PICK d \in Jitter(Delay(call[c].attempt + 1)) :
          Goes(c, [call[c] EXCEPT !.stage = "backoff", !.left = d])
    BY <1>2 DEF RetryOrReturn
  <2> DEFINE r == [call[c] EXCEPT !.stage = "backoff", !.left = d]
  <2>2. call[c] \in CallType /\ call[c].attempt \in Nat /\ call[c].spent \in Nat
    BY DEF ClientInv, TypeOK, CallType
  <2>3. d \in Nat /\ d <= MaxDelay /\ MaxDelay \in Nat
    BY <2>2, JitterCapped, ClientConfig
  <2>4. /\ r \in CallType /\ r.stage = "backoff" /\ r.left = d
        /\ r.attempt = call[c].attempt /\ r.spent = call[c].spent
    BY <2>2, <2>3 DEF CallType
  <2>5. Goes(c, r)
    BY <2>1
  <2> HIDE DEF r
  <2>6. call'[c] = r /\ \A e \in Calls \ {c} : call'[e] = call[e]
    BY <2>4, <2>5, GoesTo DEF ClientInv
  <2>7. /\ call[c].left \in Nat
        /\ call[c].spent + call[c].left <= Spendable(call[c].attempt + 1, call[c].attempt)
    BY DEF TimeInv, InTime
  <2>8. /\ Spendable(call[c].attempt + 1, call[c].attempt) \in Nat
        /\ Spendable(call[c].attempt + 1, call[c].attempt + 1)
             = Spendable(call[c].attempt + 1, call[c].attempt) + MaxDelay
    <3> DEFINE a == call[c].attempt + 1
    <3>1. a \in Nat
      BY <2>2
    <3> HIDE DEF a
    <3>2. Spendable(a, call[c].attempt) \in Nat
      BY <2>2, <3>1, SpendableType
    <3>3. Spendable(a, call[c].attempt + 1) = Spendable(a, call[c].attempt) + MaxDelay
      BY <2>2, <3>1, SpendableGrows
    <3> QED BY <3>2, <3>3 DEF a
  <2>9. r.spent + r.left <= Spendable(r.attempt + 1, r.attempt + 1)
    BY <2>2, <2>3, <2>4, <2>7, <2>8
  <2> QED BY <2>3, <2>4, <2>6, <2>9 DEF TimeInv, InTime
<1> QED BY <1>1, <1>2

\* Time passes, and is taken from the timers that are still to fire.
LEMMA TickInTime == ASSUME ClientInv, TimeInv, Tick PROVE TimeInv'
<1> SUFFICES ASSUME HttpTimeout > 0, NEW c \in Calls PROVE InTime(call'[c])
  BY DEF TimeInv
<1>1. call[c] \in CallType /\ call[c].spent \in Nat /\ InTime(call[c])
  BY DEF ClientInv, TypeOK, CallType, TimeInv
<1>2. CASE ~Running(c)
  BY <1>1, <1>2 DEF Tick
<1>3. CASE Running(c)
  <2>1. call[c].left \in Nat \ {0}
    BY <1>1, <1>3 DEF Running, InTime, Tick, Overdue
  <2>2. call'[c] = [call[c] EXCEPT !.spent = @ + 1, !.left = @ - 1]
    <3>1. call'[c] = [call[c] EXCEPT !.spent = @ + 1,
                                     !.left = IF @ = NoTimer THEN @ ELSE @ - 1]
      BY <1>3 DEF Tick
    <3>2. call[c].left # NoTimer
      BY <2>1 DEF NoTimer
    <3> QED BY <3>1, <3>2
  <2>3. /\ call'[c].stage = call[c].stage /\ call'[c].attempt = call[c].attempt
        /\ call'[c].spent = call[c].spent + 1 /\ call'[c].left = call[c].left - 1
    BY <1>1, <2>2 DEF CallType
  <2>4. call'[c].left \in Nat /\ call'[c].spent + call'[c].left = call[c].spent + call[c].left
    BY <1>1, <2>1, <2>3
  <2> QED BY <1>1, <1>3, <2>3, <2>4 DEF InTime, Running
<1> QED BY <1>2, <1>3

\* Every step keeps calls in time.
LEMMA StepKeepsTime == ClientInv /\ TimeInv /\ [Next]_vars => TimeInv'
<1> SUFFICES ASSUME ClientInv, TimeInv, [Next]_vars PROVE TimeInv'
  OBVIOUS
<1>1. CASE call' = call
  BY <1>1 DEF TimeInv
<1>2. ASSUME NEW c \in Calls, NEW op \in Ops, NEW url \in Urls, Begin(c, op, url)
      PROVE  TimeInv'
  <2> DEFINE r == [Idle EXCEPT !.op = op, !.url = url,
                               !.after = {d \in Calls : call[d].stage = "done"}]
  <2>1. r \in CallType /\ r.attempt = 0 /\ r.spent = 0
    BY IdleType DEF CallType, Idle
  <2>2. Send(c, r)
    BY <1>2 DEF Begin
  <2> HIDE DEF r
  <2>3. HttpTimeout > 0 => TimeInv'
    BY <2>1, <2>2, SendInTime
  <2> QED BY <2>3 DEF TimeInv
<1>3. ASSUME NEW c \in Calls, NEW op \in Ops, NEW url \in Urls, BeginFails(c, op, url)
      PROVE  TimeInv'
  <2> DEFINE i == [Idle EXCEPT !.op = op, !.url = url]
             r == Return(i, "unsent", "none")
  <2>1. i \in CallType
    BY IdleType DEF CallType, Idle
  <2>2. r \in CallType /\ r.stage = "done" /\ r.spent = 0
    <3> HIDE DEF i
    <3> QED BY <2>1, ReturnType DEF Results
  <2>3. Goes(c, r)
    BY <1>3 DEF BeginFails
  <2> HIDE DEF r
  <2>4. call'[c] = r /\ \A d \in Calls \ {c} : call'[d] = call[d]
    BY <2>2, <2>3, GoesTo DEF ClientInv
  <2> QED BY <2>2, <2>4 DEF TimeInv, InTime
<1>4. ASSUME NEW c \in Calls, TransportFails(c) PROVE TimeInv'
  <2> DEFINE error == IF call[c].cancelled THEN "cancelled"
                      ELSE IF Overdue(c) THEN "timeout" ELSE "refused"
  <2>1. error \in {"server", "timeout", "refused", "cancelled"}
    OBVIOUS
  <2>2. call[c].stage = "waiting" /\ RetryOrReturn(c, error)
    BY <1>4 DEF TransportFails
  <2> HIDE DEF error
  <2> QED BY <2>1, <2>2, RetryInTime
<1>5. ASSUME NEW c \in Calls, ReadReply(c) PROVE TimeInv'
  <2>1. PICK s \in replies :
          \/ RetryOrReturn(c, "server")
          \/ s.status \in Refusals /\ Goes(c, Return(call[c], s.status, "none"))
          \/ Goes(c, Return(call[c], "ok", s.entity))
          \/ Goes(c, Return(call[c], "undecodable", "none"))
          \/ Goes(c, Return(call[c], "ok", "zero"))
    BY <1>5 DEF ReadReply
  <2>2. s.entity \in {"none", "stored", "other"} /\ call[c].stage = "waiting"
    BY <1>5 DEF ReadReply, ClientInv, TypeOK
  <2> QED BY <2>1, <2>2, RetryInTime, ReturnInTime DEF Results
<1>6. ASSUME NEW c \in Calls, BackoffEnds(c) PROVE TimeInv'
  <2> DEFINE r == [call[c] EXCEPT !.attempt = @ + 1]
  <2>1. Send(c, r) /\ call[c].stage = "backoff" /\ call[c].left = 0
    BY <1>6 DEF BackoffEnds, Overdue
  <2>2. call[c] \in CallType /\ call[c].attempt < MaxRetries
    BY <2>1 DEF ClientInv, TypeOK
  <2>3. r \in CallType /\ r.attempt = call[c].attempt + 1 /\ r.spent = call[c].spent
    BY <2>2, ClientConfig DEF CallType
  <2> HIDE DEF r
  <2>4. HttpTimeout > 0 => TimeInv'
    BY <2>1, <2>3, SendInTime
  <2> QED BY <2>4 DEF TimeInv
<1>7. ASSUME NEW c \in Calls, BackoffAborts(c) PROVE TimeInv'
  BY <1>7, ReturnInTime DEF BackoffAborts, Results
<1>8. ASSUME NEW c \in Calls, Cancel(c) PROVE TimeInv'
  <2> DEFINE r == [call[c] EXCEPT !.cancelled = TRUE]
  <2>1. Goes(c, r) /\ call[c] \in CallType
    BY <1>8 DEF Cancel, ClientInv, TypeOK
  <2>2. /\ r \in CallType /\ r.stage = call[c].stage /\ r.left = call[c].left
        /\ r.attempt = call[c].attempt /\ r.spent = call[c].spent
    BY <2>1 DEF CallType
  <2> HIDE DEF r
  <2>3. call'[c] = r /\ \A d \in Calls \ {c} : call'[d] = call[d]
    BY <2>1, <2>2, GoesTo DEF ClientInv
  <2> QED BY <2>2, <2>3 DEF TimeInv, InTime
<1>9. CASE Outside
  BY <1>1, <1>9, TickInTime
     DEF Outside, BookStackAccepts, BookStackRefuses, GatewayGivesUp, FollowRedirect
<1> QED BY <1>1, <1>2, <1>3, <1>4, <1>5, <1>6, <1>7, <1>8, <1>9 DEF Next, Loop, vars

\* A call that nobody cancels lasts no longer than its attempts and its capped
\* waits, for any retry budget, timeout and delays (client.go, doRaw and backoff).
THEOREM CallsInTime == Spec => []CallTimeBounded
<1>1. Init => TimeInv
  BY DEF Init, TimeInv, InTime, Idle
<1>2. ClientInv /\ TimeInv => CallTimeBounded
  <2> SUFFICES ASSUME ClientInv, TimeInv, HttpTimeout > 0, NEW c \in Calls
               PROVE  call[c].spent <= Spendable(MaxRetries + 1, MaxRetries)
    BY DEF CallTimeBounded, Spendable
  <2>1. /\ call[c].attempt \in 0..MaxRetries /\ call[c].spent \in Nat /\ MaxRetries \in Nat
        /\ call[c].stage \in {"idle", "waiting", "backoff", "done"}
        /\ call[c].stage = "backoff" => call[c].attempt < MaxRetries
    BY ClientConfig DEF ClientInv, TypeOK, CallType
  <2>2. Spendable(MaxRetries + 1, MaxRetries) \in Nat
    BY <2>1, ClientConfig DEF Spendable
  <2>3. CASE call[c].stage = "waiting"
    <3>1. Spendable(call[c].attempt + 1, call[c].attempt) <= Spendable(MaxRetries + 1, MaxRetries)
      BY <2>1, SpendableMonotone
    <3>2. Spendable(call[c].attempt + 1, call[c].attempt) \in Nat
      BY <2>1, ClientConfig DEF Spendable
    <3> QED BY <2>1, <2>2, <2>3, <3>1, <3>2 DEF TimeInv, InTime
  <2>4. CASE call[c].stage = "backoff"
    <3>1. Spendable(call[c].attempt + 1, call[c].attempt + 1) <= Spendable(MaxRetries + 1, MaxRetries)
      BY <2>1, <2>4, SpendableMonotone
    <3>2. Spendable(call[c].attempt + 1, call[c].attempt + 1) \in Nat
      BY <2>1, ClientConfig DEF Spendable
    <3> QED BY <2>1, <2>2, <2>4, <3>1, <3>2 DEF TimeInv, InTime
  <2>5. CASE call[c].stage \in {"idle", "done"}
    BY <2>2, <2>5 DEF TimeInv, InTime
  <2> QED BY <2>1, <2>3, <2>4, <2>5
<1> QED BY <1>1, <1>2, StepKeepsTime, ClientInvariance, PTL DEF Spec

-----------------------------------------------------------------------------
(* The retry loop implements at-least-once writes                          *)

\* Carried out once, and more than once.
Count(c) == Cardinality(CommitsOf(c))

\* What a call concluded is true of the writes that were carried out for it.
Told ==
  \A c \in Calls :
    /\ Conclusion(call[c]) = "once" => Count(c) = 1
    /\ Conclusion(call[c]) = "again" => Count(c) >= 1
    /\ Conclusion(call[c]) \in {"read", "refused"} => Count(c) = 0

\* The writes of a call are finitely many.
LEMMA CountType ==
  ASSUME ClientInv, NEW c
  PROVE  IsFiniteSet(CommitsOf(c)) /\ Count(c) \in Nat
<1>1. CommitsOf(c) \in SUBSET commits
  BY DEF CommitsOf
<1> QED BY <1>1, FS_Subset, FS_CardinalityType DEF ClientInv, CommitsCounted, Count

\* As long as a request of a call is on the wire, BookStack has carried out fewer
\* writes for it than the retry budget allows.
LEMMA BudgetLeft ==
  ASSUME ClientInv, NEW r \in wire
  PROVE  Count(r.call) <= MaxRetries
<1> DEFINE S == CommitsOf(r.call)
           T == (0..MaxRetries) \ {r.n}
           f == [m \in S |-> m.n]
<1>1. MaxRetries \in Nat /\ r.n \in 0..MaxRetries
  BY ClientConfig DEF ClientInv, TypeOK, Request
<1>2. f \in Injection(S, T)
  <2>1. \A m \in S : m.n \in T
    BY DEF ClientInv, TypeOK, OneFate, CommitsOf, Carried
  <2>2. \A m, n \in S : m.n = n.n => m = n
    BY DEF ClientInv, OneFate, CommitsOf
  <2> QED BY <2>1, <2>2 DEF Injection, IsInjective
<1>3. IsFiniteSet(T) /\ Cardinality(T) = MaxRetries
  <2> DEFINE U == 0..MaxRetries
  <2>1. IsFiniteSet(U) /\ Cardinality(U) = MaxRetries + 1
    BY <1>1, FS_Interval
  <2> HIDE DEF U
  <2>2. IsFiniteSet(U \ {r.n}) /\ Cardinality(U \ {r.n}) = Cardinality(U) - 1
    BY <2>1, <1>1, FS_RemoveElement DEF U
  <2> QED BY <2>1, <2>2, <1>1 DEF U
<1> HIDE DEF S, T, f
<1> QED BY <1>2, <1>3, FS_Injection DEF Count, S

\* What a call returns is true of its last attempt, and if that is its first one
\* there is no other.
LEMMA ToldTruly == ASSUME "redirected" \notin Urls PROVE ClientInv => Told
<1> SUFFICES ASSUME ClientInv, NEW c \in Calls
             PROVE  /\ Conclusion(call[c]) = "once" => Count(c) = 1
                    /\ Conclusion(call[c]) = "again" => Count(c) >= 1
                    /\ Conclusion(call[c]) \in {"read", "refused"} => Count(c) = 0
  BY DEF Told
<1>1. IsFiniteSet(CommitsOf(c)) /\ Count(c) \in Nat /\ (Count(c) = 0 <=> CommitsOf(c) = {})
  BY CountType, FS_EmptySet DEF Count
<1>2. /\ call[c].stage = "done" => call[c].url # "redirected"
      /\ call[c].attempt \in Nat
      /\ \A m \in CommitsOf(c) : /\ m \in commits /\ m.n \in Nat /\ m.call = c
                                 /\ HasSent(c) /\ m.n <= call[c].attempt
                                 /\ Writes(call[c].op)
  <2>1. call[c].stage = "done" => call[c].url # "redirected"
    BY ClientConfig DEF ClientInv, CallsRun
  <2>2. call[c].attempt \in Nat
    BY DEF ClientInv, TypeOK, CallType
  <2>3. \A m \in commits : m.n \in Nat
    BY DEF ClientInv, TypeOK
  <2> QED BY <2>1, <2>2, <2>3 DEF ClientInv, CommitsSent, CommitsOf
<1>3. ASSUME call[c].stage = "done", call[c].result \in {"ok", "undecodable"}, Writes(call[c].op)
      PROVE  \E m \in CommitsOf(c) : m.n = call[c].attempt
  BY <1>2, <1>3 DEF ClientInv, ResultsSettle, Settled, Carried, CommitsOf
<1>4. CASE Conclusion(call[c]) = "once"
  <2>1. /\ call[c].stage = "done" /\ call[c].result \in {"ok", "undecodable"}
        /\ Writes(call[c].op) /\ call[c].attempt = 0
    BY <1>4 DEF Conclusion
  <2>2. PICK m \in CommitsOf(c) : m.n = 0
    BY <1>3, <2>1
  <2>3. \A n \in CommitsOf(c) : n = m
    BY <1>2, <2>1, <2>2 DEF ClientInv, OneFate
  <2>4. CommitsOf(c) = {m}
    BY <2>2, <2>3
  <2>5. Count(c) = 1
    BY <2>4, FS_Singleton DEF Count
  <2> QED BY <1>4, <2>5
<1>5. CASE Conclusion(call[c]) = "again"
  <2>1. CommitsOf(c) # {}
    BY <1>3, <1>5 DEF Conclusion
  <2> QED BY <1>1, <1>5, <2>1
<1>6. CASE Conclusion(call[c]) = "read"
  <2>1. CommitsOf(c) = {}
    BY <1>2, <1>6 DEF Conclusion
  <2> QED BY <1>1, <1>6, <2>1
<1>7. CASE Conclusion(call[c]) = "refused"
  <2>1. call[c].attempt = 0 /\ call[c].result \in Refusals \cup {"unsent"}
    BY <1>7 DEF Conclusion
  <2>2. CommitsOf(c) = {}
    <3>1. CASE call[c].result = "unsent"
      BY <1>2, <3>1 DEF HasSent
    <3>2. CASE call[c].result \in Refusals
      <4>1. ~Carried(c, 0)
        BY <2>1, <3>2 DEF ClientInv, ResultsSettle, Settled
      <4> QED BY <1>2, <2>1, <4>1 DEF Carried
    <3> QED BY <2>1, <3>1, <3>2
  <2> QED BY <1>1, <1>7, <2>2
<1> QED BY <1>4, <1>5, <1>6, <1>7

\* A call that goes on or returns concludes something, or nothing yet.
LEMMA ConcludeKeepsPromise ==
  ASSUME ClientInv, ClientInv', Told', NEW c \in Calls, call[c].stage # "done",
         \A d \in Calls \ {c} : call'[d] = call[d], commits' = commits
  PROVE  [Promise!Next]_(Promise!vars)
<1> DEFINE committed == [d \in Calls |-> Cardinality(CommitsOf(d))]
           outcome   == [d \in Calls |-> Conclusion(call[d])]
           o         == Conclusion(call'[c])
<1>1. committed' = committed
  BY DEF CommitsOf
<1>2. outcome' = [outcome EXCEPT ![c] = o]
  OBVIOUS
<1>3. outcome[c] = "open"
  BY DEF Conclusion
<1>4. /\ o = "once" => committed[c] = 1
      /\ o = "again" => committed[c] >= 1
      /\ o \in {"read", "refused"} => committed[c] = 0
  BY <1>1 DEF Told, Count, CommitsOf
<1>5. o \in {"open", "once", "again", "read", "refused", "unknown"}
  BY DEF Conclusion
<1>6. o = "open" => outcome' = outcome
  BY <1>2, <1>3
<1> HIDE DEF o
<1> QED BY <1>1, <1>2, <1>3, <1>4, <1>5, <1>6
        DEF Promise!Next, Promise!Conclude, Promise!vars

\* A step that takes no call further and carries out nothing is no step of the
\* promise.
LEMMA IdleKeepsPromise ==
  ASSUME commits' = commits,
         \A c \in Calls : Conclusion(call'[c]) = Conclusion(call[c])
  PROVE  UNCHANGED Promise!vars
  BY DEF Promise!vars, CommitsOf

\* Requests are carried out for calls that are open, or that have been carried
\* out already, or whose caller knows nothing; and within the budget.
LEMMA CommitKeepsPromise ==
  ASSUME ClientInv, NEW r \in wire, Writes(r.op), Commits(r), call' = call
  PROVE  Promise!Next
<1> DEFINE c         == r.call
           new       == [call |-> c, n |-> r.n, seq |-> Cardinality(commits)]
           committed == [d \in Calls |-> Cardinality(CommitsOf(d))]
           outcome   == [d \in Calls |-> Conclusion(call[d])]
<1>1. c \in Calls /\ HasSent(c) /\ r.n <= call[c].attempt /\ r.op = call[c].op
  BY DEF ClientInv, TypeOK, Request, RequestsSent, Writes
<1>2. r.n \in Nat /\ call[c].attempt \in Nat
  BY <1>1 DEF ClientInv, TypeOK, Request, CallType
<1>3. Conclusion(call[c]) \in {"open", "again", "unknown"}
  <2>1. call[c].result \in Refusals \cup {"ok", "undecodable"} => call[c].attempt # 0
    <3> SUFFICES ASSUME call[c].result \in Refusals \cup {"ok", "undecodable"},
                        call[c].attempt = 0
                 PROVE  FALSE
      OBVIOUS
    <3>1. Settled(c, call[c].result)
      BY <1>1 DEF ClientInv, ResultsSettle
    <3>2. r.n = call[c].attempt
      BY <1>1, <1>2
    <3> QED BY <3>1, <3>2 DEF Settled, OnWire
  <2> QED BY <1>1, <2>1 DEF Conclusion, HasSent
<1>4. Count(c) \in Nat /\ IsFiniteSet(CommitsOf(c)) /\ Count(c) < MaxRetries + 1
  BY CountType, BudgetLeft, ClientConfig
<1>5. \A d \in Calls : CommitsOf(d)' = IF d = c THEN CommitsOf(d) \cup {new} ELSE CommitsOf(d)
  BY DEF Commits, CommitsOf
<1>6. new \notin CommitsOf(c)
  BY DEF ClientInv, OneFate, Carried, CommitsOf
<1> HIDE DEF new, c
<1>7. Cardinality(CommitsOf(c)') = Count(c) + 1
  BY <1>1, <1>4, <1>5, <1>6, FS_AddElement DEF Count
<1>8. committed' = [committed EXCEPT ![c] = @ + 1]
  BY <1>1, <1>5, <1>7 DEF Count
<1>9. outcome' = outcome
  OBVIOUS
<1>10. Promise!Commit(c)
  BY <1>1, <1>3, <1>4, <1>8, <1>9 DEF Promise!Commit, Count
<1> QED BY <1>1, <1>10 DEF Promise!Next

\* What happens to the calls themselves.
LEMMA CallKeepsPromise ==
  ASSUME ClientInv, ClientInv', Told', NEW c \in Calls,
         \/ Loop(c) \/ Cancel(c)
         \/ \E op \in Ops, url \in Urls : Begin(c, op, url) \/ BeginFails(c, op, url)
  PROVE  [Promise!Next]_(Promise!vars)
<1>1. commits' = commits /\ call[c].stage # "done"
  BY DEF Loop, TransportFails, ReadReply, BackoffEnds, BackoffAborts, Cancel, Begin, BeginFails
<1>2. \E r : Goes(c, r)
  BY DEF Loop, TransportFails, ReadReply, BackoffEnds, BackoffAborts, Cancel, Begin, BeginFails,
         RetryOrReturn, Send
<1>3. \A d \in Calls \ {c} : call'[d] = call[d]
  BY <1>2 DEF Goes, ClientInv, TypeOK
<1> QED BY <1>1, <1>3, ConcludeKeepsPromise

\* The client implements its promise, provided that WIKI_BASE_URL leads to
\* BookStack without a redirect (services/wiki-cli/README.md, client.go).
THEOREM ClientRefinement ==
  ASSUME "redirected" \notin Urls
  PROVE  Spec => KeepsPromise
<1>1. Init => Promise!Init
  <2> SUFFICES ASSUME Init PROVE Promise!Init
    OBVIOUS
  <2>1. \A c \in Calls : CommitsOf(c) = {} /\ Conclusion(call[c]) = "open"
    BY DEF Init, CommitsOf, Conclusion, Idle
  <2> QED BY <2>1, FS_EmptySet DEF Promise!Init
<1>2. ClientInv /\ ClientInv' /\ Told' /\ [Next]_vars => [Promise!Next]_(Promise!vars)
  <2> SUFFICES ASSUME ClientInv, ClientInv', Told', [Next]_vars
               PROVE  [Promise!Next]_(Promise!vars)
    OBVIOUS
  <2>1. ASSUME NEW c \in Calls,
               \/ Loop(c) \/ Cancel(c)
               \/ \E op \in Ops, url \in Urls : Begin(c, op, url) \/ BeginFails(c, op, url)
        PROVE  [Promise!Next]_(Promise!vars)
    BY <2>1, CallKeepsPromise
  <2>2. ASSUME NEW r \in wire, BookStackAccepts(r) PROVE [Promise!Next]_(Promise!vars)
    <3>1. CASE Writes(r.op)
      BY <2>2, <3>1, CommitKeepsPromise DEF BookStackAccepts
    <3>2. CASE ~Writes(r.op)
      BY <2>2, <3>2, IdleKeepsPromise DEF BookStackAccepts
    <3> QED BY <3>1, <3>2
  <2>3. ASSUME NEW r \in wire, BookStackRefuses(r) \/ GatewayGivesUp(r) \/ FollowRedirect(r)
        PROVE  UNCHANGED Promise!vars
    BY <2>3, IdleKeepsPromise DEF BookStackRefuses, GatewayGivesUp, FollowRedirect
  <2>4. CASE Tick
    BY <2>4, TickOnlyTimes, IdleKeepsPromise DEF Conclusion
  <2>5. CASE UNCHANGED vars
    BY <2>5, IdleKeepsPromise DEF vars
  <2> QED BY <2>1, <2>2, <2>3, <2>4, <2>5 DEF Next, Outside
<1> QED BY <1>1, <1>2, ToldTruly, ClientInvariance, PTL DEF Spec, KeepsPromise, Promise!Spec
=============================================================================
