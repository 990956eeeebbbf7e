----------------------------- MODULE WikiClient -----------------------------
(***************************************************************************)
(* The wiki client (services/wiki-client): calls on one shared Client, each *)
(* run through the retry loop doRaw (client.go), against a BookStack behind *)
(* a gateway.                                                              *)
(*                                                                         *)
(* A call is a get, a create (POST: books, chapters, pages and the uploads) *)
(* or an update (PUT).  Requests outlive the attempt that sent them: the    *)
(* client may have given up on a request that BookStack has yet to carry    *)
(* out.  The loop is split where it waits: for a response and for the end   *)
(* of a backoff.                                                           *)
(*                                                                         *)
(* Time passes in ticks.  A call that waits holds the time left until its   *)
(* timer fires, and how much time it has spent; Tick waits for timers that  *)
(* have run out.                                                           *)
(***************************************************************************)
EXTENDS Integers, FiniteSets

CONSTANTS
  Calls,         \* the calls made of the client
  Ops,           \* what they may ask for
  Urls,          \* what WIKI_BASE_URL may lead to, see Send
  MaxRetries,    \* cfg.MaxRetries: the retry budget
  HttpTimeout,   \* cfg.HTTPTimeout, per attempt; 0 is no timeout
  BaseDelay,     \* cfg.RetryBaseDelay
  MaxDelay,      \* the cap in backoff
  WordBits,      \* width of a time.Duration
  Refusals       \* the kinds of 4xx that are told apart

ASSUME ClientConfig ==
  /\ Ops \subseteq {"get", "create", "update"}
  /\ Urls \subseteq {"direct", "redirected", "hostless"}
  /\ MaxRetries \in Nat /\ HttpTimeout \in Nat
  /\ BaseDelay \in Int             \* nothing checks it: Delay has to cope
  /\ {MaxDelay, WordBits} \subseteq Nat \ {0}
  /\ Refusals \subseteq {"unauthorized", "denied", "rejected"}

VARIABLES
  call,      \* each call: what it asks for, how far it is, what it returned
  wire,      \* requests on their way, not yet decided by BookStack
  replies,   \* responses to attempts that still wait for one
  commits    \* the writes BookStack has carried out, numbered as they came

vars == <<call, wire, replies, commits>>

NoTimer == -1

Idle == [stage |-> "idle", op |-> "none", url |-> "none", attempt |-> 0,
         left |-> NoTimer, spent |-> 0, after |-> {},
         cancelled |-> FALSE, result |-> "none", entity |-> "none"]

Init ==
  /\ call = [c \in Calls |-> Idle]
  /\ wire = {} /\ replies = {} /\ commits = {}

-----------------------------------------------------------------------------
(* The retry loop                                                          *)

Overdue(c) == call[c].left = 0

\* baseDelay << (attempt - 1) in a signed word, capped.
Shifted(attempt) ==
  LET w == (BaseDelay * 2 ^ (attempt - 1)) % 2 ^ WordBits
  IN  IF w < 2 ^ (WordBits - 1) THEN w ELSE w - 2 ^ WordBits

\* Bug: no cap, only the guard against the overflow of the shift.
DelayUncapped(attempt) ==
  IF Shifted(attempt) <= 0 THEN MaxDelay ELSE Shifted(attempt)

Delay(attempt) ==
  IF Shifted(attempt) > MaxDelay \/ Shifted(attempt) <= 0 THEN MaxDelay
                                                         ELSE Shifted(attempt)

\* jitter: anything from half of it to all of it.
Jitter(d) == (d \div 2)..d

Return(r, result, entity) ==
  [r EXCEPT !.stage = "done", !.result = result, !.entity = entity,
            !.left = NoTimer, !.spent = 0, !.cancelled = FALSE]

Goes(c, r) == call' = [call EXCEPT ![c] = r]

\* http.Client sends the request.  Nothing goes out if its context is done or its
\* URL has no host; Do is then about to return the error, see TransportFails.  With
\* a base URL that is redirected, the request first gets to a listener that only
\* answers 301 (terraform/edge.tf).
Send(c, r) ==
  /\ Goes(c, [r EXCEPT !.stage = "waiting",
                       !.left = IF HttpTimeout = 0 THEN NoTimer ELSE HttpTimeout])
  /\ wire' = wire \cup {q \in {[call |-> c, n |-> r.attempt, op |-> r.op, hop |-> r.url]} :
                            ~r.cancelled /\ q.hop # "hostless"}

\* A method of the client is called; the first attempt goes out at once.
Begin(c, op, url) ==
  /\ call[c].stage = "idle"
  /\ Send(c, [Idle EXCEPT !.op = op, !.url = url,
                          !.after = {d \in Calls : call[d].stage = "done"}])
  /\ UNCHANGED <<replies, commits>>

\* The request cannot be built: unreadable upload, malformed base URL.
BeginFails(c, op, url) ==
  /\ call[c].stage = "idle"
  /\ Goes(c, Return([Idle EXCEPT !.op = op, !.url = url], "unsent", "none"))
  /\ UNCHANGED <<wire, replies, commits>>

\* Bug: the last error is shadowed, and giving up returns nil.
RetryOrReturnShadowed(c, error) ==
  IF call[c].attempt < MaxRetries
  THEN \E d \in Jitter(Delay(call[c].attempt + 1)) :
         Goes(c, [call[c] EXCEPT !.stage = "backoff", !.left = d])
  ELSE Goes(c, Return(call[c], "ok", "zero"))

\* The attempt failed in a way that is retried: back off, or give up.
RetryOrReturn(c, error) ==
  IF call[c].attempt < MaxRetries
  THEN \E d \in Jitter(Delay(call[c].attempt + 1)) :
         Goes(c, [call[c] EXCEPT !.stage = "backoff", !.left = d])
  ELSE Goes(c, Return(call[c], error, "none"))

\* httpc.Do returns an error.  What became of the request is not known.
TransportFails(c) ==
  /\ call[c].stage = "waiting"
  /\ RetryOrReturn(c, IF call[c].cancelled THEN "cancelled"
                      ELSE IF Overdue(c) THEN "timeout" ELSE "refused")
  /\ replies' = {r \in replies : r.call # c}
  /\ UNCHANGED <<wire, commits>>

\* Bug: a 5xx counts as an answer.
ReadReplyLax(c) ==
  /\ call[c].stage = "waiting"
  /\ \E r \in replies :
       /\ r.call = c
       /\ IF r.status \in {"ok", "server"}
          THEN Goes(c, Return(call[c], "ok", r.entity))
          ELSE Goes(c, Return(call[c], r.status, "none"))
       /\ replies' = replies \ {r}
  /\ UNCHANGED <<wire, commits>>

\* httpc.Do returned a response; its body is read as far as it comes, the
\* error that cuts it short is ignored.  5xx is retried; 4xx is final; of a 2xx
\* the body is decoded unless it is empty.
ReadReply(c) ==
  /\ call[c].stage = "waiting"
  /\ \E r \in replies :
       /\ r.call = c
       /\ \/ r.status = "server" /\ RetryOrReturn(c, "server")
          \/ r.status \in Refusals
             /\ Goes(c, Return(call[c], r.status, "none"))
          \/ r.status = "ok"
             /\ \/ Goes(c, Return(call[c], "ok", r.entity))
                \/ Goes(c, Return(call[c], "undecodable", "none"))  \* cut short
                \/ Goes(c, Return(call[c], "ok", "zero"))   \* before the first byte
       /\ replies' = replies \ {r}
  /\ UNCHANGED <<wire, commits>>

\* The timer of backoff fires: the next attempt.  With the context done as well,
\* the select takes either.
BackoffEnds(c) ==
  /\ call[c].stage = "backoff" /\ Overdue(c)
  /\ Send(c, [call[c] EXCEPT !.attempt = @ + 1])
  /\ UNCHANGED <<replies, commits>>

\* Bug: the loop is left as if the budget were spent, with the last error.
BackoffAbortsWithLast(c) ==
  /\ call[c].stage = "backoff" /\ call[c].cancelled
  /\ Goes(c, Return(call[c], "server", "none"))
  /\ UNCHANGED <<wire, replies, commits>>

\* The context is done, before or while backing off.
BackoffAborts(c) ==
  /\ call[c].stage = "backoff" /\ call[c].cancelled
  /\ Goes(c, Return(call[c], "cancelled", "none"))
  /\ UNCHANGED <<wire, replies, commits>>

\* The caller cancels the context of its call, or the context expires.
Cancel(c) ==
  /\ call[c].stage \in {"waiting", "backoff"} /\ ~call[c].cancelled
  /\ Goes(c, [call[c] EXCEPT !.cancelled = TRUE])
  /\ UNCHANGED <<wire, replies, commits>>

Loop(c) == \/ TransportFails(c) \/ ReadReply(c) \/ BackoffEnds(c) \/ BackoffAborts(c)

-----------------------------------------------------------------------------
(* BookStack and what stands before it: no request is carried out twice,   *)
(* but it may be carried out late, or never, and its response be lost      *)

Awaited(r) == call[r.call].stage = "waiting" /\ call[r.call].attempt = r.n

\* A response gets through as long as the attempt waits for one.
Responds(r, status, entity) ==
  replies' = IF Awaited(r) /\ \A s \in replies : s.call # r.call
             THEN replies \cup {[call |-> r.call, status |-> status, entity |-> entity]}
             ELSE replies

Commits(r) ==
  commits' = commits \cup {[call |-> r.call, n |-> r.n, seq |-> Cardinality(commits)]}

Writes(op) == op \in {"create", "update"}

BookStackAccepts(r) ==
  /\ r \in wire /\ r.hop = "direct"
  /\ IF Writes(r.op) THEN Commits(r) ELSE UNCHANGED commits
  /\ \/ Responds(r, "ok", IF r.op = call[r.call].op THEN "stored" ELSE "other")
     \/ Responds(r, "server", "none")
     \/ UNCHANGED replies
  /\ wire' = wire \ {r}
  /\ UNCHANGED call

\* 401, 403 or 404, any other 4xx, a 5xx or no response; nothing is written.
BookStackRefuses(r) ==
  /\ r \in wire /\ r.hop = "direct"
  /\ \/ \E status \in Refusals \cup {"server"} :
          Responds(r, status, "none")
     \/ UNCHANGED replies
  /\ wire' = wire \ {r}
  /\ UNCHANGED <<call, commits>>

\* The gateway answers 502 or 504 for a request that BookStack still has.
GatewayGivesUp(r) ==
  /\ r \in wire /\ Awaited(r)
  /\ Responds(r, "server", "none")
  /\ UNCHANGED <<call, wire, commits>>

\* 301 from the listener on port 80: http.Client follows it, and as net/http
\* does for a 301 it asks the new address with a GET, whatever was asked before.
FollowRedirect(r) ==
  /\ r \in wire /\ r.hop = "redirected" /\ Awaited(r)
  /\ wire' = (wire \ {r}) \cup {[r EXCEPT !.hop = "direct", !.op = "get"]}
  /\ UNCHANGED <<call, replies, commits>>

Running(c) == call[c].stage \in {"waiting", "backoff"}

Tick ==
  /\ \A c \in Calls : Running(c) => ~Overdue(c) /\ ~call[c].cancelled
  /\ call' = [c \in Calls |->
                IF Running(c)
                THEN [call[c] EXCEPT !.spent = @ + 1,
                                     !.left = IF @ = NoTimer THEN @ ELSE @ - 1]
                ELSE call[c]]
  /\ UNCHANGED <<wire, replies, commits>>

Outside ==
  \/ \E r \in wire : \/ BookStackAccepts(r) \/ BookStackRefuses(r)
                     \/ GatewayGivesUp(r) \/ FollowRedirect(r)
  \/ Tick

Next ==
  \/ \E c \in Calls, op \in Ops, url \in Urls : Begin(c, op, url) \/ BeginFails(c, op, url)
  \/ \E c \in Calls : Loop(c) \/ Cancel(c)
  \/ Outside

Spec == Init /\ [][Next]_vars

\* Time passes and the Go runtime fires the timers; nobody else is owed a step.
Fairness ==
  /\ WF_vars(Tick)
  /\ \A c \in Calls : /\ WF_vars((Overdue(c) \/ call[c].cancelled) /\ TransportFails(c))
                      /\ WF_vars(BackoffEnds(c)) /\ WF_vars(BackoffAborts(c))

-----------------------------------------------------------------------------
(* Properties                                                              *)

Results == Refusals \cup {"none", "unsent", "ok", "undecodable", "server",
                          "timeout", "refused", "cancelled"}
Request == [call: Calls, n: 0..MaxRetries, op: Ops \cup {"get"},
            hop: {"direct", "redirected"}]

CallType ==
  [stage: {"idle", "waiting", "backoff", "done"}, op: Ops \cup {"none"},
   url: Urls \cup {"none"}, attempt: 0..MaxRetries,
   left: Nat \cup {NoTimer}, spent: Nat, after: SUBSET Calls,
   cancelled: BOOLEAN, result: Results,
   entity: {"none", "zero", "stored", "other"}]

\* Every variable holds what the code can put in it; a call that backs off has
\* budget left.
TypeOK ==
  /\ call \in [Calls -> CallType]
  /\ wire \subseteq Request
  /\ replies \subseteq [call: Calls, status: Refusals \cup {"ok", "server"},
                        entity: {"none", "stored", "other"}]
  /\ commits \subseteq [call: Calls, n: 0..MaxRetries, seq: Nat]
  /\ \A c \in Calls : call[c].stage = "backoff" => call[c].attempt < MaxRetries

CommitsOf(c) == {m \in commits : m.call = c}

\* A write that the client reports as done, or as answered 2xx but garbled, is
\* in the wiki: "The returned Page carries the server-assigned id/slug"
\* (pages.go:26), and the command line makes it exit code 0.
SuccessIsCommitted ==
  \A c \in Calls : /\ call[c].result \in {"ok", "undecodable"}
                   /\ Writes(call[c].op)
                   => CommitsOf(c) # {}

\* An update made after another one had returned at the first attempt is not
\* overwritten by it: only retries and lost responses can let an old edit land
\* on a new one ("PUT -- idempotent at the protocol level", pages.go:34).
EditsKeepOrder ==
  \A x, y \in Calls :
    /\ x \in call[y].after
    /\ call[x].op = "update" /\ call[y].op = "update"
    /\ call[x].result = "ok" /\ call[x].attempt = 0
    => \A m \in CommitsOf(x), n \in CommitsOf(y) : m.seq < n.seq

\* A call that nobody cancels lasts no longer than its budget allows, however
\* the backoffs grow: (MaxRetries + 1) attempts and MaxRetries capped waits.
CallTimeBounded ==
  HttpTimeout > 0 => \A c \in Calls :
    call[c].spent <= (MaxRetries + 1) * HttpTimeout + MaxRetries * MaxDelay

\* A call whose context is done while it backs off returns the context's error,
\* whichever case the select takes and however often (client.go:92-94 and
\* 221-226): the caller can tell that from the failure that made it back off.
CancelledIsTold ==
  \A c \in Calls :
    [](call[c].stage = "backoff" /\ call[c].cancelled
         => [](call[c].stage = "done" => call[c].result = "cancelled"))

\* What the caller may conclude from what the client returned.
Conclusion(r) ==
  IF r.stage # "done" THEN "open"
  ELSE IF r.result \in {"ok", "undecodable"}
       THEN IF ~Writes(r.op) THEN "read" ELSE IF r.attempt = 0 THEN "once" ELSE "again"
  ELSE IF r.attempt = 0 /\ r.result \in Refusals \cup {"unsent"} THEN "refused"
  ELSE "unknown"

Promise == INSTANCE AtLeastOnce
             WITH Budget    <- MaxRetries + 1,
                  committed <- [c \in Calls |-> Cardinality(CommitsOf(c))],
                  outcome   <- [c \in Calls |-> Conclusion(call[c])]

\* The retry loop implements at-least-once writes.
KeepsPromise == Promise!Spec
=============================================================================
