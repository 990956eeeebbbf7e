------------------------------- MODULE Contact -------------------------------
(***************************************************************************)
(* The contact service: POST /contact/submit (server.go, handleSubmit)     *)
(* run by concurrent handler goroutines, the three rate limiters they      *)
(* share, the mail relay and the GitHub API they call, and the life of the *)
(* process (main.go): graceful shutdown, crash and restart.                *)
(*                                                                         *)
(* A handler is split where another handler, the relay, GitHub or the      *)
(* clock can come in between: waiting for the body, the two waits for a    *)
(* remote answer, and between two uses of a shared limiter.  Everything    *)
(* that happens between two such points is one action.  A limiter is       *)
(* charged in one step here; RateLimiter takes that step apart.            *)
(*                                                                         *)
(* Time advances in ticks up to Horizon, where the clock stops and stands  *)
(* for any later time.  Handlers compute in no time: Tick waits for them.  *)
(***************************************************************************)
EXTENDS Integers, FiniteSets

CONSTANTS
  Posts,            \* the POST requests that may arrive
  Ips,              \* what clientIP makes of them
  Offers,           \* the sets of flaws a POST may come with
  IpLimit, GlobalLimit, GithubCap,      \* the three limits of config.go
  Hour, Day,                            \* their windows
  MaxKeys, EvictShare,                  \* the hard cap of each limiter
  Configs,          \* [mail, github]: what the environment may configure
  ReadTimeout, WriteTimeout,            \* http.Server, main.go
  SendTimeout, GithubTimeout,           \* the contexts of handleSubmit
  ShutdownGrace,                        \* the context of Shutdown, main.go
  Horizon,          \* bound: the clock stops here
  MaxBoots          \* bound: number of times the process is started

Flaws == {"too_large", "unreadable", "cross_site", "csrf", "honeypot", "invalid"}

ASSUME ContactConfig ==
  /\ Offers \subseteq SUBSET Flaws
  /\ {IpLimit, GlobalLimit, GithubCap, Hour, Day, EvictShare} \subseteq Nat \ {0}
  /\ MaxKeys \in Nat /\ MaxKeys >= EvictShare
  /\ Configs \subseteq [mail: BOOLEAN, github: BOOLEAN]
  /\ {ReadTimeout, WriteTimeout, SendTimeout, GithubTimeout, ShutdownGrace,
      Horizon, MaxBoots} \subseteq Nat \ {0}

IpLimiter     == INSTANCE SlidingWindow WITH Limit <- IpLimit, Win <- Hour
GlobalLimiter == INSTANCE SlidingWindow WITH Limit <- GlobalLimit, Win <- Hour
GithubLimiter == INSTANCE SlidingWindow WITH Limit <- GithubCap, Win <- Day

VARIABLES
  clock,
  proc,       \* the process: "up", "draining" after SIGTERM, or "down"
  boot,       \* how many times it has been started
  config,     \* mailConfigured and githubConfigured, as loaded at the start
  stopBy,     \* when the grace period of the shutdown ends
  limiter, globalLimiter, ghLimiter,    \* the fields of server
  post,       \* each POST: its request, its handler and what became of it
  mailWire,   \* mails given to the relay, which has yet to take or drop them
  mailbox,    \* mails the relay accepted
  issueWire,  \* the same for GitHub
  issues

limiters == <<limiter, globalLimiter, ghLimiter>>
process  == <<proc, boot, config, stopBy>>
outside  == <<mailWire, mailbox, issueWire, issues>>
vars     == <<clock, process, limiters, post, outside>>

Never == -1      \* the time of what has not happened

Unsent == [stage |-> "unsent", ip |-> "none", flaws |-> {}, due |-> Never,
           answer |-> "none", github |-> "disabled", boot |-> 0,
           began |-> Never, parsed |-> Never, handed |-> Never,
           filed |-> Never, ended |-> Never]

FreshLimiters ==
  /\ limiter' = IpLimiter!NewLimiter
  /\ globalLimiter' = GlobalLimiter!NewLimiter
  /\ ghLimiter' = GithubLimiter!NewLimiter

Init ==
  /\ clock = 0
  /\ proc = "up" /\ boot = 1 /\ config \in Configs /\ stopBy = Never
  /\ limiter = IpLimiter!NewLimiter
  /\ globalLimiter = GlobalLimiter!NewLimiter
  /\ ghLimiter = GithubLimiter!NewLimiter
  /\ post = [p \in Posts |-> Unsent]
  /\ mailWire = {} /\ mailbox = {} /\ issueWire = {} /\ issues = {}

-----------------------------------------------------------------------------
(* The handler                                                             *)

Alive == proc \in {"up", "draining"}
At(p, stage) == Alive /\ post[p].stage = stage

InFlight == {p \in Posts : post[p].stage \notin {"unsent", "done", "killed"}}

\* A deadline `delay' from now; the end of time is every later deadline.
Until(delay) == IF clock + delay < Horizon THEN clock + delay ELSE Horizon
Overdue(p) == clock >= post[p].due

\* The handler moves on, or it answers and is done.
Step(p, r) == post' = [post EXCEPT ![p] = r]

Answered(r, a) == [r EXCEPT !.stage = "done", !.answer = a, !.ended = clock]

\* The server has read the header of a POST and starts its handler.
Arrive(p) ==
  /\ proc = "up" /\ post[p].stage = "unsent"
  /\ \E ip \in Ips, flaws \in Offers :
       Step(p, [Unsent EXCEPT !.stage = "reading", !.ip = ip, !.flaws = flaws,
                              !.due = Until(ReadTimeout), !.began = clock,
                              !.boot = boot])
  /\ UNCHANGED <<clock, process, limiters, outside>>

\* MaxBytesReader or ParseForm fails: too large, malformed, or too slow.
BodyFails(p) ==
  /\ At(p, "reading")
  /\ \/ "too_large" \in post[p].flaws /\ Step(p, Answered(post[p], "too_large"))
     \/ /\ "too_large" \notin post[p].flaws
        /\ "unreadable" \in post[p].flaws \/ Overdue(p)
        /\ Step(p, Answered(post[p], "unreadable"))
  /\ UNCHANGED <<clock, process, limiters, outside>>

\* Bug: the port is left in RemoteAddr, so each connection is its own address.
ParseFormPerConnection(p) ==
  /\ At(p, "reading")
  /\ post[p].flaws \cap {"too_large", "unreadable"} = {}
  /\ \E o \in IpLimiter!Allow(limiter, p, clock, IpLimiter!NextNumber(limiter)) :
       LET r == [post[p] EXCEPT !.parsed = clock]
       IN  /\ limiter' = o.rl
           /\ Step(p, IF o.ok THEN [r EXCEPT !.stage = "admitted"]
                              ELSE Answered(r, "rate_limited_ip"))
  /\ UNCHANGED <<clock, process, globalLimiter, ghLimiter, outside>>

\* The form is parsed and the attempt charged to its address.
ParseForm(p) ==
  /\ At(p, "reading")
  /\ post[p].flaws \cap {"too_large", "unreadable"} = {}
  /\ \E o \in IpLimiter!Allow(limiter, post[p].ip, clock, IpLimiter!NextNumber(limiter)) :
       LET r == [post[p] EXCEPT !.parsed = clock]
       IN  /\ limiter' = o.rl
           /\ Step(p, IF o.ok THEN [r EXCEPT !.stage = "admitted"]
                              ELSE Answered(r, "rate_limited_ip"))
  /\ UNCHANGED <<clock, process, globalLimiter, ghLimiter, outside>>

\* The checks between the two limiters, in the order of the code.
Refusal(r) ==
  IF "cross_site" \in r.flaws THEN "origin_mismatch"
  ELSE IF "csrf" \in r.flaws THEN "csrf_fail"
  ELSE IF "honeypot" \in r.flaws THEN "honeypot"
  ELSE IF "invalid" \in r.flaws THEN "invalid"
  ELSE IF ~config.mail THEN "mail_unconfigured"
  ELSE "none"

\* Bug (issue #43): a refused POST has been charged to the circuit-breaker too.
ScreenCharging(p) ==
  /\ At(p, "admitted")
  /\ Refusal(post[p]) # "none"
  /\ \E o \in GlobalLimiter!Allow(globalLimiter, "global", clock,
                                  GlobalLimiter!NextNumber(globalLimiter)) :
       globalLimiter' = o.rl
  /\ Step(p, Answered(post[p], Refusal(post[p])))
  /\ UNCHANGED <<clock, process, limiter, ghLimiter, outside>>

Screen(p) ==
  /\ At(p, "admitted")
  /\ Refusal(post[p]) # "none"
  /\ Step(p, Answered(post[p], Refusal(post[p])))
  /\ UNCHANGED <<clock, process, limiters, outside>>

\* A would-be-send is charged to the circuit-breaker and given to the mailer.
HandToMailer(p) ==
  /\ At(p, "admitted")
  /\ Refusal(post[p]) = "none"
  /\ \E o \in GlobalLimiter!Allow(globalLimiter, "global", clock,
                                  GlobalLimiter!NextNumber(globalLimiter)) :
       /\ globalLimiter' = o.rl
       /\ \/ /\ o.ok
             /\ Step(p, [post[p] EXCEPT !.stage = "sending", !.handed = clock,
                                        !.due = Until(SendTimeout)])
             /\ mailWire' = mailWire \cup {p}
          \/ /\ ~o.ok
             /\ Step(p, Answered(post[p], "rate_limited_global"))
             /\ UNCHANGED mailWire
  /\ UNCHANGED <<clock, process, limiter, ghLimiter, mailbox, issueWire, issues>>

\* Bug: the mail is queued and Send returns without the relay's word.
SendQueued(p) ==
  /\ At(p, "sending")
  /\ Step(p, [post[p] EXCEPT !.stage = "mailed"])
  /\ UNCHANGED <<clock, process, limiters, outside>>

\* Send returns nil: the relay took the mail and said so.
SendSucceeds(p) ==
  /\ At(p, "sending")
  /\ p \in mailbox
  /\ Step(p, [post[p] EXCEPT !.stage = "mailed"])
  /\ UNCHANGED <<clock, process, limiters, outside>>

\* Bug: a failed send is logged and the handler goes on.
SendFailsSoftly(p) ==
  /\ At(p, "sending")
  /\ Step(p, [post[p] EXCEPT !.stage = "mailed"])
  /\ UNCHANGED <<clock, process, limiters, outside>>

\* Send returns an error: anything from the dial to the relay's last word
\* (cl.Quit), or the deadline.  The relay may have the mail all the same, or
\* may yet get it.
SendFails(p) ==
  /\ At(p, "sending")
  /\ Step(p, Answered(post[p], "send_failed"))
  /\ UNCHANGED <<clock, process, limiters, outside>>

\* How long CreateIssue may take.
GithubPatience == GithubTimeout

\* The mail is out.  File an issue if that is set up and the daily cap allows.
FileIssue(p) ==
  /\ At(p, "mailed")
  /\ \/ /\ ~config.github
        /\ Step(p, Answered(post[p], "sent"))
        /\ UNCHANGED <<ghLimiter, issueWire>>
     \/ /\ config.github
        /\ \E o \in GithubLimiter!Allow(ghLimiter, "github", clock,
                                        GithubLimiter!NextNumber(ghLimiter)) :
             /\ ghLimiter' = o.rl
             /\ \/ /\ o.ok
                   /\ Step(p, [post[p] EXCEPT !.stage = "filing", !.filed = clock,
                                              !.due = Until(GithubPatience)])
                   /\ issueWire' = issueWire \cup {p}
                \/ /\ ~o.ok
                   /\ Step(p, Answered([post[p] EXCEPT !.github = "capped"], "sent"))
                   /\ UNCHANGED issueWire
  /\ UNCHANGED <<clock, process, limiter, globalLimiter, mailWire, mailbox, issues>>

\* CreateIssue returns.  Whatever it returns, the submission was sent.
IssueFiled(p) ==
  /\ At(p, "filing")
  /\ p \in issues
  /\ Step(p, Answered([post[p] EXCEPT !.github = "filed"], "sent"))
  /\ UNCHANGED <<clock, process, limiters, outside>>

IssueFails(p) ==
  /\ At(p, "filing")
  /\ Step(p, Answered([post[p] EXCEPT !.github = "failed"], "sent"))
  /\ UNCHANGED <<clock, process, limiters, outside>>

Handler(p) ==
  \/ BodyFails(p) \/ ParseForm(p) \/ Screen(p) \/ HandToMailer(p)
  \/ SendSucceeds(p) \/ SendFails(p)
  \/ FileIssue(p) \/ IssueFiled(p) \/ IssueFails(p)

-----------------------------------------------------------------------------
(* The relay and GitHub: neither waits for the handler that called it      *)

RelayDecides(p) ==
  /\ p \in mailWire
  /\ mailWire' = mailWire \ {p}
  /\ mailbox' \in {mailbox, mailbox \cup {p}}
  /\ UNCHANGED <<clock, process, limiters, post, issueWire, issues>>

GithubDecides(p) ==
  /\ p \in issueWire
  /\ issueWire' = issueWire \ {p}
  /\ issues' \in {issues, issues \cup {p}}
  /\ UNCHANGED <<clock, process, limiters, post, mailWire, mailbox>>

-----------------------------------------------------------------------------
(* The process                                                             *)

\* Shutdown closes the listener and waits for the handlers.
Sigterm ==
  /\ proc = "up"
  /\ proc' = "draining" /\ stopBy' = Until(ShutdownGrace)
  /\ UNCHANGED <<clock, boot, config, limiters, post, outside>>

\* The process ends with whatever handlers it still has.
Exit ==
  /\ proc' = "down" /\ stopBy' = Never
  /\ post' = [p \in Posts |-> IF p \in InFlight
                              THEN [post[p] EXCEPT !.stage = "killed", !.ended = clock]
                              ELSE post[p]]
  /\ UNCHANGED <<clock, boot, config, limiters, outside>>

DrainEnds == proc = "draining" /\ (InFlight = {} \/ clock >= stopBy) /\ Exit

Crash == Alive /\ boot < MaxBoots /\ Exit

\* The container is started again: Load reads the environment afresh, and the
\* limiters, which lived in memory, are empty.
Restart ==
  /\ proc = "down" /\ boot < MaxBoots
  /\ proc' = "up" /\ boot' = boot + 1 /\ config' \in Configs
  /\ FreshLimiters
  /\ UNCHANGED <<clock, stopBy, post, outside>>

\* Time passes once nobody has anything to do at this instant.
Tick ==
  /\ \A p \in InFlight : /\ post[p].stage \in {"reading", "sending", "filing"}
                         /\ ~Overdue(p)
  /\ proc = "draining" => InFlight # {} /\ clock < stopBy
  /\ clock' = IF clock < Horizon THEN clock + 1 ELSE clock
  /\ UNCHANGED <<process, limiters, post, outside>>

Next ==
  \/ \E p \in Posts : Arrive(p) \/ Handler(p) \/ RelayDecides(p) \/ GithubDecides(p)
  \/ Sigterm \/ DrainEnds \/ Crash \/ Restart
  \/ Tick

Spec == Init /\ [][Next]_vars

\* The Go scheduler runs a handler that can run; time passes; timers fire.  A
\* client, the relay or GitHub may stay silent for ever.
Fairness ==
  /\ WF_vars(Tick) /\ WF_vars(DrainEnds)
  /\ \A p \in Posts :
       /\ WF_vars(Overdue(p) /\ BodyFails(p))
       /\ WF_vars(Screen(p)) /\ WF_vars(HandToMailer(p)) /\ WF_vars(FileIssue(p))
       /\ WF_vars(Overdue(p) /\ SendFails(p))
       /\ WF_vars(Overdue(p) /\ IssueFails(p))

FairSpec == Spec /\ Fairness

-----------------------------------------------------------------------------
(* Properties                                                              *)

Stages  == {"unsent", "reading", "admitted", "sending", "mailed", "filing",
            "done", "killed"}
Answers == {"none", "too_large", "unreadable", "rate_limited_ip",
            "origin_mismatch", "csrf_fail", "honeypot", "invalid",
            "mail_unconfigured", "rate_limited_global", "send_failed", "sent"}
Time    == {Never} \cup 0..Horizon

PostType ==
  [stage: Stages, ip: Ips \cup {"none"}, flaws: SUBSET Flaws, due: Time,
   answer: Answers, github: {"disabled", "capped", "failed", "filed"},
   boot: 0..MaxBoots, began: Time, parsed: Time, handed: Time, filed: Time,
   ended: Time]

\* Every variable holds what the code can put in it; a handler runs only in a
\* live process, and it is the handler of a POST of this boot.
TypeOK ==
  /\ clock \in 0..Horizon
  /\ proc \in {"up", "draining", "down"} /\ boot \in 1..MaxBoots /\ stopBy \in Time
  /\ config \in Configs
  /\ post \in [Posts -> PostType]
  /\ mailWire \subseteq Posts /\ mailbox \subseteq Posts
  /\ issueWire \subseteq Posts /\ issues \subseteq Posts
  /\ \A p \in InFlight : Alive /\ post[p].boot = boot

\* What the client is told is true whatever the relay and GitHub do before or
\* after: the thanks page after a real send means that the relay has the mail
\* (server.go:309); a refusal means that no mail ever goes out for this POST;
\* only send_failed leaves it open (the runbook's at-least-once).
AnswersHonest ==
  \A p \in Posts :
    /\ post[p].answer = "sent" => p \in mailbox
    /\ post[p].answer \notin {"none", "sent", "send_failed"} =>
         p \notin mailWire \cup mailbox

\* The tracker holds no issue without its mail, also when handlers die between
\* the two (email is the gating channel, server.go:309 and 323).
IssuesFollowMail == issues \cup issueWire \subseteq mailbox

\* Where a POST is tells where its mail can be.
MailFollowsStage ==
  \A p \in Posts :
    /\ post[p].stage # "done" => post[p].answer = "none"
    /\ post[p].stage \in {"mailed", "filing"} => p \in mailbox
    /\ post[p].stage \in {"unsent", "reading", "admitted"} =>
         p \notin mailWire \cup mailbox

\* The inductive invariant behind AnswersHonest and IssuesFollowMail.
HonestInv == TypeOK /\ AnswersHonest /\ IssuesFollowMail /\ MailFollowsStage

\* The POSTs with the same key in the same boot for which `event' happened in
\* the window that ends when it happened for p.
Together(p, event, window, S) ==
  {q \in S : /\ post[q].boot = post[p].boot
             /\ post[q][event] # Never
             /\ post[q][event] <= post[p][event]
             /\ post[q][event] > post[p][event] - window}

Admitted(ip) == {p \in Posts : /\ post[p].ip = ip /\ post[p].parsed # Never
                               /\ post[p].answer # "rate_limited_ip"}
Handed == {p \in Posts : post[p].handed # Never}
Filed  == {p \in Posts : post[p].filed # Never}

\* However handlers interleave, one boot of the process admits no more POSTs per
\* address and hour than configured (server.go:237) ...
WithinAddressBudget ==
  \A ip \in Ips : \A p \in Admitted(ip) :
    Cardinality(Together(p, "parsed", Hour, Admitted(ip))) <= IpLimit

\* ... hands no more mails to the relay per hour, and files no more issues per day
\* (server.go:291 and 323).
WithinSharedBudgets ==
  /\ \A p \in Handed : Cardinality(Together(p, "handed", Hour, Handed)) <= GlobalLimit
  /\ \A p \in Filed : Cardinality(Together(p, "filed", Day, Filed)) <= GithubCap

WithinBudgets == WithinAddressBudget /\ WithinSharedBudgets

\* Junk cannot trip the circuit-breaker (server.go:291-295): a submission that
\* is refused by it shares its hour with GlobalLimit mails given to the relay.
BreakerJustified ==
  \A p \in Posts : post[p].answer = "rate_limited_global" =>
    Cardinality({q \in Handed : /\ post[q].boot = post[p].boot
                                /\ post[q].handed <= post[p].ended
                                /\ post[q].handed > post[p].ended - Hour})
      >= GlobalLimit

\* A handler that got its body early enough answers before the connection's
\* write deadline, even if the relay and GitHub are both as slow as they may
\* be; ReadTimeout alone does not ensure that (main.go:53-54, 30+25+10 > 60).
AnswerFitsWriteTimeout ==
  \A p \in Posts :
    /\ post[p].stage = "done" /\ post[p].parsed # Never
    /\ post[p].parsed - post[p].began <= WriteTimeout - SendTimeout - GithubTimeout
    => post[p].ended - post[p].began <= WriteTimeout

\* Every POST that reached a handler is answered, or dies with the process: no
\* silent client, relay or GitHub holds a handler for ever.
EveryPostAnswered ==
  \A p \in Posts : post[p].stage = "reading" ~> post[p].stage \in {"done", "killed"}

\* "Graceful shutdown: stop accepting, finish in-flight, then exit."
\* (main.go:58)  A submission whose mail was handed to the mailer is answered
\* before the process exits; a client that has yet to send its form is not meant.
DrainFinishesInFlight ==
  [][proc = "draining" /\ proc' = "down" =>
       \A p \in InFlight : post[p].handed = Never]_vars
=============================================================================
