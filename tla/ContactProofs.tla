----------------------------- MODULE ContactProofs -----------------------------
(***************************************************************************)
(* Proofs about Contact, for every number of POSTs, every limit, every     *)
(* time limit and every configuration.                                     *)
(*                                                                         *)
(* The argument.  A mail leaves the handler in one step only, from the     *)
(* stage "admitted", and the handler passes the stage "sending" only when  *)
(* the relay has the mail.  So the stage of a POST bounds where its mail   *)
(* can be (MailFollowsStage), and an answer is given from a stage in which *)
(* it is true.  What is remote only moves forward: from the wire to the    *)
(* mailbox, or to nowhere.                                                 *)
(***************************************************************************)
EXTENDS Contact, FiniteSetTheorems, TLAPS

\* A handler's step changes its own POST and leaves it a POST.
LEMMA StepType ==
  ASSUME TypeOK, NEW p \in Posts, NEW r \in PostType, Step(p, r)
  PROVE  /\ post' \in [Posts -> PostType]
         /\ post'[p] = r
         /\ \A q \in Posts \ {p} : post'[q] = post[q]
  BY DEF TypeOK, Step

\* Deadlines are times.
LEMMA UntilIsTime ==
  ASSUME TypeOK, NEW d \in Nat
  PROVE  Until(d) \in Time /\ clock \in Time
  BY ContactConfig DEF TypeOK, Until, Time

\* The process keeps the boot of a handler while the handler runs.
BootKept(p, r) == r.stage \notin {"unsent", "done", "killed"} => r.boot = boot

\* The type invariant is kept by a step of a handler.
LEMMA HandlerType ==
  ASSUME TypeOK, Alive, NEW p \in Posts, NEW r \in PostType, Step(p, r), BootKept(p, r),
         UNCHANGED <<clock, process>>,
         mailWire' \subseteq Posts, mailbox' \subseteq Posts,
         issueWire' \subseteq Posts, issues' \subseteq Posts
  PROVE  TypeOK'
<1>1. /\ post' \in [Posts -> PostType] /\ post'[p] = r
      /\ \A q \in Posts \ {p} : post'[q] = post[q]
  BY StepType
<1>2. /\ clock' = clock /\ proc' = proc /\ boot' = boot /\ config' = config /\ stopBy' = stopBy
  BY DEF process
<1>3. ASSUME NEW q \in InFlight' PROVE Alive' /\ post'[q].boot = boot'
  <2>1. q \in Posts /\ post'[q].stage \notin {"unsent", "done", "killed"}
    BY <1>3 DEF InFlight
  <2>2. CASE q = p
    BY <2>1, <2>2, <1>1, <1>2 DEF BootKept, Alive
  <2>3. CASE q # p
    <3>1. q \in InFlight
      BY <2>1, <2>3, <1>1 DEF InFlight
    <3> QED BY <3>1, <2>1, <2>3, <1>1, <1>2 DEF TypeOK, Alive
  <2> QED BY <2>2, <2>3
<1> QED BY <1>1, <1>2, <1>3 DEF TypeOK

\* A POST with an answer is a POST, and done.
LEMMA AnsweredType ==
  ASSUME TypeOK, NEW r \in PostType, NEW a \in Answers
  PROVE  /\ Answered(r, a) \in PostType
         /\ Answered(r, a).stage = "done" /\ Answered(r, a).answer = a
<1>1. clock \in Time
  BY DEF TypeOK, Time
<1>2. Answered(r, a) = [r EXCEPT !.stage = "done", !.answer = a, !.ended = clock]
  BY DEF Answered
<1> QED BY <1>1, <1>2 DEF PostType, Stages

\* The invariant is kept by a step of a handler that makes r of its POST, if r
\* is true of the mail.
LEMMA HandlerInv ==
  ASSUME HonestInv, Alive, NEW p \in Posts, NEW r \in PostType, Step(p, r), BootKept(p, r),
         UNCHANGED <<clock, process, mailbox, issues>>,
         mailWire' = mailWire \/ (mailWire' = mailWire \cup {p} /\ r.stage = "sending"),
         issueWire' = issueWire \/ (issueWire' = issueWire \cup {p} /\ p \in mailbox),
         r.stage # "done" => r.answer = "none",
         r.stage \in {"mailed", "filing"} \/ r.answer = "sent" => p \in mailbox,
         \/ r.stage \in {"unsent", "reading", "admitted"}
         \/ r.answer \notin {"none", "sent", "send_failed"}
         => p \notin mailWire \cup mailbox
  PROVE  HonestInv'
<1>1. /\ post' \in [Posts -> PostType] /\ post'[p] = r
      /\ \A q \in Posts \ {p} : post'[q] = post[q]
  BY StepType DEF HonestInv
<1>2. /\ mailWire \subseteq Posts /\ mailbox \subseteq Posts
      /\ issueWire \subseteq Posts /\ issues \subseteq Posts
  BY DEF HonestInv, TypeOK
<1>3. TypeOK'
  BY <1>2, HandlerType DEF HonestInv
<1>4. r.stage \in {"unsent", "reading", "admitted"}
        \/ r.answer \notin {"none", "sent", "send_failed"} => mailWire' = mailWire
  BY DEF HonestInv
<1>5. \A q \in Posts \ {p} : q \in mailWire' \cup mailbox' <=> q \in mailWire \cup mailbox
  OBVIOUS
<1>6. AnswersHonest'
  <2> SUFFICES ASSUME NEW q \in Posts
               PROVE  /\ post'[q].answer = "sent" => q \in mailbox'
                      /\ post'[q].answer \notin {"none", "sent", "send_failed"} =>
                           q \notin mailWire' \cup mailbox'
    BY DEF AnswersHonest
  <2>1. CASE q = p
    BY <2>1, <1>1, <1>4
  <2>2. CASE q # p
    BY <2>2, <1>1, <1>5 DEF HonestInv, AnswersHonest
  <2> QED BY <2>1, <2>2
<1>7. IssuesFollowMail'
  BY DEF HonestInv, IssuesFollowMail
<1>8. MailFollowsStage'
  <2> SUFFICES ASSUME NEW q \in Posts
               PROVE  /\ post'[q].stage # "done" => post'[q].answer = "none"
                      /\ post'[q].stage \in {"mailed", "filing"} => q \in mailbox'
                      /\ post'[q].stage \in {"unsent", "reading", "admitted"} =>
                           q \notin mailWire' \cup mailbox'
    BY DEF MailFollowsStage
  <2>1. CASE q = p
    BY <2>1, <1>1, <1>4
  <2>2. CASE q # p
    BY <2>2, <1>1, <1>5 DEF HonestInv, MailFollowsStage
  <2> QED BY <2>1, <2>2
<1> QED BY <1>3, <1>6, <1>7, <1>8 DEF HonestInv

-----------------------------------------------------------------------------
(* One lemma per action of the handler                                     *)

\* What is known of the POST of a handler at its next step.
LEMMA AtStage ==
  ASSUME HonestInv, NEW p \in Posts, NEW stage, At(p, stage)
  PROVE  /\ Alive /\ post[p] \in PostType /\ post[p].stage = stage
         /\ stage \notin {"unsent", "done", "killed"} => post[p].boot = boot
         /\ stage # "done" => post[p].answer = "none"
         /\ stage \in {"mailed", "filing"} => p \in mailbox
         /\ stage \in {"unsent", "reading", "admitted"} => p \notin mailWire \cup mailbox
<1>1. Alive /\ post[p] \in PostType /\ post[p].stage = stage
  BY DEF At, HonestInv, TypeOK
<1>2. stage \notin {"unsent", "done", "killed"} => post[p].boot = boot
  BY <1>1 DEF InFlight, HonestInv, TypeOK
<1> QED BY <1>1, <1>2 DEF HonestInv, MailFollowsStage

\* A POST arrives: a new handler, and nothing remote yet.
LEMMA ArriveInv == ASSUME HonestInv, NEW p \in Posts, Arrive(p) PROVE HonestInv'
<1>1. PICK ip \in Ips, flaws \in Offers :
        Step(p, [Unsent EXCEPT !.stage = "reading", !.ip = ip, !.flaws = flaws,
                               !.due = Until(ReadTimeout), !.began = clock,
                               !.boot = boot])
  BY DEF Arrive
<1> DEFINE r == [Unsent EXCEPT !.stage = "reading", !.ip = ip, !.flaws = flaws,
                               !.due = Until(ReadTimeout), !.began = clock,
                               !.boot = boot]
<1>2. Until(ReadTimeout) \in Time /\ clock \in Time /\ Never \in Time
  BY UntilIsTime, ContactConfig DEF HonestInv, Time
<1>3. boot \in 0..MaxBoots /\ 0 \in 0..MaxBoots
  BY ContactConfig DEF HonestInv, TypeOK
<1>4. flaws \in SUBSET Flaws
  BY ContactConfig
<1>5. r \in PostType /\ r.stage = "reading" /\ r.answer = "none" /\ r.boot = boot
  BY <1>2, <1>3, <1>4 DEF Unsent, PostType, Stages, Answers
<1>6. Alive /\ p \notin mailWire \cup mailbox
  BY DEF Arrive, Alive, HonestInv, MailFollowsStage
<1>7. Step(p, r) /\ UNCHANGED <<clock, process, mailbox, issues, mailWire, issueWire>>
  BY <1>1 DEF Arrive, outside
<1> HIDE DEF r
<1> QED BY <1>5, <1>6, <1>7, HandlerInv DEF BootKept

\* The handler answers and changes nothing outside.
LEMMA AnswerInv ==
  ASSUME HonestInv, NEW p \in Posts, NEW q \in PostType, NEW a \in Answers \ {"none"},
         Alive, Step(p, Answered(q, a)), UNCHANGED <<clock, process, outside>>,
         a = "sent" => p \in mailbox,
         a \notin {"sent", "send_failed"} => p \notin mailWire \cup mailbox
  PROVE  HonestInv'
<1> DEFINE r == Answered(q, a)
<1>1. r \in PostType /\ r.stage = "done" /\ r.answer = a
  BY AnsweredType DEF HonestInv
<1>2. UNCHANGED <<clock, process, mailbox, issues, mailWire, issueWire>>
  BY DEF outside
<1> HIDE DEF r
<1>3. Step(p, r)
  BY DEF r
<1> QED BY <1>1, <1>2, <1>3, HandlerInv DEF BootKept

\* The body fails: the POST is refused.
LEMMA BodyFailsInv == ASSUME HonestInv, NEW p \in Posts, BodyFails(p) PROVE HonestInv'
<1>1. PICK a \in {"too_large", "unreadable"} : Step(p, Answered(post[p], a))
  BY DEF BodyFails
<1>2. /\ Alive /\ post[p] \in PostType /\ p \notin mailWire \cup mailbox
      /\ UNCHANGED <<clock, process, outside>>
  BY AtStage DEF BodyFails
<1>3. a \in Answers \ {"none"} /\ a \notin {"sent", "send_failed"}
  BY DEF Answers
<1> QED BY <1>1, <1>2, <1>3, AnswerInv

\* The form is parsed: admitted, or refused by the limiter of its address.
LEMMA ParseFormInv == ASSUME HonestInv, NEW p \in Posts, ParseForm(p) PROVE HonestInv'
<1> DEFINE q == [post[p] EXCEPT !.parsed = clock]
           r == [q EXCEPT !.stage = "admitted"]
<1>1. Step(p, r) \/ Step(p, Answered(q, "rate_limited_ip"))
  BY DEF ParseForm
<1>2. /\ Alive /\ post[p] \in PostType /\ post[p].answer = "none" /\ post[p].boot = boot
      /\ p \notin mailWire \cup mailbox
      /\ UNCHANGED <<clock, process, outside>>
  BY AtStage DEF ParseForm
<1>3. q \in PostType /\ r \in PostType /\ r.stage = "admitted" /\ r.answer = "none"
      /\ r.boot = boot
  <2>1. clock \in Time
    BY DEF HonestInv, TypeOK, Time
  <2> QED BY <2>1, <1>2 DEF PostType, Stages
<1>4. "rate_limited_ip" \in Answers \ {"none"}
  BY DEF Answers
<1> HIDE DEF q, r
<1>5. CASE Step(p, r)
  BY <1>2, <1>3, <1>5, HandlerInv DEF BootKept, outside
<1>6. CASE Step(p, Answered(q, "rate_limited_ip"))
  BY <1>2, <1>3, <1>4, <1>6, AnswerInv
<1> QED BY <1>1, <1>5, <1>6

\* The POST is refused by a check between the limiters.
LEMMA ScreenInv == ASSUME HonestInv, NEW p \in Posts, Screen(p) PROVE HonestInv'
<1>1. /\ Alive /\ post[p] \in PostType /\ p \notin mailWire \cup mailbox
      /\ UNCHANGED <<clock, process, outside>>
  BY AtStage DEF Screen
<1>2. /\ Step(p, Answered(post[p], Refusal(post[p])))
      /\ Refusal(post[p]) \in Answers \ {"none"}
      /\ Refusal(post[p]) \notin {"sent", "send_failed"}
  BY DEF Screen, Refusal, Answers
<1> QED BY <1>1, <1>2, AnswerInv

\* The POST is refused by the circuit-breaker, or its mail is on the wire.
LEMMA HandToMailerInv == ASSUME HonestInv, NEW p \in Posts, HandToMailer(p) PROVE HonestInv'
<1> DEFINE r == [post[p] EXCEPT !.stage = "sending", !.handed = clock,
                                !.due = Until(SendTimeout)]
<1>1. /\ Alive /\ post[p] \in PostType /\ post[p].answer = "none" /\ post[p].boot = boot
      /\ p \notin mailWire \cup mailbox
      /\ UNCHANGED <<clock, process, mailbox, issueWire, issues>>
  BY AtStage DEF HandToMailer
<1>2. r \in PostType /\ r.stage = "sending" /\ r.answer = "none" /\ r.boot = boot
  <2>1. clock \in Time /\ Until(SendTimeout) \in Time
    BY UntilIsTime, ContactConfig DEF HonestInv
  <2> QED BY <2>1, <1>1 DEF PostType, Stages
<1>3. \/ Step(p, r) /\ mailWire' = mailWire \cup {p}
      \/ Step(p, Answered(post[p], "rate_limited_global")) /\ mailWire' = mailWire
  BY DEF HandToMailer
<1>4. "rate_limited_global" \in Answers \ {"none"}
  BY DEF Answers
<1> HIDE DEF r
<1>5. CASE Step(p, r) /\ mailWire' = mailWire \cup {p}
  BY <1>1, <1>2, <1>5, HandlerInv DEF BootKept
<1>6. CASE Step(p, Answered(post[p], "rate_limited_global")) /\ mailWire' = mailWire
  BY <1>1, <1>4, <1>6, AnswerInv DEF outside
<1> QED BY <1>3, <1>5, <1>6

\* Send returns nil: the relay has the mail.
LEMMA SendSucceedsInv == ASSUME HonestInv, NEW p \in Posts, SendSucceeds(p) PROVE HonestInv'
<1> DEFINE r == [post[p] EXCEPT !.stage = "mailed"]
<1>1. /\ Alive /\ post[p] \in PostType /\ post[p].answer = "none" /\ post[p].boot = boot
      /\ p \in mailbox /\ Step(p, r)
      /\ UNCHANGED <<clock, process, mailbox, issueWire, issues, mailWire>>
  BY AtStage DEF SendSucceeds, outside
<1>2. r \in PostType /\ r.stage = "mailed" /\ r.answer = "none" /\ r.boot = boot
  BY <1>1 DEF PostType, Stages
<1> HIDE DEF r
<1> QED BY <1>1, <1>2, HandlerInv DEF BootKept

\* Send fails: nothing is said of the mail.
LEMMA SendFailsInv == ASSUME HonestInv, NEW p \in Posts, SendFails(p) PROVE HonestInv'
<1>1. /\ Alive /\ post[p] \in PostType /\ Step(p, Answered(post[p], "send_failed"))
      /\ UNCHANGED <<clock, process, outside>>
  BY AtStage DEF SendFails
<1>2. "send_failed" \in Answers \ {"none"}
  BY DEF Answers
<1> QED BY <1>1, <1>2, AnswerInv

\* The issue is on its way, or none is filed and the submission is answered.
LEMMA FileIssueInv == ASSUME HonestInv, NEW p \in Posts, FileIssue(p) PROVE HonestInv'
<1> DEFINE r == [post[p] EXCEPT !.stage = "filing", !.filed = clock,
                                !.due = Until(GithubPatience)]
           q == [post[p] EXCEPT !.github = "capped"]
<1>1. /\ Alive /\ post[p] \in PostType /\ post[p].answer = "none" /\ post[p].boot = boot
      /\ p \in mailbox
      /\ UNCHANGED <<clock, process, mailWire, mailbox, issues>>
  BY AtStage DEF FileIssue
<1>2. /\ r \in PostType /\ r.stage = "filing" /\ r.answer = "none" /\ r.boot = boot
      /\ q \in PostType
  <2>1. clock \in Time /\ Until(GithubPatience) \in Time
    BY UntilIsTime, ContactConfig DEF HonestInv, GithubPatience
  <2> QED BY <2>1, <1>1 DEF PostType, Stages
<1>3. \/ Step(p, r) /\ issueWire' = issueWire \cup {p}
      \/ Step(p, Answered(q, "sent")) /\ issueWire' = issueWire
      \/ Step(p, Answered(post[p], "sent")) /\ issueWire' = issueWire
  BY DEF FileIssue
<1>4. "sent" \in Answers \ {"none"}
  BY DEF Answers
<1> HIDE DEF r, q
<1>5. CASE Step(p, r) /\ issueWire' = issueWire \cup {p}
  BY <1>1, <1>2, <1>5, HandlerInv DEF BootKept
<1>6. CASE Step(p, Answered(q, "sent")) /\ issueWire' = issueWire
  BY <1>1, <1>2, <1>4, <1>6, AnswerInv DEF outside
<1>7. CASE Step(p, Answered(post[p], "sent")) /\ issueWire' = issueWire
  BY <1>1, <1>4, <1>7, AnswerInv DEF outside
<1> QED BY <1>3, <1>5, <1>6, <1>7

\* CreateIssue returns: the submission was sent in any case.
LEMMA IssueReturnsInv ==
  ASSUME HonestInv, NEW p \in Posts, IssueFiled(p) \/ IssueFails(p)
  PROVE  HonestInv'
<1>1. /\ Alive /\ post[p] \in PostType /\ p \in mailbox
      /\ UNCHANGED <<clock, process, outside>>
  BY AtStage DEF IssueFiled, IssueFails
<1>2. PICK g \in {"filed", "failed"} : Step(p, Answered([post[p] EXCEPT !.github = g], "sent"))
  BY DEF IssueFiled, IssueFails
<1>3. [post[p] EXCEPT !.github = g] \in PostType /\ "sent" \in Answers \ {"none"}
  BY <1>1 DEF PostType, Answers
<1> QED BY <1>1, <1>2, <1>3, AnswerInv

-----------------------------------------------------------------------------
(* The relay, GitHub and the process                                       *)

\* Nothing about the handlers or the process changes.
LEMMA SameType ==
  ASSUME TypeOK, UNCHANGED <<clock, process, post>>,
         mailWire' \subseteq Posts, mailbox' \subseteq Posts,
         issueWire' \subseteq Posts, issues' \subseteq Posts
  PROVE  TypeOK'
  BY DEF TypeOK, process, InFlight, Alive

\* The relay takes a mail from the wire, into the mailbox or not.
LEMMA RelayInv == ASSUME HonestInv, NEW p \in Posts, RelayDecides(p) PROVE HonestInv'
<1>1. /\ p \in mailWire /\ mailWire' = mailWire \ {p}
      /\ mailbox' = mailbox \/ mailbox' = mailbox \cup {p}
      /\ UNCHANGED <<clock, process, post, issueWire, issues>>
  BY DEF RelayDecides
<1>2. mailbox \subseteq mailbox' /\ mailWire' \cup mailbox' \subseteq mailWire \cup mailbox
  BY <1>1
<1>3. TypeOK'
  BY <1>1, SameType DEF HonestInv, TypeOK
<1>4. AnswersHonest' /\ MailFollowsStage'
  BY <1>1, <1>2 DEF HonestInv, AnswersHonest, MailFollowsStage
<1>5. IssuesFollowMail'
  BY <1>1, <1>2 DEF HonestInv, IssuesFollowMail
<1> QED BY <1>3, <1>4, <1>5 DEF HonestInv

\* GitHub takes an issue from the wire, into the tracker or not.
LEMMA GithubInv == ASSUME HonestInv, NEW p \in Posts, GithubDecides(p) PROVE HonestInv'
<1>1. /\ p \in issueWire /\ issueWire' = issueWire \ {p}
      /\ issues' = issues \/ issues' = issues \cup {p}
      /\ UNCHANGED <<clock, process, post, mailWire, mailbox>>
  BY DEF GithubDecides
<1>2. TypeOK'
  BY <1>1, SameType DEF HonestInv, TypeOK
<1>3. AnswersHonest' /\ MailFollowsStage' /\ IssuesFollowMail'
  BY <1>1 DEF HonestInv, AnswersHonest, MailFollowsStage, IssuesFollowMail
<1> QED BY <1>2, <1>3 DEF HonestInv

\* The process ends, and its handlers with it; what is remote goes on.
LEMMA ExitInv == ASSUME HonestInv, Exit PROVE HonestInv'
<1>1. /\ proc' = "down" /\ stopBy' = Never
      /\ post' = [p \in Posts |-> IF p \in InFlight
                       THEN [post[p] EXCEPT !.stage = "killed", !.ended = clock]
                       ELSE post[p]]
      /\ UNCHANGED <<clock, boot, config, mailWire, mailbox, issueWire, issues>>
  BY DEF Exit, outside
<1>2. ASSUME NEW p \in Posts
      PROVE  /\ post'[p] \in PostType
             /\ post'[p].stage \in {"unsent", "done", "killed"}
             /\ post'[p].stage = post[p].stage \/ post'[p].stage = "killed"
             /\ post'[p].stage = "done" => post[p].stage = "done"
             /\ post'[p].answer = post[p].answer
  <2>1. post[p] \in PostType /\ clock \in Time
    BY DEF HonestInv, TypeOK, Time
  <2>2. CASE p \in InFlight
    <3> DEFINE r == [post[p] EXCEPT !.stage = "killed", !.ended = clock]
    <3>1. r \in PostType /\ r.stage = "killed" /\ r.answer = post[p].answer
      BY <2>1 DEF PostType, Stages
    <3>2. post'[p] = r
      BY <1>1, <2>2
    <3> HIDE DEF r
    <3> QED BY <3>1, <3>2
  <2>3. CASE p \notin InFlight
    BY <1>1, <2>1, <2>3 DEF InFlight
  <2> QED BY <2>2, <2>3
<1>3. TypeOK'
  <2>1. post' \in [Posts -> PostType] /\ InFlight' = {}
    BY <1>1, <1>2 DEF InFlight
  <2>2. stopBy' \in Time
    BY <1>1 DEF Time
  <2> QED BY <1>1, <2>1, <2>2 DEF HonestInv, TypeOK
<1>4. AnswersHonest' /\ IssuesFollowMail'
  BY <1>1, <1>2 DEF HonestInv, AnswersHonest, IssuesFollowMail
<1>5. MailFollowsStage'
  <2> SUFFICES ASSUME NEW p \in Posts
               PROVE  /\ post'[p].stage # "done" => post'[p].answer = "none"
                      /\ post'[p].stage \in {"mailed", "filing"} => p \in mailbox'
                      /\ post'[p].stage \in {"unsent", "reading", "admitted"} =>
                           p \notin mailWire' \cup mailbox'
    BY DEF MailFollowsStage
  <2>1. post[p].stage = "done" => post'[p].stage = "done"
    BY <1>1 DEF InFlight
  <2> QED BY <2>1, <1>1, <1>2 DEF HonestInv, MailFollowsStage
<1> QED BY <1>3, <1>4, <1>5 DEF HonestInv

\* Steps that change the process or the clock and no POST.
LEMMA QuietInv ==
  ASSUME HonestInv, Sigterm \/ Restart \/ Tick \/ UNCHANGED vars
  PROVE  HonestInv'
<1>1. UNCHANGED <<post, mailWire, mailbox, issueWire, issues>>
  BY DEF Sigterm, Restart, Tick, vars, outside
<1>2. AnswersHonest' /\ MailFollowsStage' /\ IssuesFollowMail'
  BY <1>1 DEF HonestInv, AnswersHonest, MailFollowsStage, IssuesFollowMail
<1>3. TypeOK'
  <2>1. CASE Sigterm
    <3>1. Until(ShutdownGrace) \in Time
      BY UntilIsTime, ContactConfig DEF HonestInv
    <3> QED BY <2>1, <3>1, <1>1 DEF HonestInv, TypeOK, Sigterm, InFlight, Alive
  <2>2. CASE Restart
    <3>1. InFlight = {}
      BY <2>2 DEF HonestInv, TypeOK, Restart, Alive
    <3>2. boot' \in 1..MaxBoots
      BY <2>2, ContactConfig DEF HonestInv, TypeOK, Restart
    <3> QED BY <2>2, <3>1, <3>2, <1>1 DEF HonestInv, TypeOK, Restart, InFlight, Alive
  <2>3. CASE Tick
    <3>1. clock' \in 0..Horizon
      BY <2>3, ContactConfig DEF HonestInv, TypeOK, Tick
    <3> QED BY <2>3, <3>1, <1>1 DEF HonestInv, TypeOK, Tick, process, InFlight, Alive
  <2>4. CASE UNCHANGED vars
    BY <2>4 DEF HonestInv, TypeOK, vars, process, outside, InFlight, Alive
  <2> QED BY <2>1, <2>2, <2>3, <2>4
<1> QED BY <1>2, <1>3 DEF HonestInv

-----------------------------------------------------------------------------
(* The theorems                                                            *)

\* The service starts with the invariant: nothing has arrived.
LEMMA InitHonest == Init => HonestInv
<1> SUFFICES ASSUME Init PROVE HonestInv
  OBVIOUS
<1>1. Unsent \in PostType
  BY ContactConfig DEF Unsent, PostType, Stages, Answers, Time
<1>2. /\ post = [p \in Posts |-> Unsent] /\ mailWire = {} /\ mailbox = {}
      /\ issueWire = {} /\ issues = {}
  BY DEF Init
<1>3. \A p \in Posts : post[p].stage = "unsent" /\ post[p].answer = "none"
  BY <1>2 DEF Unsent
<1>4. TypeOK
  <2>1. InFlight = {}
    BY <1>3 DEF InFlight
  <2>2. clock \in 0..Horizon /\ boot \in 1..MaxBoots /\ stopBy \in Time
    BY ContactConfig DEF Init, Time
  <2> QED BY <1>1, <1>2, <2>1, <2>2 DEF Init, TypeOK
<1> QED BY <1>2, <1>3, <1>4 DEF HonestInv, AnswersHonest, IssuesFollowMail, MailFollowsStage

\* Every step of the handlers, the remote sides and the process keeps the invariant.
LEMMA NextHonest == HonestInv /\ [Next]_vars => HonestInv'
<1> SUFFICES ASSUME HonestInv, [Next]_vars PROVE HonestInv'
  OBVIOUS
<1>1. ASSUME NEW p \in Posts, Arrive(p) PROVE HonestInv'
  BY <1>1, ArriveInv
<1>2. ASSUME NEW p \in Posts, Handler(p) PROVE HonestInv'
  BY <1>2, BodyFailsInv, ParseFormInv, ScreenInv, HandToMailerInv, SendSucceedsInv,
     SendFailsInv, FileIssueInv, IssueReturnsInv DEF Handler
<1>3. ASSUME NEW p \in Posts, RelayDecides(p) PROVE HonestInv'
  BY <1>3, RelayInv
<1>4. ASSUME NEW p \in Posts, GithubDecides(p) PROVE HonestInv'
  BY <1>4, GithubInv
<1>5. CASE DrainEnds \/ Crash
  BY <1>5, ExitInv DEF DrainEnds, Crash
<1>6. CASE Sigterm \/ Restart \/ Tick \/ UNCHANGED vars
  BY <1>6, QuietInv
<1> QED BY <1>1, <1>2, <1>3, <1>4, <1>5, <1>6 DEF Next

\* HonestInv is an invariant: of the handlers, the remote sides and the process.
THEOREM HonestInvariance == Spec => []HonestInv
<1> QED BY InitHonest, NextHonest, PTL DEF Spec

\* The variables have their types, and handlers run only in a live process.
THEOREM ContactTypeCorrect == Spec => []TypeOK
<1>1. HonestInv => TypeOK
  BY DEF HonestInv
<1> QED BY HonestInvariance, <1>1, PTL

\* What a client is told about its mail is true, whatever the relay does.
THEOREM Honest == Spec => []AnswersHonest
<1>1. HonestInv => AnswersHonest
  BY DEF HonestInv
<1> QED BY HonestInvariance, <1>1, PTL

\* No issue without its mail.
THEOREM MailFirst == Spec => []IssuesFollowMail
<1>1. HonestInv => IssuesFollowMail
  BY DEF HonestInv
<1> QED BY HonestInvariance, <1>1, PTL

-----------------------------------------------------------------------------
(***************************************************************************)
(* The budgets: how much of the three limits one boot of the process can   *)
(* spend.                                                                  *)
(*                                                                         *)
(* The argument.  A handler charges a limiter in one step, at the time the *)
(* clock then shows, so the calls of a limiter enter in order and the      *)
(* facts of RateLimiterProofs about such limiters apply: a limiter holds   *)
(* one hit for each charge of this boot that is young enough to be asked   *)
(* for (Ledger).  Its answer is therefore the true count of the window.    *)
(* Nothing is forgotten, for a limiter never has more keys than its map    *)
(* may track: the two global ones have one key each, and that of the       *)
(* addresses has as many as there are addresses, which is a hypothesis of  *)
(* the theorem about them.                                                 *)
(***************************************************************************)

\* The facts about limiters, for each of the three.
IpL == INSTANCE RateLimiterProofs
         WITH Limit <- IpLimit, Win <- Hour, Keys <- Ips, Callers <- {},
              MaxDelay <- 0, clock <- 0, pending <- {}, rl <- limiter,
              calls <- 0, log <- {}, answer <- 0

GlobalL == INSTANCE RateLimiterProofs
             WITH Limit <- GlobalLimit, Win <- Hour, Keys <- {"global"},
                  Callers <- {}, MaxDelay <- 0, clock <- 0, pending <- {},
                  rl <- globalLimiter, calls <- 0, log <- {}, answer <- 0

GithubL == INSTANCE RateLimiterProofs
             WITH Limit <- GithubCap, Win <- Day, Keys <- {"github"},
                  Callers <- {}, MaxDelay <- 0, clock <- 0, pending <- {},
                  rl <- ghLimiter, calls <- 0, log <- {}, answer <- 0

\* The limiters that Contact calls are those the facts are about.
LEMMA SameIpLimiter ==
  /\ IpLimiter!NewLimiter = IpL!NewLimiter
  /\ \A r : IpLimiter!NextNumber(r) = IpL!NextNumber(r)
  /\ \A r, key, now, n : IpLimiter!Allow(r, key, now, n) = IpL!Allow(r, key, now, n)
<1>1. \A S : IpLimiter!Cardinality(S) = IpL!Cardinality(S)
  BY DEF IpLimiter!Cardinality, IpL!Cardinality
<1>2. IpLimiter!NewLimiter = IpL!NewLimiter
  BY DEF IpLimiter!NewLimiter, IpL!NewLimiter
<1>3. \A r : IpLimiter!NextNumber(r) = IpL!NextNumber(r)
  BY DEF IpLimiter!NextNumber, IpL!NextNumber, IpLimiter!Tracked, IpL!Tracked
<1>4. \A r, now : IpLimiter!Sweep(r, now) = IpL!Sweep(r, now)
  BY Zenon DEF IpLimiter!Sweep, IpL!Sweep, IpLimiter!Keep, IpL!Keep, IpLimiter!Tracked, IpL!Tracked,
               IpLimiter!Fresh, IpL!Fresh, IpLimiter!Last, IpL!Last
<1>5. \A r, key : IpLimiter!HitsOf(r, key) = IpL!HitsOf(r, key)
  BY Zenon DEF IpLimiter!HitsOf, IpL!HitsOf, IpLimiter!Tracked, IpL!Tracked
<1>6. \A r, target : IpLimiter!EvictBatch(r, target) = IpL!EvictBatch(r, target)
  BY <1>1, Zenon
     DEF IpLimiter!EvictBatch, IpL!EvictBatch, IpLimiter!Survivors, IpL!Survivors,
         IpLimiter!Age, IpL!Age, IpLimiter!Last, IpL!Last, IpLimiter!Keep, IpL!Keep,
         IpLimiter!Tracked, IpL!Tracked
<1>7. \A r, key, now : IpLimiter!MakeRoom(r, key, now) = IpL!MakeRoom(r, key, now)
  BY <1>1, <1>4, <1>6, Zenon
     DEF IpLimiter!MakeRoom, IpL!MakeRoom, IpLimiter!Tracked, IpL!Tracked
<1>8. \A r, key, kept : IpLimiter!Store(r, key, kept) = IpL!Store(r, key, kept)
  BY Zenon DEF IpLimiter!Store, IpL!Store, IpLimiter!Tracked, IpL!Tracked
<1>9. ASSUME NEW r, NEW key, NEW kept, NEW now, NEW n
      PROVE  IpLimiter!Admit(r, key, kept, now, n) = IpL!Admit(r, key, kept, now, n)
  <2>1. IpLimiter!MakeRoom(r, key, now) = IpL!MakeRoom(r, key, now)
    BY <1>7
  <2>2. \A s, new : IpLimiter!Store(s, key, new) = IpL!Store(s, key, new)
    BY <1>8
  <2> QED BY <2>1, <2>2, Zenon DEF IpLimiter!Admit, IpL!Admit
<1>10. \A r, now : IpLimiter!Scheduled(r, now) = IpL!Scheduled(r, now)
  BY <1>4, Zenon DEF IpLimiter!Scheduled, IpL!Scheduled
<1>11. /\ \A ts, now : IpLimiter!Live(ts, now) = IpL!Live(ts, now)
       /\ \A kept : IpLimiter!OverLimit(kept) = IpL!OverLimit(kept)
  BY <1>1, Zenon DEF IpLimiter!Live, IpL!Live, IpLimiter!OverLimit, IpL!OverLimit
<1>12. \A r, key, kept : IpLimiter!Refuse(r, key, kept) = IpL!Refuse(r, key, kept)
  BY <1>8, Zenon DEF IpLimiter!Refuse, IpL!Refuse
<1>13. ASSUME NEW r, NEW key, NEW now, NEW n
       PROVE  IpLimiter!Allow(r, key, now, n) = IpL!Allow(r, key, now, n)
  BY <1>5, <1>9, <1>10, <1>11, <1>12, Zenon DEF IpLimiter!Allow, IpL!Allow
<1> QED BY <1>2, <1>3, <1>13

\* The same for the circuit-breaker.
LEMMA SameGlobalLimiter ==
  /\ GlobalLimiter!NewLimiter = GlobalL!NewLimiter
  /\ \A r : GlobalLimiter!NextNumber(r) = GlobalL!NextNumber(r)
  /\ \A r, key, now, n : GlobalLimiter!Allow(r, key, now, n) = GlobalL!Allow(r, key, now, n)
<1>1. \A S : GlobalLimiter!Cardinality(S) = GlobalL!Cardinality(S)
  BY DEF GlobalLimiter!Cardinality, GlobalL!Cardinality
<1>2. GlobalLimiter!NewLimiter = GlobalL!NewLimiter
  BY DEF GlobalLimiter!NewLimiter, GlobalL!NewLimiter
<1>3. \A r : GlobalLimiter!NextNumber(r) = GlobalL!NextNumber(r)
  BY DEF GlobalLimiter!NextNumber, GlobalL!NextNumber, GlobalLimiter!Tracked, GlobalL!Tracked
<1>4. \A r, now : GlobalLimiter!Sweep(r, now) = GlobalL!Sweep(r, now)
  BY Zenon DEF GlobalLimiter!Sweep, GlobalL!Sweep, GlobalLimiter!Keep, GlobalL!Keep, GlobalLimiter!Tracked, GlobalL!Tracked,
               GlobalLimiter!Fresh, GlobalL!Fresh, GlobalLimiter!Last, GlobalL!Last
<1>5. \A r, key : GlobalLimiter!HitsOf(r, key) = GlobalL!HitsOf(r, key)
  BY Zenon DEF GlobalLimiter!HitsOf, GlobalL!HitsOf, GlobalLimiter!Tracked, GlobalL!Tracked
<1>6. \A r, target : GlobalLimiter!EvictBatch(r, target) = GlobalL!EvictBatch(r, target)
  BY <1>1, Zenon
     DEF GlobalLimiter!EvictBatch, GlobalL!EvictBatch, GlobalLimiter!Survivors, GlobalL!Survivors,
         GlobalLimiter!Age, GlobalL!Age, GlobalLimiter!Last, GlobalL!Last, GlobalLimiter!Keep, GlobalL!Keep,
         GlobalLimiter!Tracked, GlobalL!Tracked
<1>7. \A r, key, now : GlobalLimiter!MakeRoom(r, key, now) = GlobalL!MakeRoom(r, key, now)
  BY <1>1, <1>4, <1>6, Zenon
     DEF GlobalLimiter!MakeRoom, GlobalL!MakeRoom, GlobalLimiter!Tracked, GlobalL!Tracked
<1>8. \A r, key, kept : GlobalLimiter!Store(r, key, kept) = GlobalL!Store(r, key, kept)
  BY Zenon DEF GlobalLimiter!Store, GlobalL!Store, GlobalLimiter!Tracked, GlobalL!Tracked
<1>9. ASSUME NEW r, NEW key, NEW kept, NEW now, NEW n
      PROVE  GlobalLimiter!Admit(r, key, kept, now, n) = GlobalL!Admit(r, key, kept, now, n)
  <2>1. GlobalLimiter!MakeRoom(r, key, now) = GlobalL!MakeRoom(r, key, now)
    BY <1>7
  <2>2. \A s, new : GlobalLimiter!Store(s, key, new) = GlobalL!Store(s, key, new)
    BY <1>8
  <2> QED BY <2>1, <2>2, Zenon DEF GlobalLimiter!Admit, GlobalL!Admit
<1>10. \A r, now : GlobalLimiter!Scheduled(r, now) = GlobalL!Scheduled(r, now)
  BY <1>4, Zenon DEF GlobalLimiter!Scheduled, GlobalL!Scheduled
<1>11. /\ \A ts, now : GlobalLimiter!Live(ts, now) = GlobalL!Live(ts, now)
       /\ \A kept : GlobalLimiter!OverLimit(kept) = GlobalL!OverLimit(kept)
  BY <1>1, Zenon DEF GlobalLimiter!Live, GlobalL!Live, GlobalLimiter!OverLimit, GlobalL!OverLimit
<1>12. \A r, key, kept : GlobalLimiter!Refuse(r, key, kept) = GlobalL!Refuse(r, key, kept)
  BY <1>8, Zenon DEF GlobalLimiter!Refuse, GlobalL!Refuse
<1>13. ASSUME NEW r, NEW key, NEW now, NEW n
       PROVE  GlobalLimiter!Allow(r, key, now, n) = GlobalL!Allow(r, key, now, n)
  BY <1>5, <1>9, <1>10, <1>11, <1>12, Zenon DEF GlobalLimiter!Allow, GlobalL!Allow
<1> QED BY <1>2, <1>3, <1>13

\* The same for the cap on issues.
LEMMA SameGithubLimiter ==
  /\ GithubLimiter!NewLimiter = GithubL!NewLimiter
  /\ \A r : GithubLimiter!NextNumber(r) = GithubL!NextNumber(r)
  /\ \A r, key, now, n : GithubLimiter!Allow(r, key, now, n) = GithubL!Allow(r, key, now, n)
<1>1. \A S : GithubLimiter!Cardinality(S) = GithubL!Cardinality(S)
  BY DEF GithubLimiter!Cardinality, GithubL!Cardinality
<1>2. GithubLimiter!NewLimiter = GithubL!NewLimiter
  BY DEF GithubLimiter!NewLimiter, GithubL!NewLimiter
<1>3. \A r : GithubLimiter!NextNumber(r) = GithubL!NextNumber(r)
  BY DEF GithubLimiter!NextNumber, GithubL!NextNumber, GithubLimiter!Tracked, GithubL!Tracked
<1>4. \A r, now : GithubLimiter!Sweep(r, now) = GithubL!Sweep(r, now)
  BY Zenon DEF GithubLimiter!Sweep, GithubL!Sweep, GithubLimiter!Keep, GithubL!Keep, GithubLimiter!Tracked, GithubL!Tracked,
               GithubLimiter!Fresh, GithubL!Fresh, GithubLimiter!Last, GithubL!Last
<1>5. \A r, key : GithubLimiter!HitsOf(r, key) = GithubL!HitsOf(r, key)
  BY Zenon DEF GithubLimiter!HitsOf, GithubL!HitsOf, GithubLimiter!Tracked, GithubL!Tracked
<1>6. \A r, target : GithubLimiter!EvictBatch(r, target) = GithubL!EvictBatch(r, target)
  BY <1>1, Zenon
     DEF GithubLimiter!EvictBatch, GithubL!EvictBatch, GithubLimiter!Survivors, GithubL!Survivors,
         GithubLimiter!Age, GithubL!Age, GithubLimiter!Last, GithubL!Last, GithubLimiter!Keep, GithubL!Keep,
         GithubLimiter!Tracked, GithubL!Tracked
<1>7. \A r, key, now : GithubLimiter!MakeRoom(r, key, now) = GithubL!MakeRoom(r, key, now)
  BY <1>1, <1>4, <1>6, Zenon
     DEF GithubLimiter!MakeRoom, GithubL!MakeRoom, GithubLimiter!Tracked, GithubL!Tracked
<1>8. \A r, key, kept : GithubLimiter!Store(r, key, kept) = GithubL!Store(r, key, kept)
  BY Zenon DEF GithubLimiter!Store, GithubL!Store, GithubLimiter!Tracked, GithubL!Tracked
<1>9. ASSUME NEW r, NEW key, NEW kept, NEW now, NEW n
      PROVE  GithubLimiter!Admit(r, key, kept, now, n) = GithubL!Admit(r, key, kept, now, n)
  <2>1. GithubLimiter!MakeRoom(r, key, now) = GithubL!MakeRoom(r, key, now)
    BY <1>7
  <2>2. \A s, new : GithubLimiter!Store(s, key, new) = GithubL!Store(s, key, new)
    BY <1>8
  <2> QED BY <2>1, <2>2, Zenon DEF GithubLimiter!Admit, GithubL!Admit
<1>10. \A r, now : GithubLimiter!Scheduled(r, now) = GithubL!Scheduled(r, now)
  BY <1>4, Zenon DEF GithubLimiter!Scheduled, GithubL!Scheduled
<1>11. /\ \A ts, now : GithubLimiter!Live(ts, now) = GithubL!Live(ts, now)
       /\ \A kept : GithubLimiter!OverLimit(kept) = GithubL!OverLimit(kept)
  BY <1>1, Zenon DEF GithubLimiter!Live, GithubL!Live, GithubLimiter!OverLimit, GithubL!OverLimit
<1>12. \A r, key, kept : GithubLimiter!Refuse(r, key, kept) = GithubL!Refuse(r, key, kept)
  BY <1>8, Zenon DEF GithubLimiter!Refuse, GithubL!Refuse
<1>13. ASSUME NEW r, NEW key, NEW now, NEW n
       PROVE  GithubLimiter!Allow(r, key, now, n) = GithubL!Allow(r, key, now, n)
  BY <1>5, <1>9, <1>10, <1>11, <1>12, Zenon DEF GithubLimiter!Allow, GithubL!Allow
<1> QED BY <1>2, <1>3, <1>13

\* How many hits of a key after t a limiter has.
IpCount(r, k)  == [t \in Int |-> IpL!Cardinality(IpL!HitsAfter(r, k, t))]
GlobalCount(r) == [t \in Int |-> GlobalL!Cardinality(GlobalL!HitsAfter(r, "global", t))]
GithubCount(r) == [t \in Int |-> GithubL!Cardinality(GithubL!HitsAfter(r, "github", t))]

\* A call that is admitted adds its hit to the counts of its key.
Counted(count, new, ok, now, win) ==
  \A t \in Int : t >= now - win =>
    new[t] = count[t] + IF ok /\ now > t THEN 1 ELSE 0

\* What a call of the limiter of the addresses does and answers.
LEMMA IpAllow ==
  ASSUME IsFiniteSet(Ips), Cardinality(Ips) <= MaxKeys,
         NEW now \in Nat, NEW r, IpL!InOrder(r, now), NEW ip \in Ips,
         NEW o \in IpLimiter!Allow(r, ip, now, IpLimiter!NextNumber(r))
  PROVE  /\ IpL!InOrder(o.rl, now) /\ o.ok \in BOOLEAN
         /\ o.ok <=> IpCount(r, ip)[now - Hour] < IpLimit
         /\ \A k \in Ips : Counted(IpCount(r, k), IpCount(o.rl, k), o.ok /\ k = ip, now, Hour)
<1>1. IpL!LimiterConfig /\ IpL!CallerConfig
  BY ContactConfig DEF IpL!LimiterConfig, IpL!CallerConfig
<1>2. IpL!IsFiniteSet(Ips) /\ IpL!Cardinality(Ips) = Cardinality(Ips)
  BY DEF IpL!IsFiniteSet, IsFiniteSet, IpL!Cardinality, Cardinality
<1>3. o \in IpL!Allow(r, ip, now, IpL!NextNumber(r))
  BY SameIpLimiter
<1>4. now - Hour \in Int
  BY ContactConfig
<1>5. /\ IpL!InOrder(o.rl, now)
      /\ o.ok \in BOOLEAN
      /\ o.ok <=> IpL!Cardinality(IpL!HitsAfter(r, ip, now - Hour)) < IpLimit
      /\ \A k \in Ips, t \in Int : t >= now - Hour =>
           IpL!Cardinality(IpL!HitsAfter(o.rl, k, t))
             = IpL!Cardinality(IpL!HitsAfter(r, k, t))
                 + IF o.ok /\ k = ip /\ now > t THEN 1 ELSE 0
  BY <1>1, <1>2, <1>3, IpL!AllowExact
<1> QED BY <1>4, <1>5 DEF IpCount, Counted

\* The same for the circuit-breaker, which has one key.
LEMMA GlobalAllow ==
  ASSUME NEW now \in Nat, NEW r, GlobalL!InOrder(r, now),
         NEW o \in GlobalLimiter!Allow(r, "global", now, GlobalLimiter!NextNumber(r))
  PROVE  /\ GlobalL!InOrder(o.rl, now) /\ o.ok \in BOOLEAN
         /\ o.ok <=> GlobalCount(r)[now - Hour] < GlobalLimit
         /\ Counted(GlobalCount(r), GlobalCount(o.rl), o.ok, now, Hour)
<1>1. GlobalL!LimiterConfig /\ GlobalL!CallerConfig
  BY ContactConfig DEF GlobalL!LimiterConfig, GlobalL!CallerConfig
<1>2. GlobalL!IsFiniteSet({"global"}) /\ GlobalL!Cardinality({"global"}) <= MaxKeys
  <2>1. IsFiniteSet({"global"}) /\ Cardinality({"global"}) = 1
    BY FS_Singleton
  <2>2. 1 <= MaxKeys
    BY ContactConfig
  <2> QED BY <2>1, <2>2
          DEF GlobalL!IsFiniteSet, IsFiniteSet, GlobalL!Cardinality, Cardinality
<1>3. o \in GlobalL!Allow(r, "global", now, GlobalL!NextNumber(r))
  BY SameGlobalLimiter
<1>4. now - Hour \in Int /\ "global" \in {"global"}
  BY ContactConfig
<1>5. /\ GlobalL!InOrder(o.rl, now)
      /\ o.ok \in BOOLEAN
      /\ o.ok <=> GlobalL!Cardinality(GlobalL!HitsAfter(r, "global", now - Hour)) < GlobalLimit
      /\ \A k \in {"global"}, t \in Int : t >= now - Hour =>
           GlobalL!Cardinality(GlobalL!HitsAfter(o.rl, k, t))
             = GlobalL!Cardinality(GlobalL!HitsAfter(r, k, t))
                 + IF o.ok /\ k = "global" /\ now > t THEN 1 ELSE 0
  BY <1>1, <1>2, <1>3, <1>4, GlobalL!AllowExact
<1> QED BY <1>4, <1>5 DEF GlobalCount, Counted

\* The same for the cap on issues, which has one key.
LEMMA GithubAllow ==
  ASSUME NEW now \in Nat, NEW r, GithubL!InOrder(r, now),
         NEW o \in GithubLimiter!Allow(r, "github", now, GithubLimiter!NextNumber(r))
  PROVE  /\ GithubL!InOrder(o.rl, now) /\ o.ok \in BOOLEAN
         /\ o.ok <=> GithubCount(r)[now - Day] < GithubCap
         /\ Counted(GithubCount(r), GithubCount(o.rl), o.ok, now, Day)
<1>1. GithubL!LimiterConfig /\ GithubL!CallerConfig
  BY ContactConfig DEF GithubL!LimiterConfig, GithubL!CallerConfig
<1>2. GithubL!IsFiniteSet({"github"}) /\ GithubL!Cardinality({"github"}) <= MaxKeys
  <2>1. IsFiniteSet({"github"}) /\ Cardinality({"github"}) = 1
    BY FS_Singleton
  <2>2. 1 <= MaxKeys
    BY ContactConfig
  <2> QED BY <2>1, <2>2
          DEF GithubL!IsFiniteSet, IsFiniteSet, GithubL!Cardinality, Cardinality
<1>3. o \in GithubL!Allow(r, "github", now, GithubL!NextNumber(r))
  BY SameGithubLimiter
<1>4. now - Day \in Int /\ "github" \in {"github"}
  BY ContactConfig
<1>5. /\ GithubL!InOrder(o.rl, now)
      /\ o.ok \in BOOLEAN
      /\ o.ok <=> GithubL!Cardinality(GithubL!HitsAfter(r, "github", now - Day)) < GithubCap
      /\ \A k \in {"github"}, t \in Int : t >= now - Day =>
           GithubL!Cardinality(GithubL!HitsAfter(o.rl, k, t))
             = GithubL!Cardinality(GithubL!HitsAfter(r, k, t))
                 + IF o.ok /\ k = "github" /\ now > t THEN 1 ELSE 0
  BY <1>1, <1>2, <1>3, <1>4, GithubL!AllowExact
<1> QED BY <1>4, <1>5 DEF GithubCount, Counted

-----------------------------------------------------------------------------
(* A ledger: who was charged to a limiter, when and in which boot          *)

\* The charges of a boot after t.
Since(c, cur, t) == {q \in DOMAIN c : c[q].boot = cur /\ c[q].at > t}

\* The charges of p's boot in the window that ends with p's.
Window(c, p, win) ==
  {q \in DOMAIN c : /\ c[q].boot = c[p].boot
                    /\ c[q].at <= c[p].at /\ c[q].at > c[p].at - win}

\* The limiter counts the charges of this boot that it can be asked for, and no
\* window of any boot has more than limit of them.
Ledger(c, count, cur, now, limit, win) ==
  /\ \A q \in DOMAIN c : c[q].at \in 0..now /\ c[q].boot \in 1..cur
  /\ \A t \in Int : t >= now - win =>
       IsFiniteSet(Since(c, cur, t)) /\ Cardinality(Since(c, cur, t)) = count[t]
  /\ \A p \in DOMAIN c : Cardinality(Window(c, p, win)) <= limit

\* The ledger after p is charged.
Charged(c, p, now, cur) ==
  [q \in DOMAIN c \cup {p} |-> IF q = p THEN [at |-> now, boot |-> cur] ELSE c[q]]

\* A ledger stays one while time passes and nobody is charged.
LEMMA IdleLedger ==
  ASSUME NEW win \in Nat, NEW limit, NEW now \in Nat, NEW later \in Nat, now <= later,
         NEW cur \in Nat, NEW c, NEW count, NEW new,
         \A t \in Int : t >= later - win => new[t] = count[t],
         Ledger(c, count, cur, now, limit, win)
  PROVE  Ledger(c, new, cur, later, limit, win)
<1>1. \A q \in DOMAIN c : c[q].at \in 0..later /\ c[q].boot \in 1..cur
  BY DEF Ledger
<1>2. ASSUME NEW t \in Int, t >= later - win
      PROVE  IsFiniteSet(Since(c, cur, t)) /\ Cardinality(Since(c, cur, t)) = new[t]
  BY <1>2 DEF Ledger
<1> QED BY <1>1, <1>2 DEF Ledger

\* A charge that the limiter counted, and that found room for itself.
LEMMA ChargeLedger ==
  ASSUME NEW limit \in Nat, NEW win \in Nat \ {0}, NEW now \in Nat, NEW cur \in Nat \ {0},
         NEW c, NEW count, NEW new, Ledger(c, count, cur, now, limit, win),
         NEW p, p \notin DOMAIN c, count[now - win] < limit,
         Counted(count, new, TRUE, now, win)
  PROVE  Ledger(Charged(c, p, now, cur), new, cur, now, limit, win)
<1> DEFINE d == Charged(c, p, now, cur)
<1>1. /\ DOMAIN d = DOMAIN c \cup {p} /\ d[p].at = now /\ d[p].boot = cur
      /\ \A q \in DOMAIN c : d[q] = c[q]
  BY DEF Charged
<1> HIDE DEF d
<1>2. \A q \in DOMAIN c : c[q].at \in 0..now /\ c[q].boot \in 1..cur
  BY DEF Ledger
<1>3. \A q \in DOMAIN d : d[q].at \in 0..now /\ d[q].boot \in 1..cur
  BY <1>1, <1>2
<1>4. ASSUME NEW t \in Int, t >= now - win
      PROVE  IsFiniteSet(Since(d, cur, t)) /\ Cardinality(Since(d, cur, t)) = new[t]
  <2> DEFINE S == Since(c, cur, t)
  <2>1. IsFiniteSet(S) /\ Cardinality(S) = count[t]
    BY <1>4 DEF Ledger
  <2>2. Cardinality(S) \in Nat
    BY <2>1, FS_CardinalityType
  <2>3. new[t] = count[t] + IF now > t THEN 1 ELSE 0
    BY <1>4 DEF Counted
  <2>4. p \notin S
    BY DEF Since
  <2>5. IsFiniteSet(S \cup {p}) /\ Cardinality(S \cup {p}) = Cardinality(S) + 1
    BY <2>1, <2>4, FS_AddElement
  <2>6. Since(d, cur, t) = IF now > t THEN S \cup {p} ELSE S
    BY <1>1, <1>2 DEF Since
  <2> HIDE DEF S
  <2>7. CASE now > t
    BY <2>7, <2>1, <2>2, <2>3, <2>5, <2>6
  <2>8. CASE ~(now > t)
    BY <2>8, <2>1, <2>2, <2>3, <2>6
  <2> QED BY <2>7, <2>8
<1>5. ASSUME NEW q \in DOMAIN d PROVE Cardinality(Window(d, q, win)) <= limit
  <2>1. CASE d[q].boot = cur /\ d[q].at = now
    <3>1. now - win \in Int /\ now > now - win
      OBVIOUS
    <3>2. Window(d, q, win) = Since(d, cur, now - win)
      BY <2>1, <1>3 DEF Window, Since
    <3>3. Cardinality(Window(d, q, win)) = new[now - win]
      BY <3>1, <3>2, <1>4
    <3>4. new[now - win] = count[now - win] + 1
      BY <3>1 DEF Counted
    <3>5. count[now - win] \in Nat
      BY <3>1, FS_CardinalityType DEF Ledger
    <3> QED BY <3>3, <3>4, <3>5
  <2>2. CASE ~(d[q].boot = cur /\ d[q].at = now)
    <3>1. q \in DOMAIN c /\ d[q] = c[q]
      BY <2>2, <1>1
    <3>2. d[q].at < now \/ d[q].boot # cur
      BY <2>2, <1>3
    <3>3. p \notin Window(d, q, win)
      BY <3>1, <3>2, <1>1, <1>3 DEF Window
    <3>4. Window(d, q, win) = Window(c, q, win)
      BY <3>1, <3>3, <1>1 DEF Window
    <3> QED BY <3>1, <3>4 DEF Ledger
  <2> QED BY <2>1, <2>2
<1>6. Ledger(d, new, cur, now, limit, win)
  BY <1>3, <1>4, <1>5 DEF Ledger
<1> QED BY <1>6 DEF d

\* A new boot starts with nothing charged to it.
LEMMA BootLedger ==
  ASSUME NEW win \in Nat, NEW limit, NEW now \in Nat, NEW cur \in Nat,
         NEW c, NEW count, NEW new, \A t \in Int : new[t] = 0,
         Ledger(c, count, cur, now, limit, win)
  PROVE  Ledger(c, new, cur + 1, now, limit, win)
<1>1. \A q \in DOMAIN c : /\ c[q].at \in 0..now /\ c[q].boot \in 1..(cur + 1)
                          /\ c[q].boot # cur + 1
  BY DEF Ledger
<1>2. ASSUME NEW t \in Int
      PROVE  /\ IsFiniteSet(Since(c, cur + 1, t))
             /\ Cardinality(Since(c, cur + 1, t)) = new[t]
  <2>1. Since(c, cur + 1, t) = {}
    BY <1>1 DEF Since
  <2> QED BY <2>1, FS_EmptySet
<1>3. \A p \in DOMAIN c : Cardinality(Window(c, p, win)) <= limit
  BY DEF Ledger
<1> DEFINE next == cur + 1
<1>4. \A q \in DOMAIN c : c[q].at \in 0..now /\ c[q].boot \in 1..next
  BY <1>1
<1>5. \A t \in Int : IsFiniteSet(Since(c, next, t)) /\ Cardinality(Since(c, next, t)) = new[t]
  BY <1>2
<1> HIDE DEF next
<1>6. Ledger(c, new, next, now, limit, win)
  BY <1>3, <1>4, <1>5 DEF Ledger
<1> QED BY <1>6 DEF next

-----------------------------------------------------------------------------
(* The ledgers of the three limiters                                       *)

Entry(at, b) == [at |-> at, boot |-> b]

AdmittedOf(ip) == [q \in Admitted(ip) |-> Entry(post[q].parsed, post[q].boot)]
HandedOf       == [q \in Handed |-> Entry(post[q].handed, post[q].boot)]
FiledOf        == [q \in Filed |-> Entry(post[q].filed, post[q].boot)]

IpBudget ==
  /\ IpL!InOrder(limiter, clock)
  /\ \A ip \in Ips :
       Ledger(AdmittedOf(ip), IpCount(limiter, ip), boot, clock, IpLimit, Hour)

MailBudget ==
  /\ GlobalL!InOrder(globalLimiter, clock)
  /\ Ledger(HandedOf, GlobalCount(globalLimiter), boot, clock, GlobalLimit, Hour)

IssueBudget ==
  /\ GithubL!InOrder(ghLimiter, clock)
  /\ Ledger(FiledOf, GithubCount(ghLimiter), boot, clock, GithubCap, Day)

\* The charges of boot b in the window that ends at t.
Behind(c, b, t, win) ==
  {q \in DOMAIN c : c[q].boot = b /\ c[q].at <= t /\ c[q].at > t - win}

\* BreakerJustified, in the words of the ledger.
BreakerBehind ==
  \A p \in Posts : post[p].answer = "rate_limited_global" =>
    LET S == Behind(HandedOf, post[p].boot, post[p].ended, Hour)
    IN  IsFiniteSet(S) /\ Cardinality(S) >= GlobalLimit

\* A POST is charged to a limiter when it leaves a stage, not before; nothing
\* lies in the future.
Charges(r) ==
  /\ r.stage \in {"unsent", "reading"} => r.parsed = Never
  /\ r.stage \in {"unsent", "reading", "admitted"} => r.handed = Never
  /\ r.stage \in {"unsent", "reading", "admitted", "sending", "mailed"} =>
       r.filed = Never
  /\ r.parsed <= clock /\ r.handed <= clock /\ r.filed <= clock
  /\ r.stage # "unsent" => r.boot \in 1..boot

ChargesFollowStage == \A p \in Posts : Charges(post[p])

\* Sets and functions of the POSTs that a step leaves alone.
LEMMA SameHanded ==
  ASSUME TypeOK, NEW p \in Posts, NEW r \in PostType, Step(p, r),
         r.handed = post[p].handed, r.handed = Never \/ r.boot = post[p].boot
  PROVE  HandedOf' = HandedOf
<1>1. post'[p] = r /\ \A q \in Posts \ {p} : post'[q] = post[q]
  BY StepType
<1>2. Handed' = Handed
  BY <1>1 DEF Handed
<1>3. \A q \in Handed : post'[q].handed = post[q].handed /\ post'[q].boot = post[q].boot
  BY <1>1 DEF Handed
<1> QED BY <1>2, <1>3 DEF HandedOf

\* The same for what is filed.
LEMMA SameFiled ==
  ASSUME TypeOK, NEW p \in Posts, NEW r \in PostType, Step(p, r),
         r.filed = post[p].filed, r.filed = Never \/ r.boot = post[p].boot
  PROVE  FiledOf' = FiledOf
<1>1. post'[p] = r /\ \A q \in Posts \ {p} : post'[q] = post[q]
  BY StepType
<1>2. Filed' = Filed
  BY <1>1 DEF Filed
<1>3. \A q \in Filed : post'[q].filed = post[q].filed /\ post'[q].boot = post[q].boot
  BY <1>1 DEF Filed
<1> QED BY <1>2, <1>3 DEF FiledOf

\* The same for the admissions of an address; a refused POST is none.
LEMMA SameAdmitted ==
  ASSUME TypeOK, NEW p \in Posts, NEW r \in PostType, Step(p, r), NEW ip,
         \/ p \notin Admitted(ip) /\ (r.ip # ip \/ r.parsed = Never
                                               \/ r.answer = "rate_limited_ip")
         \/ /\ p \in Admitted(ip) /\ r.ip = post[p].ip /\ r.parsed = post[p].parsed
            /\ r.boot = post[p].boot /\ r.answer # "rate_limited_ip"
  PROVE  AdmittedOf(ip)' = AdmittedOf(ip)
<1>1. post'[p] = r /\ \A q \in Posts \ {p} : post'[q] = post[q]
  BY StepType
<1>2. Admitted(ip)' = Admitted(ip)
  BY <1>1 DEF Admitted
<1>3. \A q \in Admitted(ip) : /\ post'[q].parsed = post[q].parsed
                              /\ post'[q].boot = post[q].boot
  BY <1>1 DEF Admitted
<1> QED BY <1>2, <1>3 DEF AdmittedOf

\* The mail of p is given to the relay.
LEMMA ChargeHanded ==
  ASSUME TypeOK, NEW p \in Posts, NEW r \in PostType, Step(p, r),
         post[p].handed = Never, r.handed = clock, r.boot = boot
  PROVE  p \notin DOMAIN HandedOf /\ HandedOf' = Charged(HandedOf, p, clock, boot)
<1>1. post'[p] = r /\ \A q \in Posts \ {p} : post'[q] = post[q]
  BY StepType
<1>2. clock # Never
  BY DEF TypeOK, Never
<1>3. Handed' = Handed \cup {p} /\ p \notin Handed
  BY <1>1, <1>2 DEF Handed
<1>4. \A q \in Handed' : Entry(post'[q].handed, post'[q].boot)
                           = IF q = p THEN Entry(clock, boot)
                                      ELSE Entry(post[q].handed, post[q].boot)
  BY <1>1, <1>3 DEF Handed
<1> QED BY <1>3, <1>4 DEF HandedOf, Charged, Entry

\* Its issue is filed.
LEMMA ChargeFiled ==
  ASSUME TypeOK, NEW p \in Posts, NEW r \in PostType, Step(p, r),
         post[p].filed = Never, r.filed = clock, r.boot = boot
  PROVE  p \notin DOMAIN FiledOf /\ FiledOf' = Charged(FiledOf, p, clock, boot)
<1>1. post'[p] = r /\ \A q \in Posts \ {p} : post'[q] = post[q]
  BY StepType
<1>2. clock # Never
  BY DEF TypeOK, Never
<1>3. Filed' = Filed \cup {p} /\ p \notin Filed
  BY <1>1, <1>2 DEF Filed
<1>4. \A q \in Filed' : Entry(post'[q].filed, post'[q].boot)
                          = IF q = p THEN Entry(clock, boot)
                                     ELSE Entry(post[q].filed, post[q].boot)
  BY <1>1, <1>3 DEF Filed
<1> QED BY <1>3, <1>4 DEF FiledOf, Charged, Entry

\* The POST of p is admitted.
LEMMA ChargeAdmitted ==
  ASSUME TypeOK, NEW p \in Posts, NEW r \in PostType, Step(p, r),
         post[p].parsed = Never, r.parsed = clock, r.boot = boot,
         r.answer # "rate_limited_ip"
  PROVE  /\ p \notin DOMAIN AdmittedOf(r.ip)
         /\ AdmittedOf(r.ip)' = Charged(AdmittedOf(r.ip), p, clock, boot)
<1> DEFINE ip == r.ip
<1>1. post'[p] = r /\ \A q \in Posts \ {p} : post'[q] = post[q]
  BY StepType
<1>2. clock # Never
  BY DEF TypeOK, Never
<1>3. Admitted(ip)' = Admitted(ip) \cup {p} /\ p \notin Admitted(ip)
  BY <1>1, <1>2 DEF Admitted
<1>4. \A q \in Admitted(ip)' : Entry(post'[q].parsed, post'[q].boot)
                                 = IF q = p THEN Entry(clock, boot)
                                            ELSE Entry(post[q].parsed, post[q].boot)
  BY <1>1, <1>3 DEF Admitted
<1> QED BY <1>3, <1>4 DEF AdmittedOf, Charged, Entry

-----------------------------------------------------------------------------
(* What a step of a handler does to the budgets                            *)

\* The stages and the charges of the other POSTs stay as they are.
LEMMA ChargesStep ==
  ASSUME TypeOK, ChargesFollowStage, NEW p \in Posts, NEW r \in PostType, Step(p, r),
         Charges(r), UNCHANGED <<clock, boot>>
  PROVE  ChargesFollowStage'
<1>1. post'[p] = r /\ \A q \in Posts \ {p} : post'[q] = post[q]
  BY StepType
<1>2. ASSUME NEW q \in Posts PROVE Charges(post[q])'
  <2>1. CASE q = p
    BY <2>1, <1>1 DEF Charges
  <2>2. CASE q # p
    BY <2>2, <1>1 DEF Charges, ChargesFollowStage
  <2> QED BY <2>1, <2>2
<1> QED BY <1>2 DEF ChargesFollowStage

\* One more mail in the ledger is one more, or none, behind a refusal.
LEMMA BehindGrows ==
  ASSUME NEW c, NEW p, p \notin DOMAIN c, NEW now, NEW cur, NEW b, NEW t, NEW win,
         IsFiniteSet(Behind(c, b, t, win))
  PROVE  /\ IsFiniteSet(Behind(Charged(c, p, now, cur), b, t, win))
         /\ Cardinality(Behind(Charged(c, p, now, cur), b, t, win))
              >= Cardinality(Behind(c, b, t, win))
<1> DEFINE S == Behind(c, b, t, win)
           T == Behind(Charged(c, p, now, cur), b, t, win)
<1>1. p \notin S /\ (T = S \/ T = S \cup {p})
  BY DEF Behind, Charged
<1> HIDE DEF S, T
<1>2. IsFiniteSet(S)
  BY DEF S
<1>3. /\ Cardinality(S) \in Nat /\ IsFiniteSet(S \cup {p})
      /\ Cardinality(S \cup {p}) = Cardinality(S) + 1
  BY <1>1, <1>2, FS_AddElement, FS_CardinalityType
<1>4. IsFiniteSet(T) /\ Cardinality(T) >= Cardinality(S)
  BY <1>1, <1>2, <1>3
<1> QED BY <1>4 DEF S, T

\* A mail more behind a refusal does no harm; a new refusal is told by a limiter
\* whose window is full.
LEMMA BreakerStep ==
  ASSUME TypeOK, MailBudget, BreakerBehind,
         NEW p \in Posts, NEW r \in PostType, Step(p, r),
         \/ HandedOf' = HandedOf
         \/ p \notin DOMAIN HandedOf /\ HandedOf' = Charged(HandedOf, p, clock, boot),
         \/ r.answer # "rate_limited_global"
         \/ /\ HandedOf' = HandedOf /\ r.ended = clock /\ r.boot = boot
            /\ ~(GlobalCount(globalLimiter)[clock - Hour] < GlobalLimit)
  PROVE  BreakerBehind'
<1>1. post'[p] = r /\ \A q \in Posts \ {p} : post'[q] = post[q]
  BY StepType
<1>2. ASSUME NEW q \in Posts, post'[q].answer = "rate_limited_global"
      PROVE  LET S == Behind(HandedOf', post'[q].boot, post'[q].ended, Hour)
             IN  IsFiniteSet(S) /\ Cardinality(S) >= GlobalLimit
  <2>1. CASE q # p
    <3> DEFINE b == post[q].boot
               t == post[q].ended
               S == Behind(HandedOf, b, t, Hour)
               T == Behind(HandedOf', b, t, Hour)
    <3>1. post'[q].boot = b /\ post'[q].ended = t
      BY <2>1, <1>1
    <3>2. IsFiniteSet(S) /\ Cardinality(S) >= GlobalLimit
      BY <2>1, <1>1, <1>2 DEF BreakerBehind
    <3>3. Cardinality(S) \in Nat
      BY <3>2, FS_CardinalityType
    <3>4. IsFiniteSet(T) /\ Cardinality(T) >= Cardinality(S)
      <4>1. CASE HandedOf' = HandedOf
        BY <4>1, <3>2, <3>3
      <4>2. CASE p \notin DOMAIN HandedOf /\ HandedOf' = Charged(HandedOf, p, clock, boot)
        BY <4>2, <3>2, BehindGrows
      <4> QED BY <4>1, <4>2
    <3>5. Cardinality(T) \in Nat
      BY <3>4, FS_CardinalityType
    <3> HIDE DEF S
    <3>6. IsFiniteSet(T) /\ Cardinality(T) >= GlobalLimit
      BY <3>2, <3>3, <3>4, <3>5, ContactConfig
    <3> QED BY <3>1, <3>6
  <2>2. CASE q = p
    <3>1. /\ HandedOf' = HandedOf /\ r.ended = clock /\ r.boot = boot
          /\ ~(GlobalCount(globalLimiter)[clock - Hour] < GlobalLimit)
      BY <2>2, <1>1, <1>2
    <3> DEFINE S == Since(HandedOf, boot, clock - Hour)
    <3>2. clock - Hour \in Int
      BY ContactConfig DEF TypeOK
    <3>3. IsFiniteSet(S) /\ Cardinality(S) = GlobalCount(globalLimiter)[clock - Hour]
      BY <3>2 DEF MailBudget, Ledger
    <3>4. Cardinality(S) \in Nat
      BY <3>3, FS_CardinalityType
    <3>5. Behind(HandedOf, boot, clock, Hour) = S
      <4>1. \A x \in DOMAIN HandedOf : HandedOf[x].at <= clock
        BY DEF MailBudget, Ledger, TypeOK
      <4> QED BY <4>1 DEF Behind, Since
    <3> HIDE DEF S
    <3>6. IsFiniteSet(S) /\ Cardinality(S) >= GlobalLimit
      BY <3>1, <3>3, <3>4, ContactConfig
    <3> QED BY <2>2, <1>1, <3>1, <3>5, <3>6
  <2> QED BY <2>1, <2>2
<1> QED BY <1>2 DEF BreakerBehind

\* The budgets that have one key.
BudgetInv == ChargesFollowStage /\ MailBudget /\ IssueBudget /\ BreakerBehind

\* A step that charges no global limiter.
LEMMA PlainStep ==
  ASSUME TypeOK, BudgetInv, NEW p \in Posts, NEW r \in PostType, Step(p, r), Charges(r),
         UNCHANGED <<clock, boot, globalLimiter, ghLimiter>>,
         r.handed = post[p].handed, r.filed = post[p].filed,
         (r.handed = Never /\ r.filed = Never) \/ r.boot = post[p].boot,
         r.answer # "rate_limited_global"
  PROVE  BudgetInv'
<1>1. HandedOf' = HandedOf /\ FiledOf' = FiledOf
  BY SameHanded, SameFiled
<1>2. ChargesFollowStage'
  BY ChargesStep DEF BudgetInv
<1>3. BreakerBehind'
  BY <1>1, BreakerStep DEF BudgetInv
<1>4. MailBudget' /\ IssueBudget'
  BY <1>1 DEF BudgetInv, MailBudget, IssueBudget
<1> QED BY <1>2, <1>3, <1>4 DEF BudgetInv

-----------------------------------------------------------------------------
(* One lemma per action that can disturb the global budgets                *)

\* What is known of a POST at its next step.
LEMMA AtCharges ==
  ASSUME HonestInv, ChargesFollowStage, NEW p \in Posts, NEW stage, At(p, stage)
  PROVE  /\ TypeOK /\ post[p] \in PostType /\ post[p].stage = stage /\ Charges(post[p])
         /\ stage \notin {"unsent", "done", "killed"} => post[p].boot = boot
         /\ stage # "done" => post[p].answer = "none"
  BY AtStage DEF ChargesFollowStage, HonestInv

\* The handler answers; its limiters are charged before, or not at all.
LEMMA AnswerBudget ==
  ASSUME HonestInv, BudgetInv, NEW p \in Posts, NEW q \in PostType, Charges(q),
         q.handed = post[p].handed, q.filed = post[p].filed,
         q.boot = post[p].boot, q.stage # "unsent",
         NEW a \in Answers, a # "rate_limited_global",
         Step(p, Answered(q, a)), UNCHANGED <<clock, boot, globalLimiter, ghLimiter>>
  PROVE  BudgetInv'
<1> DEFINE r == Answered(q, a)
<1>1. r \in PostType /\ r.answer = a /\ r.stage = "done"
  BY AnsweredType DEF HonestInv
<1>2. /\ r.parsed = q.parsed /\ r.handed = q.handed /\ r.filed = q.filed
      /\ r.boot = q.boot
  BY DEF Answered, PostType
<1>3. Step(p, r)
  OBVIOUS
<1> HIDE DEF r
<1>4. Charges(r)
  BY <1>1, <1>2 DEF Charges
<1> QED BY <1>1, <1>2, <1>3, <1>4, PlainStep DEF HonestInv

\* A POST arrives, with nothing charged.
LEMMA ArriveBudget == ASSUME HonestInv, BudgetInv, NEW p \in Posts, Arrive(p) PROVE BudgetInv'
<1>1. PICK ip \in Ips, flaws \in Offers :
        Step(p, [Unsent EXCEPT !.stage = "reading", !.ip = ip, !.flaws = flaws,
                               !.due = Until(ReadTimeout), !.began = clock,
                               !.boot = boot])
  BY DEF Arrive
<1> DEFINE r == [Unsent EXCEPT !.stage = "reading", !.ip = ip, !.flaws = flaws,
                               !.due = Until(ReadTimeout), !.began = clock,
                               !.boot = boot]
<1>2. Until(ReadTimeout) \in Time /\ clock \in Time /\ Never \in Time
  BY UntilIsTime, ContactConfig DEF HonestInv, Time
<1>3. boot \in 1..MaxBoots /\ boot \in 0..MaxBoots /\ 0 \in 0..MaxBoots
  BY ContactConfig DEF HonestInv, TypeOK
<1>4. flaws \in SUBSET Flaws
  BY ContactConfig
<1>5. /\ r \in PostType /\ r.stage = "reading" /\ r.answer = "none" /\ r.boot = boot
      /\ r.parsed = Never /\ r.handed = Never /\ r.filed = Never
  BY <1>2, <1>3, <1>4 DEF Unsent, PostType, Stages, Answers
<1>6. post[p].handed = Never /\ post[p].filed = Never
  BY DEF Arrive, BudgetInv, ChargesFollowStage, Charges
<1>7. Step(p, r) /\ UNCHANGED <<clock, boot, globalLimiter, ghLimiter>>
  BY <1>1 DEF Arrive, process, limiters
<1> HIDE DEF r
<1>8. Charges(r)
  BY <1>3, <1>5 DEF Charges, HonestInv, TypeOK, Never
<1> QED BY <1>5, <1>6, <1>7, <1>8, PlainStep DEF HonestInv

\* The body fails.
LEMMA BodyFailsBudget ==
  ASSUME HonestInv, BudgetInv, NEW p \in Posts, BodyFails(p) PROVE BudgetInv'
<1>1. PICK a \in {"too_large", "unreadable"} : Step(p, Answered(post[p], a))
  BY DEF BodyFails
<1>2. /\ post[p] \in PostType /\ Charges(post[p]) /\ post[p].stage = "reading"
      /\ UNCHANGED <<clock, boot, globalLimiter, ghLimiter>>
  BY AtCharges DEF BodyFails, BudgetInv, process, limiters
<1>3. a \in Answers /\ a # "rate_limited_global"
  BY DEF Answers
<1> QED BY <1>1, <1>2, <1>3, AnswerBudget

\* The attempt is charged to its address only.
LEMMA ParseFormBudget ==
  ASSUME HonestInv, BudgetInv, NEW p \in Posts, ParseForm(p) PROVE BudgetInv'
<1> DEFINE q == [post[p] EXCEPT !.parsed = clock]
           r == [q EXCEPT !.stage = "admitted"]
<1>1. Step(p, r) \/ Step(p, Answered(q, "rate_limited_ip"))
  BY DEF ParseForm
<1>2. /\ post[p] \in PostType /\ Charges(post[p]) /\ post[p].answer = "none"
      /\ post[p].stage = "reading" /\ post[p].boot = boot
      /\ UNCHANGED <<clock, boot, globalLimiter, ghLimiter>>
  BY AtCharges DEF ParseForm, BudgetInv, process
<1>3. /\ q \in PostType /\ r \in PostType /\ r.stage = "admitted" /\ r.answer = "none"
      /\ q.stage = "reading" /\ r.parsed = clock /\ q.parsed = clock
      /\ r.handed = post[p].handed /\ q.handed = post[p].handed
      /\ r.filed = post[p].filed /\ q.filed = post[p].filed
      /\ r.boot = boot /\ q.boot = boot
  <2>1. clock \in Time
    BY DEF HonestInv, TypeOK, Time
  <2> QED BY <2>1, <1>2 DEF PostType, Stages
<1>4. "rate_limited_ip" \in Answers
  BY DEF Answers
<1> HIDE DEF q, r
<1>5. CASE Step(p, r)
  <2>1. Charges(r)
    BY <1>2, <1>3 DEF Charges, HonestInv, TypeOK
  <2> QED BY <2>1, <1>2, <1>3, <1>5, PlainStep DEF HonestInv
<1>6. CASE Step(p, Answered(q, "rate_limited_ip"))
  <2> DEFINE s == Answered(q, "rate_limited_ip")
  <2>1. s \in PostType /\ s.answer = "rate_limited_ip" /\ s.stage = "done"
    BY <1>3, <1>4, AnsweredType DEF HonestInv
  <2>2. /\ s.parsed = q.parsed /\ s.handed = q.handed /\ s.filed = q.filed
        /\ s.boot = q.boot
    BY <1>3 DEF Answered, PostType
  <2>3. Step(p, s)
    BY <1>6
  <2> HIDE DEF s
  <2>4. Charges(s)
    BY <2>1, <2>2, <1>2, <1>3 DEF Charges, HonestInv, TypeOK
  <2> QED BY <2>1, <2>2, <2>3, <2>4, <1>2, <1>3, PlainStep DEF HonestInv
<1> QED BY <1>1, <1>5, <1>6

\* The POST is refused before the circuit-breaker is asked (issue 43).
LEMMA ScreenBudget == ASSUME HonestInv, BudgetInv, NEW p \in Posts, Screen(p) PROVE BudgetInv'
<1>1. /\ post[p] \in PostType /\ Charges(post[p]) /\ post[p].stage = "admitted"
      /\ UNCHANGED <<clock, boot, globalLimiter, ghLimiter>>
  BY AtCharges DEF Screen, BudgetInv, process, limiters
<1>2. /\ Step(p, Answered(post[p], Refusal(post[p])))
      /\ Refusal(post[p]) \in Answers
      /\ Refusal(post[p]) # "rate_limited_global"
  BY DEF Screen, Refusal, Answers
<1> QED BY <1>1, <1>2, AnswerBudget

\* The circuit-breaker is charged, or it refuses.
LEMMA HandToMailerBudget ==
  ASSUME HonestInv, BudgetInv, NEW p \in Posts, HandToMailer(p) PROVE BudgetInv'
<1> DEFINE r == [post[p] EXCEPT !.stage = "sending", !.handed = clock,
                                !.due = Until(SendTimeout)]
           s == Answered(post[p], "rate_limited_global")
<1>1. /\ TypeOK /\ post[p] \in PostType /\ Charges(post[p]) /\ post[p].answer = "none"
      /\ post[p].stage = "admitted" /\ post[p].boot = boot
      /\ UNCHANGED <<clock, boot, ghLimiter>>
  BY AtCharges DEF HandToMailer, BudgetInv, process
<1>2. post[p].handed = Never /\ post[p].filed = Never
  BY <1>1 DEF Charges
<1>3. PICK o \in GlobalLimiter!Allow(globalLimiter, "global", clock,
                                     GlobalLimiter!NextNumber(globalLimiter)) :
        /\ globalLimiter' = o.rl
        /\ (o.ok /\ Step(p, r)) \/ (~o.ok /\ Step(p, s))
  BY DEF HandToMailer
<1>4. /\ r \in PostType /\ r.stage = "sending" /\ r.answer = "none" /\ r.boot = boot
      /\ r.parsed = post[p].parsed /\ r.handed = clock /\ r.filed = Never
  <2>1. clock \in Time /\ Until(SendTimeout) \in Time
    BY UntilIsTime, ContactConfig DEF HonestInv
  <2> QED BY <2>1, <1>1, <1>2 DEF PostType, Stages
<1>5. s \in PostType /\ s.answer = "rate_limited_global" /\ s.stage = "done"
  <2>1. "rate_limited_global" \in Answers
    BY DEF Answers
  <2> QED BY <2>1, <1>1, AnsweredType
<1>6. /\ s.parsed = post[p].parsed /\ s.handed = Never /\ s.filed = Never
      /\ s.boot = boot /\ s.ended = clock
  BY <1>1, <1>2 DEF Answered, PostType
<1> HIDE DEF r, s
<1>7. clock \in Nat /\ Hour \in Nat \ {0} /\ GlobalLimit \in Nat /\ boot \in Nat \ {0}
  BY <1>1, ContactConfig DEF TypeOK
<1>8. /\ GlobalL!InOrder(o.rl, clock) /\ o.ok \in BOOLEAN
      /\ o.ok <=> GlobalCount(globalLimiter)[clock - Hour] < GlobalLimit
      /\ Counted(GlobalCount(globalLimiter), GlobalCount(o.rl), o.ok, clock, Hour)
  BY <1>3, <1>7, GlobalAllow DEF BudgetInv, MailBudget
<1>9. CASE o.ok
  <2>1. Step(p, r) /\ Charges(r)
    BY <1>1, <1>3, <1>4, <1>7, <1>9 DEF Charges
  <2>2. p \notin DOMAIN HandedOf /\ HandedOf' = Charged(HandedOf, p, clock, boot)
    BY <2>1, <1>1, <1>2, <1>4, ChargeHanded
  <2>3. FiledOf' = FiledOf
    BY <2>1, <1>1, <1>2, <1>4, SameFiled
  <2>4. Ledger(HandedOf, GlobalCount(globalLimiter), boot, clock, GlobalLimit, Hour)
    BY DEF BudgetInv, MailBudget
  <2>5. Counted(GlobalCount(globalLimiter), GlobalCount(o.rl), TRUE, clock, Hour)
    BY <1>8, <1>9 DEF Counted
  <2>6. Ledger(Charged(HandedOf, p, clock, boot), GlobalCount(o.rl), boot, clock,
               GlobalLimit, Hour)
    BY <2>2, <2>4, <2>5, <1>7, <1>8, <1>9, ChargeLedger
  <2>7. MailBudget'
    BY <2>2, <2>6, <1>1, <1>3, <1>8 DEF MailBudget
  <2>8. IssueBudget'
    BY <2>3, <1>1 DEF BudgetInv, IssueBudget
  <2>9. BreakerBehind'
    BY <2>1, <2>2, <1>1, <1>4, BreakerStep DEF BudgetInv
  <2>10. ChargesFollowStage'
    BY <2>1, <1>1, <1>4, ChargesStep DEF BudgetInv
  <2> QED BY <2>7, <2>8, <2>9, <2>10 DEF BudgetInv
<1>10. CASE ~o.ok
  <2>1. Step(p, s) /\ Charges(s)
    BY <1>1, <1>3, <1>5, <1>6, <1>7, <1>10 DEF Charges, Never
  <2>2. HandedOf' = HandedOf /\ FiledOf' = FiledOf
    BY <2>1, <1>1, <1>2, <1>5, <1>6, SameHanded, SameFiled
  <2>3. Ledger(HandedOf, GlobalCount(globalLimiter), boot, clock, GlobalLimit, Hour)
    BY DEF BudgetInv, MailBudget
  <2>4. \A t \in Int : t >= clock - Hour =>
          GlobalCount(o.rl)[t] = GlobalCount(globalLimiter)[t]
    <3>1. ASSUME NEW t \in Int, t >= clock - Hour
          PROVE  GlobalCount(o.rl)[t] = GlobalCount(globalLimiter)[t] + 0
      BY <3>1, <1>8, <1>10 DEF Counted
    <3>2. ASSUME NEW t \in Int, t >= clock - Hour
          PROVE  GlobalCount(globalLimiter)[t] \in Nat
      BY <3>2, <2>3, FS_CardinalityType DEF Ledger
    <3> QED BY <3>1, <3>2
  <2>5. Ledger(HandedOf, GlobalCount(o.rl), boot, clock, GlobalLimit, Hour)
    BY <2>3, <2>4, <1>7, IdleLedger
  <2>6. MailBudget'
    BY <2>2, <2>5, <1>1, <1>3, <1>8 DEF MailBudget
  <2>7. IssueBudget'
    BY <2>2, <1>1 DEF BudgetInv, IssueBudget
  <2>8. BreakerBehind'
    BY <2>1, <2>2, <1>1, <1>5, <1>6, <1>8, <1>10, BreakerStep DEF BudgetInv
  <2>9. ChargesFollowStage'
    BY <2>1, <1>1, <1>5, ChargesStep DEF BudgetInv
  <2> QED BY <2>6, <2>7, <2>8, <2>9 DEF BudgetInv
<1> QED BY <1>9, <1>10

\* The submission is answered, or its issue charged to the cap and on its way.
LEMMA FileIssueBudget ==
  ASSUME HonestInv, BudgetInv, NEW p \in Posts, FileIssue(p) PROVE BudgetInv'
<1> DEFINE r == [post[p] EXCEPT !.stage = "filing", !.filed = clock,
                                !.due = Until(GithubPatience)]
           q == [post[p] EXCEPT !.github = "capped"]
<1>1. /\ TypeOK /\ post[p] \in PostType /\ Charges(post[p]) /\ post[p].answer = "none"
      /\ post[p].stage = "mailed" /\ post[p].boot = boot
      /\ UNCHANGED <<clock, boot, globalLimiter>>
  BY AtCharges DEF FileIssue, BudgetInv, process
<1>2. post[p].filed = Never /\ "sent" \in Answers /\ "sent" # "rate_limited_global"
  BY <1>1 DEF Charges, Answers
<1>3. CASE ~config.github
  <2>1. Step(p, Answered(post[p], "sent")) /\ ghLimiter' = ghLimiter
    BY <1>3 DEF FileIssue
  <2> QED BY <2>1, <1>1, <1>2, AnswerBudget
<1>4. CASE config.github
  <2>1. PICK o \in GithubLimiter!Allow(ghLimiter, "github", clock,
                                       GithubLimiter!NextNumber(ghLimiter)) :
          /\ ghLimiter' = o.rl
          /\ (o.ok /\ Step(p, r)) \/ (~o.ok /\ Step(p, Answered(q, "sent")))
    BY <1>4 DEF FileIssue
  <2>2. /\ r \in PostType /\ r.stage = "filing" /\ r.answer = "none" /\ r.boot = boot
        /\ r.parsed = post[p].parsed /\ r.handed = post[p].handed /\ r.filed = clock
    <3>1. clock \in Time /\ Until(GithubPatience) \in Time
      BY UntilIsTime, ContactConfig DEF HonestInv, GithubPatience
    <3> QED BY <3>1, <1>1 DEF PostType, Stages
  <2>3. /\ q \in PostType /\ Charges(q) /\ q.stage = "mailed"
        /\ q.handed = post[p].handed /\ q.filed = Never /\ q.boot = boot
    <3>1. /\ q \in PostType /\ q.stage = "mailed" /\ q.parsed = post[p].parsed
          /\ q.handed = post[p].handed /\ q.filed = Never /\ q.boot = boot
      BY <1>1, <1>2 DEF PostType
    <3> HIDE DEF q
    <3> QED BY <3>1, <1>1 DEF Charges
  <2> HIDE DEF r, q
  <2>4. clock \in Nat /\ Day \in Nat \ {0} /\ GithubCap \in Nat /\ boot \in Nat \ {0}
    BY <1>1, ContactConfig DEF TypeOK
  <2>5. /\ GithubL!InOrder(o.rl, clock) /\ o.ok \in BOOLEAN
        /\ o.ok <=> GithubCount(ghLimiter)[clock - Day] < GithubCap
        /\ Counted(GithubCount(ghLimiter), GithubCount(o.rl), o.ok, clock, Day)
    BY <2>1, <2>4, GithubAllow DEF BudgetInv, IssueBudget
  <2>6. Ledger(FiledOf, GithubCount(ghLimiter), boot, clock, GithubCap, Day)
    BY DEF BudgetInv, IssueBudget
  <2>7. CASE o.ok
    <3>1. Step(p, r) /\ Charges(r)
      BY <1>1, <2>1, <2>2, <2>4, <2>7 DEF Charges
    <3>2. p \notin DOMAIN FiledOf /\ FiledOf' = Charged(FiledOf, p, clock, boot)
      BY <3>1, <1>1, <1>2, <2>2, ChargeFiled
    <3>3. HandedOf' = HandedOf
      BY <3>1, <1>1, <2>2, SameHanded
    <3>4. Counted(GithubCount(ghLimiter), GithubCount(o.rl), TRUE, clock, Day)
      BY <2>5, <2>7 DEF Counted
    <3>5. Ledger(Charged(FiledOf, p, clock, boot), GithubCount(o.rl), boot, clock,
                 GithubCap, Day)
      BY <3>2, <3>4, <2>4, <2>5, <2>6, <2>7, ChargeLedger
    <3>6. IssueBudget'
      BY <3>2, <3>5, <1>1, <2>1, <2>5 DEF IssueBudget
    <3>7. MailBudget'
      BY <3>3, <1>1 DEF BudgetInv, MailBudget
    <3>8. BreakerBehind'
      BY <3>1, <3>3, <1>1, <2>2, BreakerStep DEF BudgetInv
    <3>9. ChargesFollowStage'
      BY <3>1, <1>1, <2>2, ChargesStep DEF BudgetInv
    <3> QED BY <3>6, <3>7, <3>8, <3>9 DEF BudgetInv
  <2>8. CASE ~o.ok
    <3> DEFINE s == Answered(q, "sent")
    <3>1. s \in PostType /\ s.answer = "sent" /\ s.stage = "done"
      BY <2>3, <1>1, <1>2, AnsweredType
    <3>2. /\ s.parsed = q.parsed /\ s.handed = q.handed /\ s.filed = q.filed
          /\ s.boot = q.boot
      BY <2>3 DEF Answered, PostType
    <3>3. Step(p, s)
      BY <2>1, <2>8
    <3> HIDE DEF s
    <3>4. Charges(s)
      BY <3>1, <3>2, <2>3, <2>4 DEF Charges
    <3>5. HandedOf' = HandedOf /\ FiledOf' = FiledOf
      BY <3>1, <3>2, <3>3, <1>1, <1>2, <2>3, SameHanded, SameFiled
    <3>6. \A t \in Int : t >= clock - Day => GithubCount(o.rl)[t] = GithubCount(ghLimiter)[t]
      <4>1. ASSUME NEW t \in Int, t >= clock - Day
            PROVE  GithubCount(o.rl)[t] = GithubCount(ghLimiter)[t] + 0
        BY <4>1, <2>5, <2>8 DEF Counted
      <4>2. ASSUME NEW t \in Int, t >= clock - Day PROVE GithubCount(ghLimiter)[t] \in Nat
        BY <4>2, <2>6, FS_CardinalityType DEF Ledger
      <4> QED BY <4>1, <4>2
    <3>7. Ledger(FiledOf, GithubCount(o.rl), boot, clock, GithubCap, Day)
      BY <2>4, <2>6, <3>6, IdleLedger
    <3>8. IssueBudget'
      BY <3>5, <3>7, <1>1, <2>1, <2>5 DEF IssueBudget
    <3>9. MailBudget'
      BY <3>5, <1>1 DEF BudgetInv, MailBudget
    <3>10. BreakerBehind'
      BY <3>1, <3>3, <3>5, <1>1, BreakerStep DEF BudgetInv
    <3>11. ChargesFollowStage'
      BY <3>1, <3>3, <3>4, <1>1, ChargesStep DEF BudgetInv
    <3> QED BY <3>8, <3>9, <3>10, <3>11 DEF BudgetInv
  <2> QED BY <2>5, <2>7, <2>8
<1> QED BY <1>3, <1>4

\* The mail is out, or Send or CreateIssue returned.
LEMMA ReturnBudget ==
  ASSUME HonestInv, BudgetInv, NEW p \in Posts,
         SendSucceeds(p) \/ SendFails(p) \/ IssueFiled(p) \/ IssueFails(p)
  PROVE  BudgetInv'
<1>1. UNCHANGED <<clock, boot, globalLimiter, ghLimiter>>
  BY DEF SendSucceeds, SendFails, IssueFiled, IssueFails, process, limiters
<1>2. "sent" \in Answers /\ "send_failed" \in Answers
  BY DEF Answers
<1>3. CASE SendSucceeds(p)
  <2> DEFINE r == [post[p] EXCEPT !.stage = "mailed"]
  <2>1. /\ TypeOK /\ post[p] \in PostType /\ Charges(post[p]) /\ post[p].answer = "none"
        /\ post[p].stage = "sending" /\ post[p].boot = boot /\ Step(p, r)
    BY <1>3, AtCharges DEF SendSucceeds, BudgetInv
  <2>2. /\ r \in PostType /\ r.stage = "mailed" /\ r.answer = "none" /\ r.boot = post[p].boot
        /\ r.parsed = post[p].parsed /\ r.handed = post[p].handed /\ r.filed = post[p].filed
    BY <2>1 DEF PostType, Stages
  <2> HIDE DEF r
  <2>3. Charges(r)
    BY <2>1, <2>2 DEF Charges
  <2> QED BY <2>1, <2>2, <2>3, <1>1, PlainStep
<1>4. CASE SendFails(p)
  <2>1. /\ post[p] \in PostType /\ Charges(post[p]) /\ post[p].stage = "sending"
        /\ Step(p, Answered(post[p], "send_failed"))
    BY <1>4, AtCharges DEF SendFails, BudgetInv
  <2> QED BY <2>1, <1>1, <1>2, AnswerBudget
<1>5. CASE IssueFiled(p) \/ IssueFails(p)
  <2>1. PICK g \in {"filed", "failed"} :
          Step(p, Answered([post[p] EXCEPT !.github = g], "sent"))
    BY <1>5 DEF IssueFiled, IssueFails
  <2>2. post[p] \in PostType /\ Charges(post[p]) /\ post[p].stage = "filing"
    BY <1>5, AtCharges DEF IssueFiled, IssueFails, BudgetInv
  <2> DEFINE q == [post[p] EXCEPT !.github = g]
  <2>3. /\ q \in PostType /\ q.stage = "filing" /\ q.parsed = post[p].parsed
        /\ q.handed = post[p].handed /\ q.filed = post[p].filed /\ q.boot = post[p].boot
    BY <2>2 DEF PostType
  <2>4. Step(p, Answered(q, "sent"))
    BY <2>1
  <2> HIDE DEF q
  <2>5. Charges(q)
    BY <2>2, <2>3 DEF Charges
  <2> QED BY <2>3, <2>4, <2>5, <1>1, <1>2, AnswerBudget
<1> QED BY <1>3, <1>4, <1>5

\* The process ends: its handlers are killed, what they were charged stays.
LEMMA ExitCharges ==
  ASSUME HonestInv, ChargesFollowStage, Exit
  PROVE  /\ HandedOf' = HandedOf /\ FiledOf' = FiledOf
         /\ \A ip : AdmittedOf(ip)' = AdmittedOf(ip)
         /\ ChargesFollowStage'
         /\ \A p \in Posts : post'[p].answer = "rate_limited_global" =>
              post'[p] = post[p]
<1>1. /\ clock' = clock /\ boot' = boot
      /\ post' = [p \in Posts |-> IF p \in InFlight
                       THEN [post[p] EXCEPT !.stage = "killed", !.ended = clock]
                       ELSE post[p]]
  BY DEF Exit
<1>2. ASSUME NEW p \in Posts
      PROVE  /\ post'[p].parsed = post[p].parsed /\ post'[p].handed = post[p].handed
             /\ post'[p].filed = post[p].filed /\ post'[p].boot = post[p].boot
             /\ post'[p].ip = post[p].ip /\ post'[p].answer = post[p].answer
             /\ post'[p].stage = post[p].stage
                  \/ (post'[p].stage = "killed" /\ post[p].stage # "unsent")
             /\ post[p].answer # "none" => post'[p] = post[p]
  <2>1. post[p] \in PostType
    BY DEF HonestInv, TypeOK
  <2>2. CASE p \in InFlight
    <3> DEFINE r == [post[p] EXCEPT !.stage = "killed", !.ended = clock]
    <3>1. /\ r.parsed = post[p].parsed /\ r.handed = post[p].handed
          /\ r.filed = post[p].filed /\ r.boot = post[p].boot
          /\ r.ip = post[p].ip /\ r.answer = post[p].answer /\ r.stage = "killed"
      BY <2>1 DEF PostType
    <3>2. post'[p] = r
      BY <1>1, <2>2
    <3> HIDE DEF r
    <3>3. post[p].answer = "none" /\ post[p].stage # "unsent"
      BY <2>2 DEF InFlight, HonestInv, MailFollowsStage
    <3> QED BY <3>1, <3>2, <3>3
  <2>3. CASE p \notin InFlight
    BY <2>3, <1>1
  <2> QED BY <2>2, <2>3
<1>3. Handed' = Handed /\ Filed' = Filed
  BY <1>2 DEF Handed, Filed
<1>4. HandedOf' = HandedOf /\ FiledOf' = FiledOf
  <2>1. \A p \in Handed : post'[p].handed = post[p].handed /\ post'[p].boot = post[p].boot
    BY <1>2 DEF Handed
  <2>2. \A p \in Filed : post'[p].filed = post[p].filed /\ post'[p].boot = post[p].boot
    BY <1>2 DEF Filed
  <2> QED BY <1>3, <2>1, <2>2 DEF HandedOf, FiledOf
<1>5. ASSUME NEW ip PROVE AdmittedOf(ip)' = AdmittedOf(ip)
  <2>1. Admitted(ip)' = Admitted(ip)
    BY <1>2 DEF Admitted
  <2>2. \A p \in Admitted(ip) : post'[p].parsed = post[p].parsed /\ post'[p].boot = post[p].boot
    BY <1>2 DEF Admitted
  <2> QED BY <2>1, <2>2 DEF AdmittedOf
<1>6. ASSUME NEW p \in Posts PROVE Charges(post[p])'
  <2>1. Charges(post[p])
    BY DEF ChargesFollowStage
  <2> QED BY <2>1, <1>1, <1>2 DEF Charges
<1>7. \A p \in Posts : post'[p].answer = "rate_limited_global" => post'[p] = post[p]
  BY <1>2
<1> QED BY <1>4, <1>5, <1>6, <1>7 DEF ChargesFollowStage

\* ... and so the global budgets stay.
LEMMA ExitBudget == ASSUME HonestInv, BudgetInv, Exit PROVE BudgetInv'
<1>1. UNCHANGED <<clock, boot, globalLimiter, ghLimiter>>
  BY DEF Exit, limiters
<1>2. /\ HandedOf' = HandedOf /\ FiledOf' = FiledOf /\ ChargesFollowStage'
      /\ \A p \in Posts : post'[p].answer = "rate_limited_global" => post'[p] = post[p]
  BY ExitCharges DEF BudgetInv
<1>3. MailBudget' /\ IssueBudget'
  BY <1>1, <1>2 DEF BudgetInv, MailBudget, IssueBudget
<1>4. BreakerBehind'
  BY <1>2 DEF BudgetInv, BreakerBehind
<1> QED BY <1>2, <1>3, <1>4 DEF BudgetInv

\* Steps that change no POST and no limiter; time only goes forward.
LEMMA QuietBudget ==
  ASSUME HonestInv, BudgetInv, UNCHANGED <<post, boot, globalLimiter, ghLimiter>>,
         clock' \in Nat, clock <= clock'
  PROVE  BudgetInv'
<1>1. HandedOf' = HandedOf /\ FiledOf' = FiledOf
  BY DEF HandedOf, FiledOf, Handed, Filed
<1>2. /\ clock \in Nat /\ clock \in Int /\ clock' \in Int /\ boot \in Nat
      /\ Hour \in Nat /\ Day \in Nat
  BY ContactConfig DEF HonestInv, TypeOK
<1>3. MailBudget'
  <2>1. GlobalL!LimiterConfig /\ GlobalL!CallerConfig
    BY ContactConfig DEF GlobalL!LimiterConfig, GlobalL!CallerConfig
  <2>2. GlobalL!InOrder(globalLimiter, clock')
    BY <2>1, <1>2, GlobalL!StillInOrder DEF BudgetInv, MailBudget
  <2>3. Ledger(HandedOf, GlobalCount(globalLimiter), boot, clock', GlobalLimit, Hour)
    BY <1>2, IdleLedger DEF BudgetInv, MailBudget
  <2> QED BY <2>2, <2>3, <1>1 DEF MailBudget
<1>4. IssueBudget'
  <2>1. GithubL!LimiterConfig /\ GithubL!CallerConfig
    BY ContactConfig DEF GithubL!LimiterConfig, GithubL!CallerConfig
  <2>2. GithubL!InOrder(ghLimiter, clock')
    BY <2>1, <1>2, GithubL!StillInOrder DEF BudgetInv, IssueBudget
  <2>3. Ledger(FiledOf, GithubCount(ghLimiter), boot, clock', GithubCap, Day)
    BY <1>2, IdleLedger DEF BudgetInv, IssueBudget
  <2> QED BY <2>2, <2>3, <1>1 DEF IssueBudget
<1>5. BreakerBehind'
  BY <1>1 DEF BudgetInv, BreakerBehind
<1>6. ChargesFollowStage'
  <2>1. ASSUME NEW p \in Posts PROVE Charges(post[p])'
    <3>1. Charges(post[p]) /\ post[p] \in PostType
      BY DEF BudgetInv, ChargesFollowStage, HonestInv, TypeOK
    <3>2. post[p].parsed \in Int /\ post[p].handed \in Int /\ post[p].filed \in Int
      BY <3>1, ContactConfig DEF PostType, Time, Never
    <3> QED BY <3>1, <3>2, <1>2 DEF Charges
  <2> QED BY <2>1 DEF ChargesFollowStage
<1> QED BY <1>3, <1>4, <1>5, <1>6 DEF BudgetInv

\* A new limiter has counted nothing.
LEMMA NewCounts ==
  ASSUME NEW now \in Nat
  PROVE  /\ IpL!InOrder(IpLimiter!NewLimiter, now)
         /\ \A k, t : t \in Int => IpCount(IpLimiter!NewLimiter, k)[t] = 0
         /\ GlobalL!InOrder(GlobalLimiter!NewLimiter, now)
         /\ \A t \in Int : GlobalCount(GlobalLimiter!NewLimiter)[t] = 0
         /\ GithubL!InOrder(GithubLimiter!NewLimiter, now)
         /\ \A t \in Int : GithubCount(GithubLimiter!NewLimiter)[t] = 0
<1>1. Cardinality({}) = 0
  BY FS_EmptySet
<1>2. /\ IpL!InOrder(IpLimiter!NewLimiter, now)
      /\ \A k, t : t \in Int => IpCount(IpLimiter!NewLimiter, k)[t] = 0
  <2>1. IpL!LimiterConfig /\ IpL!CallerConfig
    BY ContactConfig DEF IpL!LimiterConfig, IpL!CallerConfig
  <2>2. /\ IpL!InOrder(IpL!NewLimiter, now)
        /\ \A k, t : IpL!HitsAfter(IpL!NewLimiter, k, t) = {}
    BY <2>1, IpL!NewInOrder
  <2>3. IpL!Cardinality({}) = 0
    BY <1>1 DEF IpL!Cardinality, Cardinality
  <2> QED BY <2>2, <2>3, SameIpLimiter DEF IpCount
<1>3. /\ GlobalL!InOrder(GlobalLimiter!NewLimiter, now)
      /\ \A t \in Int : GlobalCount(GlobalLimiter!NewLimiter)[t] = 0
  <2>1. GlobalL!LimiterConfig /\ GlobalL!CallerConfig
    BY ContactConfig DEF GlobalL!LimiterConfig, GlobalL!CallerConfig
  <2>2. /\ GlobalL!InOrder(GlobalL!NewLimiter, now)
        /\ \A k, t : GlobalL!HitsAfter(GlobalL!NewLimiter, k, t) = {}
    BY <2>1, GlobalL!NewInOrder
  <2>3. GlobalL!Cardinality({}) = 0
    BY <1>1 DEF GlobalL!Cardinality, Cardinality
  <2> QED BY <2>2, <2>3, SameGlobalLimiter DEF GlobalCount
<1>4. /\ GithubL!InOrder(GithubLimiter!NewLimiter, now)
      /\ \A t \in Int : GithubCount(GithubLimiter!NewLimiter)[t] = 0
  <2>1. GithubL!LimiterConfig /\ GithubL!CallerConfig
    BY ContactConfig DEF GithubL!LimiterConfig, GithubL!CallerConfig
  <2>2. /\ GithubL!InOrder(GithubL!NewLimiter, now)
        /\ \A k, t : GithubL!HitsAfter(GithubL!NewLimiter, k, t) = {}
    BY <2>1, GithubL!NewInOrder
  <2>3. GithubL!Cardinality({}) = 0
    BY <1>1 DEF GithubL!Cardinality, Cardinality
  <2> QED BY <2>2, <2>3, SameGithubLimiter DEF GithubCount
<1> QED BY <1>2, <1>3, <1>4

\* A restart empties the limiters, and begins a boot that has no charges.
LEMMA RestartBudget == ASSUME HonestInv, BudgetInv, Restart PROVE BudgetInv'
<1>1. /\ UNCHANGED <<post, clock>> /\ boot' = boot + 1
      /\ globalLimiter' = GlobalLimiter!NewLimiter
      /\ ghLimiter' = GithubLimiter!NewLimiter
  BY DEF Restart, FreshLimiters
<1>2. HandedOf' = HandedOf /\ FiledOf' = FiledOf
  BY <1>1 DEF HandedOf, FiledOf, Handed, Filed
<1>3. clock \in Nat /\ boot \in Nat /\ Hour \in Nat /\ Day \in Nat
  BY ContactConfig DEF HonestInv, TypeOK
<1>4. MailBudget'
  <2>1. Ledger(HandedOf, GlobalCount(GlobalLimiter!NewLimiter), boot + 1, clock,
               GlobalLimit, Hour)
    BY <1>3, NewCounts, BootLedger DEF BudgetInv, MailBudget
  <2>2. GlobalL!InOrder(GlobalLimiter!NewLimiter, clock)
    BY <1>3, NewCounts
  <2> QED BY <2>1, <2>2, <1>1, <1>2 DEF MailBudget
<1>5. IssueBudget'
  <2>1. Ledger(FiledOf, GithubCount(GithubLimiter!NewLimiter), boot + 1, clock,
               GithubCap, Day)
    BY <1>3, NewCounts, BootLedger DEF BudgetInv, IssueBudget
  <2>2. GithubL!InOrder(GithubLimiter!NewLimiter, clock)
    BY <1>3, NewCounts
  <2> QED BY <2>1, <2>2, <1>1, <1>2 DEF IssueBudget
<1>6. BreakerBehind'
  BY <1>1, <1>2 DEF BudgetInv, BreakerBehind
<1>7. ChargesFollowStage'
  <2>1. ASSUME NEW p \in Posts PROVE Charges(post[p])'
    <3>1. Charges(post[p])
      BY DEF BudgetInv, ChargesFollowStage
    <3>2. post[p].stage # "unsent" => post[p].boot \in 1..(boot + 1)
      BY <3>1, <1>3 DEF Charges
    <3> QED BY <3>1, <3>2, <1>1 DEF Charges
  <2> QED BY <2>1 DEF ChargesFollowStage
<1> QED BY <1>4, <1>5, <1>6, <1>7 DEF BudgetInv

\* An empty ledger is one.
LEMMA EmptyLedger ==
  ASSUME NEW win \in Nat, NEW limit, NEW now \in Nat, NEW cur \in Nat,
         NEW c, DOMAIN c = {}, NEW count, \A t \in Int : count[t] = 0
  PROVE  Ledger(c, count, cur, now, limit, win)
<1>1. \A t : Since(c, cur, t) = {}
  BY DEF Since
<1>2. IsFiniteSet({}) /\ Cardinality({}) = 0
  BY FS_EmptySet
<1> QED BY <1>1, <1>2 DEF Ledger

\* Nothing has been charged when the service starts.
LEMMA InitBudget == ASSUME Init PROVE BudgetInv
<1>1. /\ post = [p \in Posts |-> Unsent] /\ clock = 0 /\ boot = 1
      /\ globalLimiter = GlobalLimiter!NewLimiter
      /\ ghLimiter = GithubLimiter!NewLimiter
  BY DEF Init
<1>2. \A p \in Posts : /\ post[p].stage = "unsent" /\ post[p].answer = "none"
                       /\ post[p].parsed = Never /\ post[p].handed = Never
                       /\ post[p].filed = Never
  BY <1>1 DEF Unsent
<1>3. DOMAIN HandedOf = {} /\ DOMAIN FiledOf = {}
  BY <1>2 DEF HandedOf, FiledOf, Handed, Filed
<1>4. 0 \in Nat /\ 1 \in Nat /\ Hour \in Nat /\ Day \in Nat
  BY ContactConfig
<1>5. MailBudget
  BY <1>1, <1>3, <1>4, NewCounts, EmptyLedger DEF MailBudget
<1>6. IssueBudget
  BY <1>1, <1>3, <1>4, NewCounts, EmptyLedger DEF IssueBudget
<1>7. BreakerBehind /\ ChargesFollowStage
  BY <1>1, <1>2 DEF BreakerBehind, ChargesFollowStage, Charges, Never
<1> QED BY <1>5, <1>6, <1>7 DEF BudgetInv

\* The budgets with one key are invariant.
LEMMA BudgetInvariance == Spec => []BudgetInv
<1>1. Init => BudgetInv
  BY InitBudget
<1>2. HonestInv /\ BudgetInv /\ [Next]_vars => BudgetInv'
  <2> SUFFICES ASSUME HonestInv, BudgetInv, [Next]_vars PROVE BudgetInv'
    OBVIOUS
  <2>1. clock \in Nat
    BY ContactConfig DEF HonestInv, TypeOK
  <2>2. ASSUME NEW p \in Posts, Arrive(p) PROVE BudgetInv'
    BY <2>2, ArriveBudget
  <2>3. ASSUME NEW p \in Posts, Handler(p) PROVE BudgetInv'
    BY <2>3, BodyFailsBudget, ParseFormBudget, ScreenBudget, HandToMailerBudget,
       FileIssueBudget, ReturnBudget DEF Handler
  <2>4. ASSUME NEW p \in Posts, RelayDecides(p) \/ GithubDecides(p) PROVE BudgetInv'
    BY <2>1, <2>4, QuietBudget DEF RelayDecides, GithubDecides, process, limiters
  <2>5. CASE DrainEnds \/ Crash
    BY <2>5, ExitBudget DEF DrainEnds, Crash
  <2>6. CASE Sigterm \/ UNCHANGED vars
    BY <2>1, <2>6, QuietBudget DEF Sigterm, limiters, vars, process
  <2>7. CASE Restart
    BY <2>7, RestartBudget
  <2>8. CASE Tick
    BY <2>1, <2>8, QuietBudget DEF Tick, process, limiters
  <2> QED BY <2>2, <2>3, <2>4, <2>5, <2>6, <2>7, <2>8 DEF Next
<1> QED BY HonestInvariance, <1>1, <1>2, PTL DEF Spec

\* Junk cannot trip the circuit-breaker: a submission is refused by it only
\* when GlobalLimit mails of its hour were given to the relay.
THEOREM BreakerIsJustified == Spec => []BreakerJustified
<1>1. BudgetInv => BreakerJustified
  <2> SUFFICES ASSUME BudgetInv, NEW p \in Posts,
                      post[p].answer = "rate_limited_global"
               PROVE  Cardinality({q \in Handed : /\ post[q].boot = post[p].boot
                                                  /\ post[q].handed <= post[p].ended
                                                  /\ post[q].handed > post[p].ended - Hour})
                        >= GlobalLimit
    BY DEF BreakerJustified
  <2> DEFINE S == Behind(HandedOf, post[p].boot, post[p].ended, Hour)
  <2>1. Cardinality(S) >= GlobalLimit
    BY DEF BudgetInv, BreakerBehind
  <2>2. S = {q \in Handed : /\ post[q].boot = post[p].boot
                            /\ post[q].handed <= post[p].ended
                            /\ post[q].handed > post[p].ended - Hour}
    BY DEF Behind, HandedOf, Entry
  <2> QED BY <2>1, <2>2
<1> QED BY BudgetInvariance, <1>1, PTL

-----------------------------------------------------------------------------
(* The budget of the addresses                                             *)

\* There is room in the limiter's map for every address that comes.
FewAddresses == IsFiniteSet(Ips) /\ Cardinality(Ips) <= MaxKeys

\* A step of a handler that charges no address.
LEMMA IpPlain ==
  ASSUME TypeOK, IpBudget, NEW p \in Posts, NEW r \in PostType, Step(p, r),
         UNCHANGED <<clock, boot, limiter>>, r.parsed = post[p].parsed,
         \/ r.parsed = Never
         \/ /\ r.ip = post[p].ip /\ r.boot = post[p].boot
            /\ post[p].answer # "rate_limited_ip" /\ r.answer # "rate_limited_ip"
  PROVE  IpBudget'
<1>1. ASSUME NEW ip \in Ips PROVE AdmittedOf(ip)' = AdmittedOf(ip)
  <2>1. \/ p \notin Admitted(ip) /\ (r.ip # ip \/ r.parsed = Never
                                                \/ r.answer = "rate_limited_ip")
        \/ /\ p \in Admitted(ip) /\ r.ip = post[p].ip /\ r.parsed = post[p].parsed
           /\ r.boot = post[p].boot /\ r.answer # "rate_limited_ip"
    BY DEF Admitted
  <2> QED BY <2>1, SameAdmitted
<1> QED BY <1>1 DEF IpBudget

\* The step of p's handler charges no address and takes no charge back.
Uncharged(p) ==
  \E r \in PostType :
    /\ Step(p, r) /\ r.parsed = post[p].parsed
    /\ \/ r.parsed = Never
       \/ /\ r.ip = post[p].ip /\ r.boot = post[p].boot
          /\ post[p].answer # "rate_limited_ip" /\ r.answer # "rate_limited_ip"

\* That is so of every step but ParseForm.
LEMMA HandlerKeeps ==
  ASSUME HonestInv, NEW p \in Posts, Handler(p), ~ParseForm(p)
  PROVE  Uncharged(p)
<1>1. ASSUME NEW q \in PostType, NEW a \in Answers, a # "rate_limited_ip",
             Step(p, Answered(q, a)), q.parsed = post[p].parsed, q.ip = post[p].ip,
             q.boot = post[p].boot, post[p].answer = "none"
      PROVE  Uncharged(p)
  <2> DEFINE r == Answered(q, a)
  <2>1. r \in PostType /\ r.answer = a
    BY <1>1, AnsweredType DEF HonestInv
  <2>2. r.parsed = q.parsed /\ r.ip = q.ip /\ r.boot = q.boot
    BY DEF Answered, PostType
  <2>3. Step(p, r)
    BY <1>1
  <2> HIDE DEF r
  <2> QED BY <2>1, <2>2, <2>3, <1>1 DEF Uncharged
<1>2. /\ {"too_large", "unreadable", "rate_limited_global", "send_failed", "sent"}
           \subseteq Answers
      /\ Refusal(post[p]) \in Answers /\ Refusal(post[p]) # "rate_limited_ip"
  BY DEF Answers, Refusal
<1>3. clock \in Time /\ Until(SendTimeout) \in Time /\ Until(GithubPatience) \in Time
  BY UntilIsTime, ContactConfig DEF HonestInv, GithubPatience
<1>4. CASE BodyFails(p)
  <2>1. post[p] \in PostType /\ post[p].answer = "none"
    BY <1>4, AtStage DEF BodyFails
  <2> QED BY <2>1, <1>1, <1>2, <1>4 DEF BodyFails
<1>5. CASE Screen(p)
  <2>1. post[p] \in PostType /\ post[p].answer = "none"
    BY <1>5, AtStage DEF Screen
  <2> QED BY <2>1, <1>1, <1>2, <1>5 DEF Screen
<1>6. CASE HandToMailer(p)
  <2> DEFINE r == [post[p] EXCEPT !.stage = "sending", !.handed = clock,
                                  !.due = Until(SendTimeout)]
  <2>1. post[p] \in PostType /\ post[p].answer = "none"
    BY <1>6, AtStage DEF HandToMailer
  <2>2. /\ r \in PostType /\ r.parsed = post[p].parsed /\ r.ip = post[p].ip
        /\ r.boot = post[p].boot /\ r.answer = "none"
    BY <2>1, <1>3 DEF PostType, Stages
  <2>3. Step(p, r) \/ Step(p, Answered(post[p], "rate_limited_global"))
    BY <1>6 DEF HandToMailer
  <2> HIDE DEF r
  <2>4. CASE Step(p, r)
    BY <2>1, <2>2, <2>4 DEF Uncharged
  <2>5. CASE Step(p, Answered(post[p], "rate_limited_global"))
    BY <2>1, <2>5, <1>1, <1>2
  <2> QED BY <2>3, <2>4, <2>5
<1>7. CASE SendSucceeds(p)
  <2> DEFINE r == [post[p] EXCEPT !.stage = "mailed"]
  <2>1. post[p] \in PostType /\ post[p].answer = "none" /\ Step(p, r)
    BY <1>7, AtStage DEF SendSucceeds
  <2>2. /\ r \in PostType /\ r.parsed = post[p].parsed /\ r.ip = post[p].ip
        /\ r.boot = post[p].boot /\ r.answer = "none"
    BY <2>1 DEF PostType, Stages
  <2> HIDE DEF r
  <2> QED BY <2>1, <2>2 DEF Uncharged
<1>8. CASE SendFails(p)
  <2>1. post[p] \in PostType /\ post[p].answer = "none"
    BY <1>8, AtStage DEF SendFails
  <2> QED BY <2>1, <1>1, <1>2, <1>8 DEF SendFails
<1>9. CASE FileIssue(p)
  <2> DEFINE r == [post[p] EXCEPT !.stage = "filing", !.filed = clock,
                                  !.due = Until(GithubPatience)]
             q == [post[p] EXCEPT !.github = "capped"]
  <2>1. post[p] \in PostType /\ post[p].answer = "none"
    BY <1>9, AtStage DEF FileIssue
  <2>2. /\ r \in PostType /\ r.parsed = post[p].parsed /\ r.ip = post[p].ip
        /\ r.boot = post[p].boot /\ r.answer = "none"
    BY <2>1, <1>3 DEF PostType, Stages
  <2>3. /\ q \in PostType /\ q.parsed = post[p].parsed /\ q.ip = post[p].ip
        /\ q.boot = post[p].boot
    BY <2>1 DEF PostType
  <2>4. \/ Step(p, r) \/ Step(p, Answered(q, "sent"))
        \/ Step(p, Answered(post[p], "sent"))
    BY <1>9 DEF FileIssue
  <2> HIDE DEF r, q
  <2>5. CASE Step(p, r)
    BY <2>1, <2>2, <2>5 DEF Uncharged
  <2>6. CASE Step(p, Answered(q, "sent"))
    BY <2>1, <2>3, <2>6, <1>1, <1>2
  <2>7. CASE Step(p, Answered(post[p], "sent"))
    BY <2>1, <2>7, <1>1, <1>2
  <2> QED BY <2>4, <2>5, <2>6, <2>7
<1>10. CASE IssueFiled(p) \/ IssueFails(p)
  <2>1. PICK g \in {"filed", "failed"} :
          Step(p, Answered([post[p] EXCEPT !.github = g], "sent"))
    BY <1>10 DEF IssueFiled, IssueFails
  <2> DEFINE q == [post[p] EXCEPT !.github = g]
  <2>2. post[p] \in PostType /\ post[p].answer = "none"
    BY <1>10, AtStage DEF IssueFiled, IssueFails
  <2>3. /\ q \in PostType /\ q.parsed = post[p].parsed /\ q.ip = post[p].ip
        /\ q.boot = post[p].boot
    BY <2>2 DEF PostType
  <2>4. Step(p, Answered(q, "sent"))
    BY <2>1
  <2> HIDE DEF q
  <2> QED BY <2>2, <2>3, <2>4, <1>1, <1>2
<1> QED BY <1>4, <1>5, <1>6, <1>7, <1>8, <1>9, <1>10 DEF Handler

\* The attempt is charged to its address, which refuses it or has room for it.
LEMMA ParseFormIp ==
  ASSUME FewAddresses, HonestInv, ChargesFollowStage, IpBudget, NEW p \in Posts,
         ParseForm(p), post[p].ip \in Ips
  PROVE  IpBudget'
<1> DEFINE q  == [post[p] EXCEPT !.parsed = clock]
           r  == [q EXCEPT !.stage = "admitted"]
           s  == Answered(q, "rate_limited_ip")
           ip == post[p].ip
<1>1. PICK o \in IpLimiter!Allow(limiter, ip, clock, IpLimiter!NextNumber(limiter)) :
        /\ limiter' = o.rl
        /\ Step(p, IF o.ok THEN r ELSE s)
  BY DEF ParseForm
<1>2. /\ TypeOK /\ post[p] \in PostType /\ post[p].answer = "none" /\ post[p].parsed = Never
      /\ post[p].boot = boot /\ UNCHANGED <<clock, boot>>
  BY AtCharges DEF ParseForm, process, Charges
<1>3. /\ q \in PostType /\ r \in PostType /\ r.parsed = clock /\ r.boot = boot
      /\ r.answer = "none" /\ r.ip = ip /\ q.parsed = clock /\ q.ip = ip
  <2>1. clock \in Time
    BY <1>2 DEF TypeOK, Time
  <2> QED BY <2>1, <1>2 DEF PostType, Stages
<1>4. s \in PostType /\ s.answer = "rate_limited_ip"
  <2>1. "rate_limited_ip" \in Answers
    BY DEF Answers
  <2> QED BY <2>1, <1>2, <1>3, AnsweredType
<1> HIDE DEF q, r, s
<1>5. /\ clock \in Nat /\ Hour \in Nat \ {0} /\ IpLimit \in Nat /\ boot \in Nat \ {0}
      /\ IpL!InOrder(limiter, clock)
  BY <1>2, ContactConfig DEF TypeOK, IpBudget
<1>6. /\ IpL!InOrder(o.rl, clock) /\ o.ok \in BOOLEAN
      /\ o.ok <=> IpCount(limiter, ip)[clock - Hour] < IpLimit
      /\ \A k \in Ips :
           Counted(IpCount(limiter, k), IpCount(o.rl, k), o.ok /\ k = ip, clock, Hour)
  BY <1>1, <1>5, IpAllow DEF FewAddresses
<1>7. ASSUME NEW k \in Ips PROVE Ledger(AdmittedOf(k)', IpCount(o.rl, k), boot, clock, IpLimit, Hour)
  <2>1. Ledger(AdmittedOf(k), IpCount(limiter, k), boot, clock, IpLimit, Hour)
    BY DEF IpBudget
  <2>2. CASE o.ok /\ k = ip
    <3>1. Step(p, r)
      BY <1>1, <2>2
    <3>2. p \notin DOMAIN AdmittedOf(k) /\ AdmittedOf(k)' = Charged(AdmittedOf(k), p, clock, boot)
      BY <3>1, <2>2, <1>2, <1>3, ChargeAdmitted
    <3>3. Counted(IpCount(limiter, k), IpCount(o.rl, k), TRUE, clock, Hour)
      BY <2>2, <1>6 DEF Counted
    <3>4. IpCount(limiter, k)[clock - Hour] < IpLimit
      BY <2>2, <1>6
    <3>5. Ledger(Charged(AdmittedOf(k), p, clock, boot), IpCount(o.rl, k), boot, clock,
                 IpLimit, Hour)
      BY <3>2, <3>3, <3>4, <2>1, <1>5, ChargeLedger
    <3> QED BY <3>2, <3>5
  <2>3. CASE ~(o.ok /\ k = ip)
    <3>1. p \notin Admitted(k)
      BY <1>2 DEF Admitted
    <3>2. AdmittedOf(k)' = AdmittedOf(k)
      <4>1. CASE o.ok
        <5>1. Step(p, r) /\ r.ip # k
          BY <4>1, <2>3, <1>1, <1>3
        <5> QED BY <5>1, <3>1, <1>2, <1>3, SameAdmitted
      <4>2. CASE ~o.ok
        <5>1. Step(p, s)
          BY <4>2, <1>1
        <5> QED BY <5>1, <3>1, <1>2, <1>4, SameAdmitted
      <4> QED BY <4>1, <4>2
    <3>3. \A t \in Int : t >= clock - Hour => IpCount(o.rl, k)[t] = IpCount(limiter, k)[t]
      <4>1. ASSUME NEW t \in Int, t >= clock - Hour
            PROVE  IpCount(o.rl, k)[t] = IpCount(limiter, k)[t] + 0
        BY <4>1, <2>3, <1>6 DEF Counted
      <4>2. ASSUME NEW t \in Int, t >= clock - Hour PROVE IpCount(limiter, k)[t] \in Nat
        BY <4>2, <2>1, FS_CardinalityType DEF Ledger
      <4> QED BY <4>1, <4>2
    <3>4. Ledger(AdmittedOf(k), IpCount(o.rl, k), boot, clock, IpLimit, Hour)
      BY <3>3, <2>1, <1>5, IdleLedger
    <3> QED BY <3>2, <3>4
  <2> QED BY <2>2, <2>3
<1> QED BY <1>1, <1>2, <1>6, <1>7 DEF IpBudget

\* The steps of the process and of time.
LEMMA QuietIp ==
  ASSUME HonestInv, IpBudget, UNCHANGED <<boot, limiter>>,
         \A ip : AdmittedOf(ip)' = AdmittedOf(ip), clock' \in Nat, clock <= clock'
  PROVE  IpBudget'
<1>1. IpL!LimiterConfig /\ IpL!CallerConfig
  BY ContactConfig DEF IpL!LimiterConfig, IpL!CallerConfig
<1>2. clock \in Nat /\ clock \in Int /\ clock' \in Int /\ boot \in Nat /\ Hour \in Nat
  BY ContactConfig DEF HonestInv, TypeOK
<1>3. IpL!InOrder(limiter, clock')
  BY <1>1, <1>2, IpL!StillInOrder DEF IpBudget
<1>4. ASSUME NEW ip \in Ips
      PROVE  Ledger(AdmittedOf(ip), IpCount(limiter, ip), boot, clock', IpLimit, Hour)
  BY <1>2, IdleLedger DEF IpBudget
<1> QED BY <1>3, <1>4 DEF IpBudget

\* A restart: an empty limiter for a boot without admissions.
LEMMA RestartIp == ASSUME HonestInv, IpBudget, Restart PROVE IpBudget'
<1>1. /\ UNCHANGED <<post, clock>> /\ boot' = boot + 1
      /\ limiter' = IpLimiter!NewLimiter
  BY DEF Restart, FreshLimiters
<1>2. clock \in Nat /\ boot \in Nat /\ Hour \in Nat
  BY ContactConfig DEF HonestInv, TypeOK
<1>3. ASSUME NEW ip \in Ips
      PROVE  /\ AdmittedOf(ip)' = AdmittedOf(ip)
             /\ Ledger(AdmittedOf(ip), IpCount(IpLimiter!NewLimiter, ip), boot + 1, clock,
                       IpLimit, Hour)
  <2>1. AdmittedOf(ip)' = AdmittedOf(ip)
    BY <1>1 DEF AdmittedOf, Admitted
  <2>2. Ledger(AdmittedOf(ip), IpCount(IpLimiter!NewLimiter, ip), boot + 1, clock,
               IpLimit, Hour)
    BY <1>2, NewCounts, BootLedger DEF IpBudget
  <2> QED BY <2>1, <2>2
<1>4. IpL!InOrder(IpLimiter!NewLimiter, clock)
  BY <1>2, NewCounts
<1> QED BY <1>1, <1>3, <1>4 DEF IpBudget

\* A handler reads its body once: it never goes back to reading.
LEMMA NoRereading ==
  ASSUME HonestInv, NEW p \in Posts, Handler(p)
  PROVE  \E r : Step(p, r) /\ r.stage # "reading"
<1>1. \A r, a : Answered(r, a).stage # "reading" \/ r \notin PostType
  BY DEF Answered, PostType
<1>2. post[p] \in PostType
  BY DEF HonestInv, TypeOK
<1>3. \A g \in {"capped", "filed", "failed"} : [post[p] EXCEPT !.github = g] \in PostType
  BY <1>2 DEF PostType
<1>4. CASE BodyFails(p) \/ Screen(p) \/ SendFails(p)
  BY <1>1, <1>2, <1>4 DEF BodyFails, Screen, SendFails
<1>5. CASE ParseForm(p)
  <2> DEFINE q == [post[p] EXCEPT !.parsed = clock]
             r == [q EXCEPT !.stage = "admitted"]
  <2>1. Step(p, r) \/ Step(p, Answered(q, "rate_limited_ip"))
    BY <1>5 DEF ParseForm
  <2>2. clock \in Time
    BY DEF HonestInv, TypeOK, Time
  <2>3. q \in PostType /\ r.stage # "reading"
    BY <2>2, <1>2 DEF PostType
  <2> HIDE DEF q, r
  <2> QED BY <2>1, <2>3, <1>1
<1>6. CASE HandToMailer(p)
  <2> DEFINE r == [post[p] EXCEPT !.stage = "sending", !.handed = clock,
                                  !.due = Until(SendTimeout)]
  <2>1. Step(p, r) \/ Step(p, Answered(post[p], "rate_limited_global"))
    BY <1>6 DEF HandToMailer
  <2>2. r.stage # "reading"
    BY <1>2 DEF PostType
  <2> HIDE DEF r
  <2> QED BY <2>1, <2>2, <1>1, <1>2
<1>7. CASE SendSucceeds(p)
  <2> DEFINE r == [post[p] EXCEPT !.stage = "mailed"]
  <2>1. Step(p, r) /\ r.stage # "reading"
    BY <1>2, <1>7 DEF SendSucceeds, PostType
  <2> QED BY <2>1
<1>8. CASE FileIssue(p)
  <2> DEFINE r == [post[p] EXCEPT !.stage = "filing", !.filed = clock,
                                  !.due = Until(GithubPatience)]
             q == [post[p] EXCEPT !.github = "capped"]
  <2>1. \/ Step(p, r) \/ Step(p, Answered(q, "sent"))
        \/ Step(p, Answered(post[p], "sent"))
    BY <1>8 DEF FileIssue
  <2>2. r.stage # "reading" /\ q \in PostType
    BY <1>2, <1>3 DEF PostType
  <2> HIDE DEF r, q
  <2> QED BY <2>1, <2>2, <1>1, <1>2
<1>9. CASE IssueFiled(p) \/ IssueFails(p)
  <2>1. PICK g \in {"filed", "failed"} :
          Step(p, Answered([post[p] EXCEPT !.github = g], "sent"))
    BY <1>9 DEF IssueFiled, IssueFails
  <2> DEFINE q == [post[p] EXCEPT !.github = g]
  <2>2. q \in PostType /\ Step(p, Answered(q, "sent"))
    BY <2>1, <1>3
  <2> HIDE DEF q
  <2> QED BY <2>2, <1>1
<1> QED BY <1>4, <1>5, <1>6, <1>7, <1>8, <1>9 DEF Handler

\* A POST that waits for its body came from an address.
Addressed == \A p \in Posts : post[p].stage = "reading" => post[p].ip \in Ips

\* Waiting bodies keep their addresses, which came with the connection (server.go,
\* handleSubmit).
LEMMA AddressedStep == ASSUME HonestInv, Addressed, [Next]_vars PROVE Addressed'
<1>1. ASSUME NEW p \in Posts, NEW r, Step(p, r), r.stage = "reading" => r.ip \in Ips
      PROVE  Addressed'
  <2>1. post' = [post EXCEPT ![p] = r] /\ post \in [Posts -> PostType]
    BY <1>1 DEF Step, HonestInv, TypeOK
  <2> QED BY <2>1, <1>1 DEF Addressed
<1>2. ASSUME NEW p \in Posts, Arrive(p) PROVE Addressed'
  <2>1. PICK ip \in Ips, flaws \in Offers :
          Step(p, [Unsent EXCEPT !.stage = "reading", !.ip = ip, !.flaws = flaws,
                                 !.due = Until(ReadTimeout), !.began = clock,
                                 !.boot = boot])
    BY <1>2 DEF Arrive
  <2> DEFINE r == [Unsent EXCEPT !.stage = "reading", !.ip = ip, !.flaws = flaws,
                                 !.due = Until(ReadTimeout), !.began = clock,
                                 !.boot = boot]
  <2>2. Step(p, r) /\ r.ip \in Ips
    BY <2>1 DEF Unsent
  <2> HIDE DEF r
  <2> QED BY <2>2, <1>1
<1>3. ASSUME NEW p \in Posts, Handler(p) PROVE Addressed'
  BY <1>1, <1>3, NoRereading
<1>4. CASE DrainEnds \/ Crash
  <2>1. post' = [p \in Posts |-> IF p \in InFlight
                       THEN [post[p] EXCEPT !.stage = "killed", !.ended = clock]
                       ELSE post[p]]
    BY <1>4 DEF DrainEnds, Crash, Exit
  <2>2. ASSUME NEW p \in Posts, post'[p].stage = "reading" PROVE post'[p].ip \in Ips
    <3>1. post[p] \in PostType
      BY DEF HonestInv, TypeOK
    <3>2. p \notin InFlight
      BY <2>1, <2>2, <3>1 DEF PostType
    <3> QED BY <2>1, <2>2, <3>2 DEF InFlight
  <2> QED BY <2>2 DEF Addressed
<1>5. CASE UNCHANGED post
  BY <1>5 DEF Addressed
<1>6. ASSUME NEW p \in Posts, RelayDecides(p) \/ GithubDecides(p) PROVE UNCHANGED post
  BY <1>6 DEF RelayDecides, GithubDecides
<1>7. CASE Sigterm \/ Restart \/ Tick \/ UNCHANGED vars
  BY <1>5, <1>7 DEF Sigterm, Restart, Tick, vars
<1> QED BY <1>2, <1>3, <1>4, <1>5, <1>6, <1>7 DEF Next

-----------------------------------------------------------------------------
(* The theorem of the budgets                                              *)

\* The budget of the addresses is invariant, if they are not too many.
LEMMA IpInvariance == ASSUME FewAddresses PROVE Spec => [](Addressed /\ IpBudget)
<1>1. Init => Addressed /\ IpBudget
  <2> SUFFICES ASSUME Init PROVE Addressed /\ IpBudget
    OBVIOUS
  <2>1. /\ post = [p \in Posts |-> Unsent] /\ clock = 0 /\ boot = 1
        /\ limiter = IpLimiter!NewLimiter
    BY DEF Init
  <2>2. \A p \in Posts : post[p].stage = "unsent" /\ post[p].parsed = Never
    BY <2>1 DEF Unsent
  <2>3. 0 \in Nat /\ 1 \in Nat /\ Hour \in Nat
    BY ContactConfig
  <2>4. ASSUME NEW ip \in Ips
        PROVE  Ledger(AdmittedOf(ip), IpCount(limiter, ip), boot, clock, IpLimit, Hour)
    <3>1. DOMAIN AdmittedOf(ip) = {}
      BY <2>2 DEF AdmittedOf, Admitted
    <3> QED BY <3>1, <2>1, <2>3, NewCounts, EmptyLedger
  <2> QED BY <2>1, <2>2, <2>3, <2>4, NewCounts DEF Addressed, IpBudget
<1>2. HonestInv /\ BudgetInv /\ Addressed /\ IpBudget /\ [Next]_vars => (Addressed /\ IpBudget)'
  <2> SUFFICES ASSUME HonestInv, BudgetInv, Addressed, IpBudget, [Next]_vars
               PROVE  IpBudget'
    BY AddressedStep
  <2>1. clock \in Nat /\ TypeOK /\ ChargesFollowStage
    BY ContactConfig DEF HonestInv, TypeOK, BudgetInv
  <2>2. ASSUME NEW p \in Posts, Arrive(p) PROVE IpBudget'
    <3>1. PICK ip \in Ips, flaws \in Offers :
            Step(p, [Unsent EXCEPT !.stage = "reading", !.ip = ip, !.flaws = flaws,
                                   !.due = Until(ReadTimeout), !.began = clock,
                                   !.boot = boot])
      BY <2>2 DEF Arrive
    <3> DEFINE r == [Unsent EXCEPT !.stage = "reading", !.ip = ip, !.flaws = flaws,
                                   !.due = Until(ReadTimeout), !.began = clock,
                                   !.boot = boot]
    <3>2. Until(ReadTimeout) \in Time /\ clock \in Time /\ Never \in Time
      BY <2>1, UntilIsTime, ContactConfig DEF Time
    <3>3. boot \in 0..MaxBoots /\ 0 \in 0..MaxBoots /\ flaws \in SUBSET Flaws
      BY <2>1, ContactConfig DEF TypeOK
    <3>4. r \in PostType /\ r.parsed = Never
      BY <3>2, <3>3 DEF Unsent, PostType, Stages, Answers
    <3>5. post[p].parsed = Never
      BY <2>1, <2>2 DEF Arrive, ChargesFollowStage, Charges
    <3>6. Step(p, r) /\ UNCHANGED <<clock, boot, limiter>>
      BY <3>1, <2>2 DEF Arrive, process, limiters
    <3> HIDE DEF r
    <3> QED BY <3>4, <3>5, <3>6, <2>1, IpPlain
  <2>3. ASSUME NEW p \in Posts, ParseForm(p) PROVE IpBudget'
    <3>1. post[p].ip \in Ips
      BY <2>3 DEF ParseForm, At, Addressed
    <3> QED BY <3>1, <2>1, <2>3, ParseFormIp
  <2>4. ASSUME NEW p \in Posts, Handler(p), ~ParseForm(p) PROVE IpBudget'
    <3>1. UNCHANGED <<clock, boot, limiter>>
      BY <2>4 DEF Handler, BodyFails, Screen, HandToMailer, SendSucceeds, SendFails,
                  FileIssue, IssueFiled, IssueFails, process, limiters
    <3> QED BY <3>1, <2>1, <2>4, HandlerKeeps, IpPlain DEF Uncharged
  <2>5. CASE UNCHANGED <<post, boot, limiter, clock>>
    <3>1. \A ip : AdmittedOf(ip)' = AdmittedOf(ip)
      BY <2>5 DEF AdmittedOf, Admitted
    <3> QED BY <3>1, <2>1, <2>5, QuietIp
  <2>6. ASSUME NEW p \in Posts, RelayDecides(p) \/ GithubDecides(p) PROVE IpBudget'
    BY <2>5, <2>6 DEF RelayDecides, GithubDecides, process, limiters
  <2>7. CASE DrainEnds \/ Crash
    <3>1. Exit /\ UNCHANGED <<clock, boot, limiter>>
      BY <2>7 DEF DrainEnds, Crash, Exit, limiters
    <3> QED BY <3>1, <2>1, ExitCharges, QuietIp
  <2>8. CASE Sigterm \/ UNCHANGED vars
    BY <2>5, <2>8 DEF Sigterm, limiters, vars, process
  <2>9. CASE Restart
    BY <2>9, RestartIp
  <2>10. CASE Tick
    <3>1. UNCHANGED <<post, boot, limiter>> /\ clock' \in Nat /\ clock <= clock'
      BY <2>1, <2>10 DEF Tick, process, limiters
    <3>2. \A ip : AdmittedOf(ip)' = AdmittedOf(ip)
      BY <3>1 DEF AdmittedOf, Admitted
    <3> QED BY <3>1, <3>2, QuietIp
  <2> QED BY <2>2, <2>3, <2>4, <2>6, <2>7, <2>8, <2>9, <2>10 DEF Next
<1> QED BY HonestInvariance, BudgetInvariance, <1>1, <1>2, PTL DEF Spec

\* However handlers interleave, no boot of the process gives the relay or GitHub more
\* than the limits that all clients share, however many clients there are.
THEOREM SharedBudgetsHold == Spec => []WithinSharedBudgets
<1>1. BudgetInv => WithinSharedBudgets
  <2> SUFFICES ASSUME BudgetInv PROVE WithinSharedBudgets
    OBVIOUS
  <2>1. ASSUME NEW p \in Handed
        PROVE  Cardinality(Together(p, "handed", Hour, Handed)) <= GlobalLimit
    <3>1. Window(HandedOf, p, Hour) = Together(p, "handed", Hour, Handed)
      BY <2>1 DEF Window, HandedOf, Entry, Together, Handed
    <3> QED BY <3>1, <2>1 DEF BudgetInv, MailBudget, Ledger, HandedOf
  <2>2. ASSUME NEW p \in Filed
        PROVE  Cardinality(Together(p, "filed", Day, Filed)) <= GithubCap
    <3>1. Window(FiledOf, p, Day) = Together(p, "filed", Day, Filed)
      BY <2>2 DEF Window, FiledOf, Entry, Together, Filed
    <3> QED BY <3>1, <2>2 DEF BudgetInv, IssueBudget, Ledger, FiledOf
  <2> QED BY <2>1, <2>2 DEF WithinSharedBudgets
<1> QED BY BudgetInvariance, <1>1, PTL

\* Nor does it admit more POSTs of an address than its limit, as long as the map of
\* the limiter has room for all addresses that come.
THEOREM BudgetsHold == ASSUME FewAddresses PROVE Spec => []WithinBudgets
<1>1. IpBudget => WithinAddressBudget
  <2> SUFFICES ASSUME IpBudget, NEW ip \in Ips, NEW p \in Admitted(ip)
               PROVE  Cardinality(Together(p, "parsed", Hour, Admitted(ip))) <= IpLimit
    BY DEF WithinAddressBudget
  <2>1. Window(AdmittedOf(ip), p, Hour) = Together(p, "parsed", Hour, Admitted(ip))
    BY DEF Window, AdmittedOf, Entry, Together, Admitted
  <2> QED BY <2>1 DEF IpBudget, Ledger, AdmittedOf
<1> QED BY SharedBudgetsHold, IpInvariance, <1>1, PTL DEF WithinBudgets

-----------------------------------------------------------------------------
(* The budget of time                                                      *)

\* How late a handler can be at each stage, since its form was parsed.
Timely(r) ==
  /\ r.stage = "reading" => r.parsed = Never
  /\ r.stage = "admitted" => r.parsed = clock
  /\ r.stage = "sending" => clock <= r.due /\ r.due <= r.parsed + SendTimeout
  /\ r.stage = "mailed" => clock <= r.parsed + SendTimeout
  /\ r.stage = "filing" =>
       clock <= r.due /\ r.due <= r.parsed + SendTimeout + GithubTimeout
  /\ r.stage = "done" /\ r.parsed # Never =>
       r.ended <= r.parsed + SendTimeout + GithubTimeout

AllTimely == \A p \in Posts : Timely(post[p])

\* A deadline is not before its time, nor after it.
LEMMA UntilBounds ==
  ASSUME TypeOK, NEW d \in Nat
  PROVE  clock <= Until(d) /\ Until(d) <= clock + d /\ Until(d) \in Nat /\ clock \in Nat
<1>1. clock \in Nat /\ Horizon \in Nat /\ clock <= Horizon
  BY ContactConfig DEF TypeOK
<1>2. CASE clock + d < Horizon
  BY <1>1, <1>2 DEF Until
<1>3. CASE ~(clock + d < Horizon)
  BY <1>1, <1>3 DEF Until
<1> QED BY <1>1, <1>2, <1>3

\* A handler's step.
LEMMA TimelyStep ==
  ASSUME TypeOK, AllTimely, NEW p \in Posts, NEW r \in PostType, Step(p, r), Timely(r),
         clock' = clock
  PROVE  AllTimely'
<1>1. post'[p] = r /\ \A q \in Posts \ {p} : post'[q] = post[q]
  BY StepType
<1>2. ASSUME NEW q \in Posts PROVE Timely(post[q])'
  <2>1. CASE q = p
    BY <2>1, <1>1 DEF Timely
  <2>2. CASE q # p
    BY <2>2, <1>1 DEF Timely, AllTimely
  <2> QED BY <2>1, <2>2
<1> QED BY <1>2 DEF AllTimely

\* An answer that comes in time.
LEMMA TimelyAnswer ==
  ASSUME TypeOK, AllTimely, NEW p \in Posts, NEW q \in PostType, NEW a \in Answers,
         Step(p, Answered(q, a)), clock' = clock,
         q.parsed # Never => clock <= q.parsed + SendTimeout + GithubTimeout
  PROVE  AllTimely'
<1> DEFINE r == Answered(q, a)
<1>1. r \in PostType /\ r.stage = "done" /\ r.ended = clock /\ r.parsed = q.parsed
  BY AnsweredType DEF Answered, PostType
<1>2. Step(p, r)
  OBVIOUS
<1> HIDE DEF r
<1>3. Timely(r)
  BY <1>1 DEF Timely
<1> QED BY <1>1, <1>2, <1>3, TimelyStep

\* Each step of a handler that can run is in time; the waits end by their deadlines.
LEMMA HandlerTimely ==
  ASSUME HonestInv, AllTimely, NEW p \in Posts, Handler(p)
  PROVE  AllTimely'
<1>1. /\ TypeOK /\ Timely(post[p]) /\ post[p] \in PostType
      /\ SendTimeout \in Nat /\ GithubTimeout \in Nat /\ clock \in Nat /\ clock \in Time
      /\ post[p].due \in Int /\ post[p].parsed \in Int
  BY ContactConfig DEF HonestInv, TypeOK, AllTimely, PostType, Time, Never
<1>2. /\ {"too_large", "unreadable", "rate_limited_ip", "rate_limited_global",
          "send_failed", "sent"} \subseteq Answers
      /\ Refusal(post[p]) \in Answers
  BY DEF Answers, Refusal
<1>3. clock' = clock
  BY DEF Handler, BodyFails, ParseForm, Screen, HandToMailer, SendSucceeds, SendFails,
         FileIssue, IssueFiled, IssueFails
<1>4. CASE BodyFails(p)
  <2>1. post[p].parsed = Never
    BY <1>1, <1>4 DEF BodyFails, At, Timely
  <2>2. PICK a \in {"too_large", "unreadable"} : Step(p, Answered(post[p], a))
    BY <1>4 DEF BodyFails
  <2> QED BY <2>1, <2>2, <1>1, <1>2, <1>3, TimelyAnswer
<1>5. CASE ParseForm(p)
  <2> DEFINE q == [post[p] EXCEPT !.parsed = clock]
             r == [q EXCEPT !.stage = "admitted"]
  <2>1. Step(p, r) \/ Step(p, Answered(q, "rate_limited_ip"))
    BY <1>5 DEF ParseForm
  <2>2. /\ q \in PostType /\ r \in PostType /\ r.stage = "admitted"
        /\ r.parsed = clock /\ q.parsed = clock
    BY <1>1 DEF PostType, Stages
  <2> HIDE DEF q, r
  <2>3. Timely(r)
    BY <2>2 DEF Timely
  <2>4. CASE Step(p, r)
    BY <2>2, <2>3, <2>4, <1>1, <1>3, TimelyStep
  <2>5. CASE Step(p, Answered(q, "rate_limited_ip"))
    BY <2>2, <2>5, <1>1, <1>2, <1>3, TimelyAnswer
  <2> QED BY <2>1, <2>4, <2>5
<1>6. CASE Screen(p)
  <2>1. post[p].parsed = clock /\ Step(p, Answered(post[p], Refusal(post[p])))
    BY <1>1, <1>6 DEF Screen, At, Timely
  <2> QED BY <2>1, <1>1, <1>2, <1>3, TimelyAnswer
<1>7. CASE HandToMailer(p)
  <2> DEFINE r == [post[p] EXCEPT !.stage = "sending", !.handed = clock,
                                  !.due = Until(SendTimeout)]
  <2>1. Step(p, r) \/ Step(p, Answered(post[p], "rate_limited_global"))
    BY <1>7 DEF HandToMailer
  <2>2. post[p].parsed = clock
    BY <1>1, <1>7 DEF HandToMailer, At, Timely
  <2>3. Until(SendTimeout) \in Time
    BY <1>1, UntilIsTime
  <2>4. /\ r \in PostType /\ r.stage = "sending" /\ r.due = Until(SendTimeout)
        /\ r.parsed = clock
    BY <2>2, <2>3, <1>1 DEF PostType, Stages
  <2> HIDE DEF r
  <2>5. Timely(r)
    BY <2>4, <1>1, UntilBounds DEF Timely
  <2>6. CASE Step(p, r)
    BY <2>4, <2>5, <2>6, <1>1, <1>3, TimelyStep
  <2>7. CASE Step(p, Answered(post[p], "rate_limited_global"))
    BY <2>2, <2>7, <1>1, <1>2, <1>3, TimelyAnswer
  <2> QED BY <2>1, <2>6, <2>7
<1>8. CASE SendSucceeds(p) \/ SendFails(p)
  <2> DEFINE r == [post[p] EXCEPT !.stage = "mailed"]
  <2>1. clock <= post[p].due /\ post[p].due <= post[p].parsed + SendTimeout
    BY <1>1, <1>8 DEF SendSucceeds, SendFails, At, Timely
  <2>2. Step(p, r) \/ Step(p, Answered(post[p], "send_failed"))
    BY <1>8 DEF SendSucceeds, SendFails
  <2>3. r \in PostType /\ r.stage = "mailed" /\ r.parsed = post[p].parsed
    BY <1>1 DEF PostType, Stages
  <2> HIDE DEF r
  <2>4. Timely(r)
    BY <2>1, <2>3, <1>1 DEF Timely
  <2>5. CASE Step(p, r)
    BY <2>3, <2>4, <2>5, <1>1, <1>3, TimelyStep
  <2>6. CASE Step(p, Answered(post[p], "send_failed"))
    BY <2>1, <2>6, <1>1, <1>2, <1>3, TimelyAnswer
  <2> QED BY <2>2, <2>5, <2>6
<1>9. CASE FileIssue(p)
  <2> DEFINE r == [post[p] EXCEPT !.stage = "filing", !.filed = clock,
                                  !.due = Until(GithubPatience)]
             q == [post[p] EXCEPT !.github = "capped"]
  <2>1. clock <= post[p].parsed + SendTimeout
    BY <1>1, <1>9 DEF FileIssue, At, Timely
  <2>2. \/ Step(p, r) \/ Step(p, Answered(q, "sent"))
        \/ Step(p, Answered(post[p], "sent"))
    BY <1>9 DEF FileIssue
  <2>3. Until(GithubPatience) \in Time /\ GithubPatience = GithubTimeout
    BY <1>1, UntilIsTime DEF GithubPatience
  <2>4. /\ r \in PostType /\ r.stage = "filing" /\ r.due = Until(GithubTimeout)
        /\ r.parsed = post[p].parsed
        /\ q \in PostType /\ q.parsed = post[p].parsed
    BY <2>3, <1>1 DEF PostType, Stages
  <2> HIDE DEF r, q
  <2>5. Timely(r)
    <3>1. clock <= Until(GithubTimeout) /\ Until(GithubTimeout) <= clock + GithubTimeout
          /\ Until(GithubTimeout) \in Nat
      BY <1>1, UntilBounds
    <3> QED BY <3>1, <2>1, <2>4, <1>1 DEF Timely
  <2>6. CASE Step(p, r)
    BY <2>4, <2>5, <2>6, <1>1, <1>3, TimelyStep
  <2>7. CASE Step(p, Answered(q, "sent"))
    BY <2>1, <2>4, <2>7, <1>1, <1>2, <1>3, TimelyAnswer
  <2>8. CASE Step(p, Answered(post[p], "sent"))
    BY <2>1, <2>8, <1>1, <1>2, <1>3, TimelyAnswer
  <2> QED BY <2>2, <2>6, <2>7, <2>8
<1>10. CASE IssueFiled(p) \/ IssueFails(p)
  <2>1. PICK g \in {"filed", "failed"} :
          Step(p, Answered([post[p] EXCEPT !.github = g], "sent"))
    BY <1>10 DEF IssueFiled, IssueFails
  <2> DEFINE q == [post[p] EXCEPT !.github = g]
  <2>2. clock <= post[p].parsed + SendTimeout + GithubTimeout
    BY <1>1, <1>10 DEF IssueFiled, IssueFails, At, Timely
  <2>3. q \in PostType /\ q.parsed = post[p].parsed /\ Step(p, Answered(q, "sent"))
    BY <2>1, <1>1 DEF PostType
  <2> HIDE DEF q
  <2> QED BY <2>2, <2>3, <1>1, <1>2, <1>3, TimelyAnswer
<1> QED BY <1>4, <1>5, <1>6, <1>7, <1>8, <1>9, <1>10 DEF Handler

\* AllTimely is invariant: time waits for the handlers that can run.
LEMMA TimelyInvariance == Spec => []AllTimely
<1>1. Init => AllTimely
  BY DEF Init, AllTimely, Timely, Unsent
<1>2. HonestInv /\ AllTimely /\ [Next]_vars => AllTimely'
  <2> SUFFICES ASSUME HonestInv, AllTimely, [Next]_vars PROVE AllTimely'
    OBVIOUS
  <2>1. TypeOK
    BY DEF HonestInv
  <2>2. ASSUME NEW p \in Posts, Arrive(p) PROVE AllTimely'
    <3>1. PICK ip \in Ips, flaws \in Offers :
            Step(p, [Unsent EXCEPT !.stage = "reading", !.ip = ip, !.flaws = flaws,
                                   !.due = Until(ReadTimeout), !.began = clock,
                                   !.boot = boot])
      BY <2>2 DEF Arrive
    <3> DEFINE r == [Unsent EXCEPT !.stage = "reading", !.ip = ip, !.flaws = flaws,
                                   !.due = Until(ReadTimeout), !.began = clock,
                                   !.boot = boot]
    <3>2. Until(ReadTimeout) \in Time /\ clock \in Time /\ Never \in Time
      BY <2>1, UntilIsTime, ContactConfig DEF Time
    <3>3. boot \in 0..MaxBoots /\ 0 \in 0..MaxBoots /\ flaws \in SUBSET Flaws
      BY <2>1, ContactConfig DEF TypeOK
    <3>4. r \in PostType /\ r.parsed = Never /\ r.stage = "reading"
      BY <3>2, <3>3 DEF Unsent, PostType, Stages, Answers
    <3>5. Step(p, r) /\ clock' = clock
      BY <3>1, <2>2 DEF Arrive
    <3> HIDE DEF r
    <3>6. Timely(r)
      BY <3>4 DEF Timely
    <3> QED BY <3>4, <3>5, <3>6, <2>1, TimelyStep
  <2>3. ASSUME NEW p \in Posts, Handler(p) PROVE AllTimely'
    BY <2>3, HandlerTimely
  <2>4. CASE UNCHANGED <<post, clock>>
    BY <2>4 DEF AllTimely, Timely
  <2>5. ASSUME NEW p \in Posts, RelayDecides(p) \/ GithubDecides(p) PROVE AllTimely'
    BY <2>4, <2>5 DEF RelayDecides, GithubDecides
  <2>6. CASE DrainEnds \/ Crash
    <3>1. /\ clock' = clock
          /\ post' = [p \in Posts |-> IF p \in InFlight
                       THEN [post[p] EXCEPT !.stage = "killed", !.ended = clock]
                       ELSE post[p]]
      BY <2>6 DEF DrainEnds, Crash, Exit
    <3>2. ASSUME NEW p \in Posts PROVE Timely(post[p])'
      <4>1. post[p] \in PostType /\ Timely(post[p])
        BY <2>1 DEF TypeOK, AllTimely
      <4>2. CASE p \in InFlight
        <5>1. post'[p].stage = "killed"
          BY <4>1, <4>2, <3>1 DEF PostType
        <5> QED BY <5>1 DEF Timely
      <4>3. CASE p \notin InFlight
        BY <4>1, <4>3, <3>1 DEF Timely
      <4> QED BY <4>2, <4>3
    <3> QED BY <3>2 DEF AllTimely
  <2>7. CASE Sigterm \/ Restart \/ UNCHANGED vars
    BY <2>4, <2>7 DEF Sigterm, Restart, vars
  <2>8. CASE Tick
    <3>1. ASSUME NEW p \in Posts PROVE Timely(post[p])'
      <4>1. /\ post'[p] = post[p] /\ Timely(post[p])
            /\ clock \in Int /\ (clock' = clock \/ clock' = clock + 1)
            /\ post[p].due \in Int
        BY <2>1, <2>8, ContactConfig DEF Tick, AllTimely, TypeOK, PostType, Time, Never
      <4>2. CASE p \in InFlight
        <5>1. /\ post[p].stage \in {"reading", "sending", "filing"}
              /\ clock < post[p].due
          BY <4>1, <4>2, <2>8 DEF Tick, Overdue
        <5> QED BY <5>1, <4>1 DEF Timely
      <4>3. CASE p \notin InFlight
        BY <4>1, <4>3 DEF Timely, InFlight
      <4> QED BY <4>2, <4>3
    <3> QED BY <3>1 DEF AllTimely
  <2> QED BY <2>2, <2>3, <2>5, <2>6, <2>7, <2>8 DEF Next
<1> QED BY HonestInvariance, <1>1, <1>2, PTL DEF Spec

\* A handler whose body came early enough answers before the write deadline of
\* its connection, however slow the relay and GitHub are.
THEOREM AnswerInTime == Spec => []AnswerFitsWriteTimeout
<1>1. HonestInv /\ AllTimely => AnswerFitsWriteTimeout
  <2> SUFFICES ASSUME HonestInv, AllTimely, NEW p \in Posts,
                      post[p].stage = "done", post[p].parsed # Never,
                      post[p].parsed - post[p].began
                        <= WriteTimeout - SendTimeout - GithubTimeout
               PROVE  post[p].ended - post[p].began <= WriteTimeout
    BY DEF AnswerFitsWriteTimeout
  <2>1. post[p].ended <= post[p].parsed + SendTimeout + GithubTimeout
    BY DEF AllTimely, Timely
  <2>2. /\ post[p].ended \in Int /\ post[p].parsed \in Int /\ post[p].began \in Int
        /\ {SendTimeout, GithubTimeout, WriteTimeout} \subseteq Nat
    BY ContactConfig DEF HonestInv, TypeOK, PostType, Time, Never
  <2> QED BY <2>1, <2>2
<1> QED BY HonestInvariance, TimelyInvariance, <1>1, PTL
===============================================================================
