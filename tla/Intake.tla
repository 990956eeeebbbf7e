--------------------------------- MODULE Intake ---------------------------------
(***************************************************************************)
(* One life of the contact container and one submission to it, with the    *)
(* data that Contact leaves out: the environment it starts with, the way   *)
(* the request comes, the form, and the mail and the issue made from it.   *)
(* Nothing of a submission is kept for the next one.                       *)
(***************************************************************************)
EXTENDS Submission

\* The cases [environment, route, form] to look at, as a sequence of sets.  A
\* route is [client, own, proxies]: who sends, what it writes into
\* X-Forwarded-For itself, and the proxies that each append their peer, in the
\* order in which they are passed.
CONSTANT AllCases

\* Characters.  "panic" stands for a panic where an address is looked for.
Chars == STRING \ {"panic"}
Texts == Seq(Chars)

Numbers == [is: {"unset", "junk", "number"}, n: Int]

Environment ==
  [MAIL_TRANSPORT: Texts, MAIL_ENCRYPTION: Texts, CONTACT_RECIPIENT: Texts,
   MAIL_FROM_ADDRESS: Texts, MAIL_FROM_NAME: Texts, CONTACT_WIKI_NAME: Texts,
   CONTACT_ALLOWED_EMAIL_DOMAIN: Texts, CONTACT_ALLOWED_SENDERS: SUBSET Texts,
   MAIL_HOST: Texts, MAIL_USERNAME: Texts, MAIL_PASSWORD: Texts,
   MS_TENANT_ID: Texts, MS_CLIENT_ID: Texts, MS_CLIENT_SECRET: Texts,
   MS_SENDER_UPN: Texts, AGENTMAIL_API_KEY: Texts, AGENTMAIL_INBOX: Texts,
   CONTACT_INTAKE_GITHUB_TOKEN: Texts, CONTACT_GITHUB_REPO: Texts,
   CONTACT_RATE_LIMIT_PER_HOUR: Numbers, CONTACT_GLOBAL_RATE_LIMIT_PER_HOUR: Numbers,
   CONTACT_GITHUB_DAILY_CAP: Numbers, CONTACT_TRUST_PROXY: Texts,
   CONTACT_TRUSTED_PROXY_HOPS: Numbers, CONTACT_SECURE_COOKIE: Texts]

CaseType ==
  [environment: Environment,
   route: [client: IPs, own: Seq(Chars), proxies: Seq(IPs)],
   form:  [type: Texts, name: Texts, email: Texts, page: Texts, summary: Texts, details: Texts]]

\* The limits are numbers, and the cases are such records.
ASSUME IntakeConfig ==
  /\ IPs \subseteq Chars
  /\ {maxName, maxSummary, maxDetails, maxPage, maxTitle} \subseteq Nat
  /\ \A i \in DOMAIN AllCases : AllCases[i] \subseteq CaseType

VARIABLES case,
          stage,      \* "off", "exited", "up", "answered"
          config, key, complaints,
          mails, issues      \* made of the submission: at most one of each

vars == <<case, stage, config, key, complaints, mails, issues>>

Init ==
  /\ \E i \in DOMAIN AllCases : case \in AllCases[i]
  /\ stage = "off" /\ config = Load(case.environment)
  /\ key = "" /\ complaints = {} /\ mails = {} /\ issues = {}

\* main: an environment that does not validate ends the process.
Start ==
  /\ stage = "off"
  /\ stage' = IF validate(config) THEN "up" ELSE "exited"
  /\ UNCHANGED <<case, config, key, complaints, mails, issues>>

\* The header that reaches the service and the address it comes from.
Forwarded(route) ==
  IF route.proxies = <<>> THEN [xff |-> route.own, remote |-> route.client]
  ELSE [xff    |-> route.own \o <<route.client>> \o Front(route.proxies),
        remote |-> Last(route.proxies)]

Complaints == FieldErrors(case.form, config)

Sends == Complaints = {} /\ mailConfigured(config)

\* handleSubmit for a POST that gets past the checks of its session and the
\* limiters, with a relay and a GitHub that take what they are given.
Submit ==
  /\ stage = "up" /\ stage' = "answered"
  /\ LET r == Forwarded(case.route) IN key' = clientIP(config, r.remote, r.xff)
  /\ complaints' = Complaints
  /\ IF Sends
     THEN LET sub == newSubmission(case.form)
          IN  /\ mails' = {Payload(buildMessage(sub, config), config)}
              /\ issues' = IF githubConfigured(config) THEN {buildIssue(sub, config)} ELSE {}
     ELSE UNCHANGED <<mails, issues>>
  /\ UNCHANGED <<case, config>>

Next == Start \/ Submit

Spec == Init /\ [][Next]_vars

-----------------------------------------------------------------------------
(* Properties                                                              *)

\* Through exactly the configured proxies, or directly where none is trusted,
\* the limiter's key is the client's address whatever the client writes into
\* X-Forwarded-For (server.go:401-409).  On any other way it is an address,
\* never junk, and the handler does not panic.
ClientIPTrue ==
  stage = "answered" =>
    /\ key \in IPs
    /\ Len(case.route.proxies) = (IF config.TrustProxy THEN config.TrustedProxyHops ELSE 0)
         => key = case.route.client

\* A service that is up, reports ready and cannot send, whatever the relay does:
\* a text that its mailer needs is empty, or it is not let log in.
CannotSend == ~(Filled(MailerUses(config)) /\ MayLogIn(config))

\* "mailConfigured reports whether the selected transport has everything it needs
\* to actually deliver" (config.go:167-168) is true of everything but the login: a
\* service that reports ready and cannot send uses SMTP with a user name, and either
\* has no password for it or would send it to another host in clear
\* (mailer.go:174-175).
OnlyLoginUnasked ==
  stage \in {"up", "answered"} /\ Ready(config) /\ CannotSend =>
    /\ config.Transport = <<"smtp">> /\ config.SMTPUsername # <<>>
    /\ \/ config.SMTPPassword = <<>>
       \/ config.SMTPEncryption = <<"none">> /\ config.SMTPHost \notin LocalHosts

\* The lines of a text of which these are the lines so far, after a character.
WithChar(lines, c, breaks) ==
  IF c \in breaks THEN Append(lines, <<>>)
  ELSE [lines EXCEPT ![Len(lines)] = Append(@, c)]

\* The pieces of t between the characters of a set.
Lines(t, breaks) ==
  LET upTo[i \in 0..Len(t)] ==
        IF i = 0 THEN << <<>> >> ELSE WithChar(upTo[i - 1], t[i], breaks)
  IN  upTo[Len(t)]

\* A fence line in the sense of GitHub's markdown: its number of backticks.
FenceLine(line) ==
  LET bare == TrimSpace(line)
  IN  IF ToSet(bare) = {"bt"} THEN Len(bare) ELSE 0

\* The fence that is open after a line, or 0, from the one before it.
Fence(before, line) ==
  LET here == FenceLine(line)
  IN  IF before = 0 THEN IF here >= 3 THEN here ELSE 0
      ELSE IF here >= before THEN 0 ELSE before

\* Which lines of a document are prose: those outside all fences.
Prose(lines) ==
  LET open[k \in 0..Len(lines)] == IF k = 0 THEN 0 ELSE Fence(open[k - 1], lines[k])
  IN  {k \in 1..Len(lines) : open[k - 1] = 0 /\ open[k] = 0}

\* What a document says outside all fences.
Said(lines) == UNION {ToSet(lines[k]) : k \in Prose(lines)}

\* The words that are ours: always there, and there in some issues.
Headings == {"**Type:**", "**Submitted:**", "**From**", "**Summary:**", "**Details:**",
             "---", "_Filed automatically_"}
Optional == {"**Page/Area:**", "_(nothing provided)_"}

\* No text of a submitter ends its fence early or leaves it open: GitHub reads
\* every heading of ours as prose and nothing of theirs (issue #41,
\* submission.go:216-221).
FencesHold ==
  \A issue \in issues :
    LET said == Said(Lines(issue.Body, {"\n", "\r"}))
    IN  Headings \subseteq said /\ said \subseteq Headings \cup Optional

HeaderNames == <<"From", "To", "Reply-To", "Subject", "MIME-Version", "X-CCC-Contact-Type">>

\* Whatever the settings and the fields hold, a line break included, the mail
\* has exactly its headers, each on a line of its own (mailer.go:77-78).
HeadersIntact ==
  config.Transport = <<"smtp">> => \A mail \in mails :
    LET lines == Lines(mail, {"\n"})
        n     == Len(HeaderNames)
    IN  /\ \A k \in 1..n : /\ Head(lines[k]) = HeaderNames[k]
                           /\ {i \in DOMAIN lines[k] : lines[k][i] = "\r"} = {Len(lines[k])}
        /\ lines[n + 1] = <<"\r">>

\* A text that can stand before or after the at sign.
Part(s) == s # <<>> /\ ToSet(s) \cap (Blank \cup {"@", "<", ">"}) = {}

\* The policy on an address in the words of config.md: on the list, or, with no
\* list, of the domain.
Permitted(c, address) ==
  \E at \in DOMAIN address :
    LET user   == SubSeq(address, 1, at - 1)
        domain == SubSeq(address, at + 1, Len(address))
    IN  /\ address[at] = "@" /\ Part(user) /\ Part(domain)
        /\ IF c.AllowedSenders # {} THEN address \in c.AllowedSenders
           ELSE c.AllowedDomain = <<>> \/ domain = ToLower(c.AllowedDomain)

\* The form of somebody who types in what was made of a submission.
Again(s) == [type |-> <<s.Kind>>, name |-> s.Name, email |-> s.Email,
             page |-> s.Page, summary |-> s.Summary, details |-> s.Details]

\* The verdict on an address is the policy, in whatever case and between
\* whatever blanks it was typed; and what was accepted is accepted again,
\* unchanged.
VerdictSound ==
  stage = "answered" =>
    LET s == newSubmission(case.form)
    IN  /\ "email" \notin complaints <=> Permitted(config, TrimSpace(ToLower(case.form.email)))
        /\ complaints = {} => /\ FieldErrors(Again(s), config) = {}
                              /\ newSubmission(Again(s)) = s
=============================================================================
