-------------------------------- MODULE Settings --------------------------------
(***************************************************************************)
(* The configuration of the contact service (config.go) and what hangs on  *)
(* it alone: who may send, whether the service is ready, and which address *)
(* a request comes from.  Texts are sequences of characters; a character   *)
(* may stand for a whole word.  A number in the environment is            *)
(* [is |-> "unset"], [is |-> "junk"] or [is |-> "number", n |-> n].        *)
(***************************************************************************)
EXTENDS Integers, SequencesExt

CONSTANTS IPs,        \* what net.ParseIP takes for an address
          LocalHosts  \* what net/smtp takes for the machine it runs on

Blank == {" ", "\t", "\n", "\r"}

Capitals == [Ann |-> "ann", VU |-> "vu", BUG |-> "bug", TRUE |-> "true", TLS |-> "tls"]

ToLower(s) == [i \in DOMAIN s |-> IF s[i] \in DOMAIN Capitals THEN Capitals[s[i]] ELSE s[i]]

TrimSpace(s) ==
  LET solid == {i \in DOMAIN s : s[i] \notin Blank}
  IN  IF solid = {} THEN <<>> ELSE SubSeq(s, Min(solid), Max(solid))

env(text, def) == IF text = <<>> THEN def ELSE text

\* A malformed number counts as unset.
envInt(text, def) == IF text.is = "number" THEN text.n ELSE def

envBool(text, def) == IF text = <<>> THEN def ELSE ToLower(text) \in {<<"true">>, <<"1">>}

Load(e) ==
  [Transport      |-> env(e.MAIL_TRANSPORT, <<"smtp">>),
   SMTPEncryption |-> ToLower(env(e.MAIL_ENCRYPTION, <<"starttls">>)),
   Recipient      |-> e.CONTACT_RECIPIENT,
   FromAddress    |-> e.MAIL_FROM_ADDRESS,
   FromName       |-> env(e.MAIL_FROM_NAME, <<"CCC Wiki Contact">>),
   WikiName       |-> env(e.CONTACT_WIKI_NAME, <<"CCC Wiki">>),
   AllowedDomain  |-> e.CONTACT_ALLOWED_EMAIL_DOMAIN,
   AllowedSenders |-> {TrimSpace(ToLower(a)) : a \in e.CONTACT_ALLOWED_SENDERS} \ {<<>>},
   SMTPHost       |-> e.MAIL_HOST,
   SMTPUsername   |-> e.MAIL_USERNAME,
   SMTPPassword   |-> e.MAIL_PASSWORD,
   Graph          |-> <<e.MS_TENANT_ID, e.MS_CLIENT_ID, e.MS_CLIENT_SECRET>>,
   GraphSenderUPN |-> e.MS_SENDER_UPN,
   AgentMail      |-> <<e.AGENTMAIL_API_KEY, e.AGENTMAIL_INBOX>>,
   GitHub         |-> <<e.CONTACT_INTAKE_GITHUB_TOKEN, e.CONTACT_GITHUB_REPO>>,
   RateLimitPerHour       |-> envInt(e.CONTACT_RATE_LIMIT_PER_HOUR, 20),
   GlobalRateLimitPerHour |-> envInt(e.CONTACT_GLOBAL_RATE_LIMIT_PER_HOUR, 100),
   GitHubDailyCap         |-> envInt(e.CONTACT_GITHUB_DAILY_CAP, 50),
   TrustProxy       |-> envBool(e.CONTACT_TRUST_PROXY, FALSE),
   TrustedProxyHops |-> envInt(e.CONTACT_TRUSTED_PROXY_HOPS, 1),
   CookieSecure     |-> envBool(e.CONTACT_SECURE_COOKIE, FALSE)]

\* The service starts.
validate(c) ==
  /\ c.Transport \in {<<"smtp">>, <<"graph">>, <<"agentmail">>}
  /\ c.SMTPEncryption \in {<<"starttls">>, <<"tls">>, <<"none">>}
  /\ c.RateLimitPerHour >= 1 /\ c.GlobalRateLimitPerHour >= 1
  /\ c.GitHubDailyCap >= 1
  /\ c.TrustedProxyHops >= 1

Filled(texts) == \A i \in DOMAIN texts : texts[i] # <<>>

\* Bug: the recipient and the transport are asked for, its sender is not.
mailConfiguredBut(c) ==
  /\ c.Recipient # <<>>
  /\ \/ c.Transport = <<"smtp">> /\ c.SMTPHost # <<>>
     \/ c.Transport = <<"graph">> /\ Filled(c.Graph)
     \/ c.Transport = <<"agentmail">> /\ Filled(c.AgentMail)

mailConfigured(c) ==
  /\ c.Recipient # <<>>
  /\ \/ c.Transport = <<"smtp">> /\ c.FromAddress # <<>> /\ c.SMTPHost # <<>>
     \/ c.Transport = <<"graph">> /\ c.FromAddress # <<>> /\ Filled(c.Graph)
     \/ c.Transport = <<"agentmail">> /\ Filled(c.AgentMail)

githubConfigured(c) == Filled(c.GitHub)

\* handleReadyz answers 200.
Ready(c) == mailConfigured(c) /\ (c.TrustProxy => c.CookieSecure)

\* What smtpMailer logs in with, if at all.
Login(c) == IF c.SMTPUsername = <<>> THEN <<>> ELSE <<c.SMTPUsername, c.SMTPPassword>>

\* What the mailer that newMailer makes has to put into its requests.
MailerUses(c) ==
  CASE c.Transport = <<"smtp">>      -> <<c.SMTPHost, c.FromAddress, c.Recipient>> \o Login(c)
    [] c.Transport = <<"graph">>     -> c.Graph \o <<c.FromAddress, c.Recipient,
                                                env(c.GraphSenderUPN, c.FromAddress)>>
    [] c.Transport = <<"agentmail">> -> c.AgentMail \o <<c.Recipient>>

\* smtp.PlainAuth gives no password away in clear, except to this host.
MayLogIn(c) ==
  /\ c.Transport = <<"smtp">> /\ c.SMTPUsername # <<>> /\ c.SMTPEncryption = <<"none">>
  => c.SMTPHost \in LocalHosts

\* Bug: the leftmost entry is trusted.
CandidateLeftmost(xff, hops) == xff[1]

\* The entry of X-Forwarded-For that the outermost trusted proxy wrote.  An
\* index beyond the end is a panic, which net/http turns into a lost request.
Candidate(xff, hops) ==
  LET i == (IF Len(xff) < hops THEN 0 ELSE Len(xff) - hops) + 1
  IN  IF i \in DOMAIN xff THEN xff[i] ELSE "panic"

\* net.ParseIP accepts the addresses and nothing else.
clientIP(c, remote, xff) ==
  IF c.TrustProxy /\ xff # <<>> /\ Candidate(xff, c.TrustedProxyHops) \in IPs \cup {"panic"}
  THEN Candidate(xff, c.TrustedProxyHops)
  ELSE remote

\* Bug: the at sign is left out of the suffix.
senderAllowedBySuffix(c, email) ==
  IF c.AllowedSenders # {} THEN TrimSpace(ToLower(email)) \in c.AllowedSenders
  ELSE IsSuffix(ToLower(c.AllowedDomain), TrimSpace(ToLower(email)))

\* The allowlist wins over the domain; neither means anybody.
senderAllowed(c, email) ==
  IF c.AllowedSenders # {} THEN TrimSpace(ToLower(email)) \in c.AllowedSenders
  ELSE \/ c.AllowedDomain = <<>>
       \/ IsSuffix(<<"@">> \o ToLower(c.AllowedDomain), TrimSpace(ToLower(email)))
=============================================================================
