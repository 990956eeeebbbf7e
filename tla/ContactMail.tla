------------------------------ MODULE ContactMail ------------------------------
(***************************************************************************)
(* The contact service with its mail transports (mailer.go) taken apart.   *)
(* Send is a conversation: a list of exchanges, in each of which a request *)
(* goes out and the handler waits for the reply.  Over SMTP that is the    *)
(* dial, the greeting, perhaps STARTTLS and AUTH, the envelope (MAIL, RCPT *)
(* and DATA), the content and QUIT; Graph needs a token and then sendMail; *)
(* AgentMail is one POST.  Everything else is Contact's, and the service   *)
(* with these transports implements Contact's Spec, in which Send is one   *)
(* wait.                                                                   *)
(***************************************************************************)
EXTENDS Contact, Sequences

CONSTANTS
  Transports,     \* what the MAIL_* variables may say
  DialTimeout,    \* net.Dialer, SMTP
  HttpTimeout     \* http.Client of Graph and AgentMail

ASSUME TransportConfig ==
  /\ Transports \subseteq [kind: {"smtp", "graph", "agentmail"},
                           encryption: {"starttls", "tls", "none"},
                           username: BOOLEAN,      \* MAIL_USERNAME is set
                           local: BOOLEAN]         \* MAIL_HOST is this host
  /\ {DialTimeout, HttpTimeout} \subseteq Nat \ {0}

VARIABLES
  transport,    \* the mailer that newMailer made
  send,         \* the conversation of each POST that Send is busy with
  transmitted,  \* mails the relay has received in full
  exposed       \* what crossed the network unencrypted, and what was asked for

mailVars == <<transport, send, transmitted, exposed>>
allVars  == <<vars, mailVars>>

Silent == [todo |-> <<>>, secure |-> FALSE, until |-> Never]

SmtpExchanges ==
  <<"dial", "greeting">>
    \o (IF transport.encryption = "starttls" THEN <<"starttls">> ELSE <<>>)
    \o (IF transport.username THEN <<"auth">> ELSE <<>>)
    \o <<"envelope", "content", "quit">>
GraphExchanges     == <<"token", "sendMail">>
AgentMailExchanges == <<"post">>

Conversation ==
  CASE transport.kind = "smtp"      -> SmtpExchanges
    [] transport.kind = "graph"     -> GraphExchanges
    [] transport.kind = "agentmail" -> AgentMailExchanges

\* The exchanges whose request holds the whole mail.
Carriers == {"content", "sendMail", "post"}
Https    == {"token", "sendMail", "post"}

MailInit ==
  /\ Init
  /\ transport \in Transports
  /\ send = [p \in Posts |-> Silent]
  /\ transmitted = {} /\ exposed = {}

-----------------------------------------------------------------------------
(* Send                                                                    *)

Earlier(a, b) == IF a < b THEN a ELSE b

\* Bug: the connection is not pinned to the deadline of its context.
PatienceWithoutDeadline(step, due) ==
  IF step = "dial" THEN Earlier(Until(DialTimeout), due)
  ELSE IF step \in Https THEN Earlier(Until(HttpTimeout), due)
  ELSE Horizon + 1

\* Bug: the HTTP requests are made without the context.
PatienceWithoutContext(step, due) ==
  IF step = "dial" THEN Earlier(Until(DialTimeout), due)
  ELSE IF step \in Https THEN Until(HttpTimeout)
  ELSE due

\* How long an exchange may take, in a Send whose context ends at `due'.
Patience(step, due) ==
  IF step = "dial" THEN Earlier(Until(DialTimeout), due)
  ELSE IF step \in Https THEN Earlier(Until(HttpTimeout), due)
  ELSE due

\* The request of the first exchange of `todo' goes out.
Exchange(p, todo, secure, due) ==
  LET step   == Head(todo)
      secret == IF step = "auth" THEN "password" ELSE "mail"
  IN  /\ send' = [send EXCEPT ![p] = [todo |-> todo, secure |-> secure,
                                      until |-> Patience(step, due)]]
      /\ transmitted' = IF step \in Carriers THEN transmitted \cup {p} ELSE transmitted
      /\ exposed' = exposed \cup
           IF step \in {"auth", "content"} /\ ~secure /\ ~transport.local
           THEN {<<secret, transport.encryption>>} ELSE {}

\* HandToMailer of Contact; if the breaker lets the POST pass, Send begins.
BeginSend(p) ==
  /\ HandToMailer(p)
  /\ IF post'[p].stage = "sending"
     THEN Exchange(p, Conversation, transport.kind # "smtp", post'[p].due)
     ELSE UNCHANGED <<send, transmitted, exposed>>
  /\ UNCHANGED transport

\* Bug: a relay that does not offer STARTTLS is spoken to without it.
AfterOpportunistic(todo) ==
  {Tail(todo)} \cup
    IF Len(todo) > 1 /\ todo[2] = "starttls" THEN {Tail(Tail(todo))} ELSE {}

\* What may follow an exchange.  A relay that does not offer STARTTLS makes
\* Send fail, so there is no way round it.
After(todo) == {Tail(todo)}

\* Bug: the error of wc.Close is ignored.
ConfirmedUnread(p) == Head(send[p].todo) \in Https \cap Carriers => p \in mailbox

\* A good reply to an exchange that carried the mail says that it was taken.
Confirmed(p) == Head(send[p].todo) \in Carriers => p \in mailbox

\* A good reply, and there is more to say.  PlainAuth hands the password out
\* over TLS or to this host only.
Reply(p) ==
  /\ At(p, "sending") /\ Confirmed(p)
  /\ \E next \in After(send[p].todo) :
       LET step   == Head(send[p].todo)
           secure == \/ send[p].secure
                     \/ step = "starttls"
                     \/ step = "dial" /\ transport.encryption = "tls"
       IN  /\ next # <<>>
           /\ Head(next) = "auth" => secure \/ transport.local
           /\ Exchange(p, next, secure, post[p].due)
  /\ UNCHANGED <<vars, transport>>

\* The last reply is good: Send returns nil.
SendReturns(p) ==
  /\ At(p, "sending") /\ Confirmed(p)
  /\ Tail(send[p].todo) = <<>>
  /\ Step(p, [post[p] EXCEPT !.stage = "mailed"])
  /\ send' = [send EXCEPT ![p] = Silent]
  /\ UNCHANGED <<clock, process, limiters, outside, transport, transmitted, exposed>>

\* A bad reply, a broken connection, a refusal of net/smtp, or no reply in time.
GiveUp(p) ==
  /\ SendFails(p)
  /\ send' = [send EXCEPT ![p] = Silent]
  /\ UNCHANGED <<transport, transmitted, exposed>>

\* The relay takes a mail it has received, whether or not anybody still waits.
RelayTakes(p) ==
  /\ p \in transmitted \ mailbox
  /\ mailWire' = mailWire \ {p} /\ mailbox' = mailbox \cup {p}
  /\ UNCHANGED <<clock, process, limiters, post, issueWire, issues, mailVars>>

-----------------------------------------------------------------------------
(* The rest of the service                                                 *)

OtherSteps(p) ==
  /\ \/ Arrive(p) \/ BodyFails(p) \/ ParseForm(p) \/ Screen(p)
     \/ FileIssue(p) \/ IssueFiled(p) \/ IssueFails(p) \/ GithubDecides(p)
  /\ UNCHANGED mailVars

ProcessSteps ==
  /\ Sigterm \/ DrainEnds \/ Crash
  /\ UNCHANGED mailVars

RestartAfresh ==
  /\ Restart
  /\ transport' \in Transports
  /\ send' = [p \in Posts |-> Silent]
  /\ UNCHANGED <<transmitted, exposed>>

\* Time passes, but not beyond the deadline of an exchange.
MailTick ==
  /\ \A p \in InFlight :
       \/ post[p].stage = "sending" /\ clock < send[p].until
       \/ post[p].stage \in {"reading", "filing"} /\ ~Overdue(p)
  /\ proc = "draining" => InFlight # {} /\ clock < stopBy
  /\ clock' = IF clock < Horizon THEN clock + 1 ELSE clock
  /\ UNCHANGED <<process, limiters, post, outside, mailVars>>

MailNext ==
  \/ \E p \in Posts : \/ BeginSend(p) \/ Reply(p) \/ SendReturns(p) \/ GiveUp(p)
                      \/ RelayTakes(p) \/ OtherSteps(p)
  \/ ProcessSteps \/ RestartAfresh
  \/ MailTick

MailSpec == MailInit /\ [][MailNext]_allVars

\* As in Contact; of the transports only that their deadlines fire.
MailFairness ==
  /\ WF_allVars(MailTick) /\ WF_allVars(ProcessSteps /\ DrainEnds)
  /\ \A p \in Posts :
       /\ WF_allVars(OtherSteps(p) /\ Overdue(p) /\ BodyFails(p))
       /\ WF_allVars(OtherSteps(p) /\ (Screen(p) \/ FileIssue(p)))
       /\ WF_allVars(BeginSend(p))
       /\ WF_allVars(clock >= send[p].until /\ GiveUp(p))
       /\ WF_allVars(OtherSteps(p) /\ Overdue(p) /\ IssueFails(p))

FairMailSpec == MailSpec /\ MailFairness

-----------------------------------------------------------------------------
(* Properties                                                              *)

\* While it is sending, and only then, a handler is at some point of the
\* conversation of its transport; no exchange outlives the context of its Send
\* (mailer.go:156); and the relay has only what it received.
MailTypeOK ==
  /\ transport \in Transports
  /\ \A p \in Posts :
       IF At(p, "sending")
       THEN /\ \E i \in 1..Len(Conversation) :
                 send[p].todo = SubSeq(Conversation, i, Len(Conversation))
            /\ send[p].until \in clock..post[p].due
       ELSE send[p].todo = <<>> \/ ~Alive
  /\ transmitted \subseteq Handed /\ mailbox \subseteq transmitted

\* The password never crosses the network in clear, and the mail only where
\* MAIL_ENCRYPTION is none: a relay that withholds STARTTLS gets neither, in no
\* order of replies (mailer.go:163-175).
SecretsCovered == exposed \subseteq {<<"mail", "none">>}

\* The three transports keep what Contact assumes of a mailer: Send returns nil
\* only after the relay took the mail, whatever else happens.
ImplementsContact == Spec
=============================================================================
