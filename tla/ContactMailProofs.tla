--------------------------- MODULE ContactMailProofs ---------------------------
(***************************************************************************)
(* Proofs about ContactMail, for every number of POSTs, every limit, every  *)
(* time limit and every set of transports.                                 *)
(*                                                                         *)
(* The argument.  What a Send has yet to say is the rest of the            *)
(* conversation of its transport, from some place on (Talking).  The place  *)
(* tells what has been agreed: past STARTTLS, or past the dial of a TLS     *)
(* connection, the connection is secure, and before QUIT the relay has      *)
(* taken the mail.  So Send can only return nil for a mail that was taken,  *)
(* which is what Contact says of it, and no exchange that holds a secret    *)
(* goes over a connection that ought to be secure and is not.              *)
(***************************************************************************)
EXTENDS ContactMail, ContactProofs, SequenceTheorems

Exchanges == {"dial", "greeting", "starttls", "auth", "envelope", "content", "quit",
              "token", "sendMail", "post"}

\* What the proofs use of the conversation of a transport t.
Shape(C, t) ==
  /\ C \in Seq(Exchanges) /\ Len(C) >= 1
  /\ C[1] \in {"dial", "token", "post"}
  /\ C[Len(C)] \in Carriers \cup {"quit"}
  /\ \A i \in 1..Len(C) :
       /\ C[i] \in {"auth", "content"} =>
            t.kind = "smtp" /\ i > 1 /\ (t.encryption = "starttls" => i > 3)
       /\ t.kind = "smtp" /\ t.encryption = "starttls" /\ i = 3 => C[i] = "starttls"
       /\ t.kind = "smtp" /\ i = 1 => C[i] = "dial"
       /\ C[i] = "quit" => i > 1 /\ C[i - 1] \in Carriers

\* The conversations are of that shape.
LEMMA ConversationShape ==
  ASSUME transport \in Transports
  PROVE  Shape(Conversation, transport)
<1>1. /\ transport.kind \in {"smtp", "graph", "agentmail"}
      /\ transport.encryption \in {"starttls", "tls", "none"}
      /\ transport.username \in BOOLEAN
  BY TransportConfig
<1>2. CASE transport.kind = "smtp"
  <2> DEFINE A == <<"dial", "greeting">>
             S == IF transport.encryption = "starttls" THEN <<"starttls">> ELSE <<>>
             U == IF transport.username THEN <<"auth">> ELSE <<>>
             E == <<"envelope", "content", "quit">>
             s == IF transport.encryption = "starttls" THEN 1 ELSE 0
             u == IF transport.username THEN 1 ELSE 0
  <2>1. A \in Seq(Exchanges) /\ E \in Seq(Exchanges)
    BY DEF Exchanges
  <2>2. S \in Seq(Exchanges) /\ Len(S) = s /\ (s = 1 => S[1] = "starttls")
    <3>1. CASE transport.encryption = "starttls"
      <4>1. S = <<"starttls">> /\ s = 1
        BY <3>1
      <4> HIDE DEF S, s
      <4> QED BY <4>1 DEF Exchanges
    <3>2. CASE transport.encryption # "starttls"
      <4>1. S = <<>> /\ s = 0
        BY <3>2
      <4> HIDE DEF S, s
      <4> QED BY <4>1, EmptySeq
    <3> QED BY <3>1, <3>2
  <2>3. U \in Seq(Exchanges) /\ Len(U) = u /\ (u = 1 => U[1] = "auth")
    <3>1. CASE transport.username
      <4>1. U = <<"auth">> /\ u = 1
        BY <3>1
      <4> HIDE DEF U, u
      <4> QED BY <4>1 DEF Exchanges
    <3>2. CASE ~transport.username
      <4>1. U = <<>> /\ u = 0
        BY <3>2
      <4> HIDE DEF U, u
      <4> QED BY <4>1, EmptySeq
    <3> QED BY <3>1, <3>2
  <2>4. Len(A) = 2 /\ A[1] = "dial" /\ A[2] = "greeting"
    OBVIOUS
  <2>5. Len(E) = 3 /\ E[1] = "envelope" /\ E[2] = "content" /\ E[3] = "quit"
    OBVIOUS
  <2>6. Conversation = ((A \o S) \o U) \o E
    BY <1>2 DEF Conversation, SmtpExchanges
  <2>7. s \in {0, 1} /\ u \in {0, 1} /\ (s = 1 <=> transport.encryption = "starttls")
    OBVIOUS
  <2> HIDE DEF A, S, U, E, s, u
  <2> DEFINE AS == A \o S
             ASU == AS \o U
  <2>8. /\ AS \in Seq(Exchanges) /\ Len(AS) = 2 + s
        /\ AS[1] = "dial" /\ AS[2] = "greeting" /\ (s = 1 => AS[3] = "starttls")
    <3>1. /\ A \o S \in Seq(Exchanges) /\ Len(A \o S) = Len(A) + Len(S)
          /\ \A i \in 1..Len(A) + Len(S) :
               (A \o S)[i] = IF i <= Len(A) THEN A[i] ELSE S[i - Len(A)]
      BY <2>1, <2>2, ConcatProperties
    <3> QED BY <2>2, <2>4, <2>7, <3>1
  <2> HIDE DEF AS
  <2>9. /\ ASU \in Seq(Exchanges) /\ Len(ASU) = 2 + s + u
        /\ ASU[1] = "dial" /\ ASU[2] = "greeting" /\ (s = 1 => ASU[3] = "starttls")
        /\ u = 1 => ASU[3 + s] = "auth"
    <3>1. /\ AS \o U \in Seq(Exchanges) /\ Len(AS \o U) = Len(AS) + Len(U)
          /\ \A i \in 1..Len(AS) + Len(U) :
               (AS \o U)[i] = IF i <= Len(AS) THEN AS[i] ELSE U[i - Len(AS)]
      BY <2>3, <2>8, ConcatProperties
    <3> QED BY <2>3, <2>7, <2>8, <3>1
  <2> HIDE DEF ASU
  <2>10. /\ Conversation \in Seq(Exchanges) /\ Len(Conversation) = 5 + s + u
         /\ Conversation[1] = "dial" /\ Conversation[2] = "greeting"
         /\ s = 1 => Conversation[3] = "starttls"
         /\ u = 1 => Conversation[3 + s] = "auth"
         /\ Conversation[3 + s + u] = "envelope" /\ Conversation[4 + s + u] = "content"
         /\ Conversation[5 + s + u] = "quit"
    <3>1. Conversation = ASU \o E
      BY <2>6 DEF AS, ASU
    <3>2. /\ ASU \o E \in Seq(Exchanges) /\ Len(ASU \o E) = Len(ASU) + Len(E)
          /\ \A i \in 1..Len(ASU) + Len(E) :
               (ASU \o E)[i] = IF i <= Len(ASU) THEN ASU[i] ELSE E[i - Len(ASU)]
      BY <2>1, <2>9, ConcatProperties
    <3> QED BY <2>5, <2>7, <2>9, <3>1, <3>2
  <2>11. ASSUME NEW i \in 1..Len(Conversation)
         PROVE  /\ Conversation[i] \in {"auth", "content"} =>
                     i > 1 /\ (transport.encryption = "starttls" => i > 3)
                /\ Conversation[i] = "quit" => i > 1 /\ Conversation[i - 1] = "content"
    BY <2>7, <2>10
  <2> QED BY <1>2, <2>7, <2>10, <2>11 DEF Shape, Carriers
<1>3. CASE transport.kind = "graph"
  BY <1>3 DEF Conversation, GraphExchanges, Shape, Exchanges, Carriers
<1>4. CASE transport.kind = "agentmail"
  BY <1>4 DEF Conversation, AgentMailExchanges, Shape, Exchanges, Carriers
<1> QED BY <1>1, <1>2, <1>3, <1>4

\* The rest of a conversation from its place i on.
LEMMA Rest ==
  ASSUME NEW S, NEW C \in Seq(S), NEW i \in 1..Len(C), NEW todo,
         todo = SubSeq(C, i, Len(C))
  PROVE  /\ todo \in Seq(S) /\ Len(todo) = Len(C) - i + 1 /\ todo # <<>>
         /\ Head(todo) = C[i] /\ Tail(todo) = SubSeq(C, i + 1, Len(C))
         /\ Tail(todo) = <<>> <=> i = Len(C)
<1>1. i \in Int /\ Len(C) \in Int /\ \A k \in i..Len(C) : C[k] \in S
  OBVIOUS
<1>2. todo \in Seq(S) /\ Len(todo) = Len(C) - i + 1
  BY <1>1, SubSeqProperties
<1>3. Len(<<>>) = 0
  OBVIOUS
<1>4. todo # <<>>
  <2>1. Len(todo) # 0
    BY <1>1, <1>2
  <2> QED BY <1>3, <2>1, Zenon
<1>5. Head(todo) = C[i]
  OBVIOUS
<1>6. Tail(todo) = SubSeq(C, i + 1, Len(C))
  OBVIOUS
<1>7. Len(Tail(todo)) = Len(C) - i
  BY <1>1, <1>2, <1>4, HeadTailProperties
<1>8. Tail(todo) = <<>> <=> i = Len(C)
  <2>1. Tail(todo) = <<>> => i = Len(C)
    <3>1. Tail(todo) = <<>> => Len(Tail(todo)) = 0
      BY <1>3, Zenon
    <3> QED BY <1>1, <1>7, <3>1
  <2>2. i = Len(C) => Tail(todo) = <<>>
    BY <1>1, <1>6, SubSeqEmpty
  <2> QED BY <2>1, <2>2
<1> QED BY <1>2, <1>4, <1>5, <1>6, <1>8

-----------------------------------------------------------------------------
(* The invariant                                                           *)

\* What a Send is busy with, whoever it belongs to.
Sends == [todo: Seq(Exchanges), secure: BOOLEAN, until: Int]

\* Whatever has been said up to place i of a conversation secures the connection
\* of t, where t has one to secure: HTTPS and TLS from the start, STARTTLS once
\* it has been said.
Safe(t, i, secure) ==
  \/ t.kind # "smtp"
  \/ t.encryption = "starttls" /\ i > 3
  \/ t.encryption = "tls" /\ i > 1
  => secure

\* The Send s is at place i of the conversation C of t; the relay has `taken' the
\* mail if all that is left to say is QUIT.
TalksAt(i, C, t, s, taken) ==
  /\ s.todo = SubSeq(C, i, Len(C))
  /\ Safe(t, i, s.secure)
  /\ C[i] = "quit" => taken

Talking(p) ==
  \E i \in 1..Len(Conversation) :
    TalksAt(i, Conversation, transport, send[p], p \in mailbox)

\* The Send of a POST is at some place of its conversation while the handler waits
\* for it, within the time of its context, and says nothing at any other time.
SendInv(p) ==
  IF At(p, "sending")
  THEN /\ post[p].handed # Never /\ Talking(p)
       /\ send[p].until \in clock..post[p].due
  ELSE send[p].todo = <<>> \/ ~Alive

\* A mail is with the relay or on its way to it once the mailer has it, and not
\* before; the relay takes only what it received.
MailsHeld ==
  /\ transmitted \subseteq Handed /\ mailbox \subseteq transmitted
  /\ Handed \subseteq mailWire \cup mailbox
  /\ \A p \in Posts : post[p].stage = "unsent" => post[p].handed = Never

MailInv ==
  /\ transport \in Transports /\ send \in [Posts -> Sends]
  /\ \A p \in Posts : SendInv(p)
  /\ MailsHeld /\ SecretsCovered

-----------------------------------------------------------------------------
(* Steps that keep the invariant                                           *)

\* While the transport stays, so does its conversation.
LEMMA SameConversation ==
  ASSUME transport' = transport
  PROVE  Conversation' = Conversation
  BY DEF Conversation, SmtpExchanges, GraphExchanges, AgentMailExchanges

\* A POST whose handler does not move keeps its place in the conversation.
LEMMA OthersKeep ==
  ASSUME MailInv, NEW p \in Posts,
         UNCHANGED <<clock, transport>>, proc' = proc \/ (Alive /\ Alive'),
         post'[p] = post[p], send'[p] = send[p], mailbox \subseteq mailbox'
  PROVE  SendInv(p)'
<1>1. Conversation' = Conversation
  BY SameConversation
<1>2. SendInv(p) /\ (Alive' <=> Alive)
  BY DEF MailInv, Alive
<1>3. Talking(p) => Talking(p)'
  BY <1>1 DEF Talking, TalksAt
<1> QED BY <1>2, <1>3 DEF SendInv, At

\* The handler of p moves on with nobody left to talk to.
LEMMA SilentInv ==
  ASSUME MailInv, NEW p \in Posts,
         UNCHANGED <<clock, proc, mailWire, mailbox, transport, transmitted, exposed>>,
         \A q \in Posts \ {p} : post'[q] = post[q],
         post'[p].stage \notin {"unsent", "sending"}, post'[p].handed = post[p].handed,
         \/ send' = [send EXCEPT ![p] = Silent]
         \/ send' = send /\ Alive /\ post[p].stage # "sending"
  PROVE  MailInv'
<1>1. Silent \in Sends /\ Silent.todo = <<>>
  BY DEF Silent, Sends, Never
<1>2. /\ send' \in [Posts -> Sends] /\ send'[p].todo = <<>>
      /\ \A q \in Posts \ {p} : send'[q] = send[q]
  <2>1. CASE send' = [send EXCEPT ![p] = Silent]
    BY <1>1, <2>1 DEF MailInv
  <2>2. CASE send' = send /\ Alive /\ post[p].stage # "sending"
    <3>1. SendInv(p) /\ ~At(p, "sending")
      BY <2>2 DEF MailInv, At
    <3> QED BY <2>2, <3>1 DEF MailInv, SendInv
  <2> QED BY <2>1, <2>2
<1>3. SendInv(p)'
  BY <1>2 DEF SendInv, At
<1>4. ASSUME NEW q \in Posts PROVE SendInv(q)'
  BY <1>2, <1>3, OthersKeep
<1>5. \A q \in Posts : post'[q].handed = post[q].handed
  OBVIOUS
<1>6. MailsHeld'
  BY <1>5 DEF MailInv, MailsHeld, Handed
<1> QED BY <1>2, <1>4, <1>6 DEF MailInv, SecretsCovered

\* The request at place i of its conversation goes out, for p.
LEMMA ExchangeInv ==
  ASSUME HonestInv, MailInv, NEW p \in Posts, NEW i \in 1..Len(Conversation),
         NEW secure \in BOOLEAN, NEW due \in clock..Horizon,
         Exchange(p, SubSeq(Conversation, i, Len(Conversation)), secure, due),
         Safe(transport, i, secure),
         Conversation[i] = "auth" => secure \/ transport.local,
         Conversation[i] = "quit" => p \in mailbox,
         UNCHANGED <<clock, proc, mailbox, transport>>,
         mailWire \subseteq mailWire', p \in mailWire' \cup mailbox,
         \A q \in Posts \ {p} : post'[q] = post[q],
         post'[p].stage = "sending", post'[p].due = due, post'[p].handed # Never, Alive
  PROVE  MailInv'
<1> DEFINE C == Conversation
           todo == SubSeq(C, i, Len(C))
           s == [todo |-> todo, secure |-> secure, until |-> Patience(Head(todo), due)]
<1>1. Shape(C, transport) /\ C' = C
  BY ConversationShape, SameConversation DEF MailInv
<1>2. todo \in Seq(Exchanges) /\ Head(todo) = C[i]
  BY <1>1, Rest DEF Shape
<1>3. Patience(Head(todo), due) \in clock..due
  <2>1. clock \in 0..Horizon /\ Horizon \in Nat /\ DialTimeout \in Nat /\ HttpTimeout \in Nat
    BY ContactConfig, TransportConfig DEF HonestInv, TypeOK
  <2>2. ASSUME NEW d \in Nat PROVE Earlier(Until(d), due) \in clock..due
    BY <2>1 DEF Earlier, Until
  <2>3. due \in clock..due
    BY <2>1
  <2> HIDE DEF todo
  <2> QED BY <2>1, <2>2, <2>3 DEF Patience
<1>4. s \in Sends
  BY <1>2, <1>3 DEF Sends, HonestInv, TypeOK
<1>5. send' = [send EXCEPT ![p] = s]
  BY DEF Exchange
<1>6. /\ s.todo = todo /\ s.secure = secure /\ s.until \in clock..due
  BY <1>3
<1> HIDE DEF s
<1>7. /\ send' \in [Posts -> Sends] /\ send'[p] = s
      /\ \A q \in Posts \ {p} : send'[q] = send[q]
  BY <1>4, <1>5 DEF MailInv
<1>8. SendInv(p)'
  <2>1. TalksAt(i, C, transport, s, p \in mailbox)
    BY <1>6 DEF TalksAt
  <2>2. Talking(p)'
    BY <1>1, <1>7, <2>1 DEF Talking
  <2> QED BY <1>6, <1>7, <2>2 DEF SendInv, At, Alive
<1>9. ASSUME NEW q \in Posts PROVE SendInv(q)'
  BY <1>7, <1>8, OthersKeep
<1>10. p \in Handed' /\ Handed' = Handed \cup {p}
  BY DEF Handed
<1>11. transmitted' = transmitted \/ transmitted' = transmitted \cup {p}
  BY DEF Exchange
<1>12. MailsHeld'
  BY <1>10, <1>11 DEF MailInv, MailsHeld
<1>13. SecretsCovered'
  <2>1. CASE C[i] \notin {"auth", "content"} \/ secure \/ transport.local
    <3>1. exposed' = exposed
      BY <1>2, <2>1 DEF Exchange
    <3> QED BY <3>1 DEF MailInv, SecretsCovered
  <2>2. CASE C[i] \in {"auth", "content"} /\ ~secure /\ ~transport.local
    <3>1. C[i] = "content"
      BY <2>2
    <3>2. transport.encryption = "none"
      <4>1. transport.encryption \in {"starttls", "tls", "none"}
        BY TransportConfig DEF MailInv
      <4>2. i > 1 /\ (transport.encryption = "starttls" => i > 3)
        BY <1>1, <3>1 DEF Shape
      <4> QED BY <2>2, <4>1, <4>2 DEF Safe
    <3>3. exposed' = exposed \cup {<<"mail", "none">>}
      BY <1>2, <2>2, <3>1, <3>2 DEF Exchange
    <3> QED BY <3>3 DEF MailInv, SecretsCovered
  <2> QED BY <2>1, <2>2
<1> QED BY <1>7, <1>9, <1>12, <1>13 DEF MailInv

-----------------------------------------------------------------------------
(* One lemma per action: it keeps the invariant, and it is one of Contact   *)

\* What the invariant says of a POST whose Send is busy.
LEMMA Busy ==
  ASSUME HonestInv, MailInv, NEW p \in Posts, At(p, "sending")
  PROVE  /\ Alive /\ post[p] \in PostType /\ post[p].stage = "sending"
         /\ post[p].handed # Never /\ p \in mailWire \cup mailbox
         /\ send[p].until \in Int /\ clock <= send[p].until
         /\ send[p].until <= post[p].due /\ post[p].due \in clock..Horizon
         /\ \E i \in 1..Len(Conversation) :
              TalksAt(i, Conversation, transport, send[p], p \in mailbox)
<1>1. SendInv(p) /\ Alive /\ post[p] \in PostType /\ post[p].stage = "sending"
  BY AtStage DEF MailInv
<1>2. post[p].handed # Never /\ Talking(p) /\ send[p].until \in clock..post[p].due
  BY <1>1 DEF SendInv
<1>3. p \in Handed
  BY <1>2 DEF Handed
<1>4. clock \in 0..Horizon /\ Horizon \in Nat /\ post[p].due \in {Never} \cup 0..Horizon
  BY <1>1, ContactConfig DEF HonestInv, TypeOK, PostType, Time
<1> QED BY <1>1, <1>2, <1>3, <1>4 DEF MailInv, MailsHeld, Talking, Never

\* Send begins: the first request of the conversation goes out, which is no secret;
\* or the breaker refuses the POST.
LEMMA BeginSendInv ==
  ASSUME HonestInv, MailInv, NEW p \in Posts, BeginSend(p)
  PROVE  MailInv'
<1>1. /\ Alive /\ post[p] \in PostType /\ post[p].stage = "admitted"
      /\ HandToMailer(p) /\ transport' = transport
  BY AtStage DEF BeginSend, HandToMailer
<1>2. UNCHANGED <<clock, proc, mailbox>>
  BY <1>1 DEF HandToMailer, process
<1>3. clock \in 0..Horizon /\ Horizon \in Nat /\ SendTimeout \in Nat
  BY ContactConfig DEF HonestInv, TypeOK
<1> DEFINE r == [post[p] EXCEPT !.stage = "sending", !.handed = clock,
                                !.due = Until(SendTimeout)]
           d == Answered(post[p], "rate_limited_global")
<1>4. /\ r.stage = "sending" /\ r.handed = clock /\ r.due = Until(SendTimeout)
      /\ d.stage = "done" /\ d.handed = post[p].handed
  BY <1>1 DEF PostType, Answered
<1>5. \/ Step(p, r) /\ mailWire' = mailWire \cup {p}
      \/ Step(p, d) /\ mailWire' = mailWire
  BY <1>1 DEF HandToMailer
<1>6. post \in [Posts -> PostType]
  BY DEF HonestInv, TypeOK
<1> HIDE DEF r, d
<1>7. CASE Step(p, r) /\ mailWire' = mailWire \cup {p}
  <2>1. post'[p] = r /\ \A q \in Posts \ {p} : post'[q] = post[q]
    BY <1>6, <1>7 DEF Step
  <2>2. r.due \in clock..Horizon /\ r.handed # Never
    BY <1>3, <1>4 DEF Until, Never
  <2>3. Exchange(p, Conversation, transport.kind # "smtp", r.due)
    BY <1>4, <2>1 DEF BeginSend
  <2>4. Shape(Conversation, transport)
    BY ConversationShape DEF MailInv
  <2>5. /\ 1 \in 1..Len(Conversation)
        /\ Conversation = SubSeq(Conversation, 1, Len(Conversation))
        /\ Conversation[1] \notin {"auth", "quit"}
    <3>1. Conversation \in Seq(Exchanges) /\ Len(Conversation) >= 1
      BY <2>4 DEF Shape
    <3>2. Conversation[1] \notin {"auth", "quit"}
      BY <2>4 DEF Shape
    <3> QED BY <3>1, <3>2
  <2>6. Exchange(p, SubSeq(Conversation, 1, Len(Conversation)), transport.kind # "smtp",
                 r.due)
    <3> DEFINE rest == SubSeq(Conversation, 1, Len(Conversation))
    <3>1. Conversation = rest
      BY <2>5
    <3> HIDE DEF rest
    <3>2. Exchange(p, rest, transport.kind # "smtp", r.due)
      BY <2>3, <3>1
    <3> QED BY <3>2 DEF rest
  <2>7. Safe(transport, 1, transport.kind # "smtp")
    BY DEF Safe
  <2>8. (transport.kind # "smtp") \in BOOLEAN
    OBVIOUS
  <2> DEFINE secure == transport.kind # "smtp"
             due == r.due
  <2>9. /\ secure \in BOOLEAN /\ due \in clock..Horizon
        /\ Exchange(p, SubSeq(Conversation, 1, Len(Conversation)), secure, due)
        /\ Safe(transport, 1, secure)
        /\ post'[p].due = due /\ post'[p].stage = "sending" /\ post'[p].handed # Never
    BY <1>4, <2>1, <2>2, <2>6, <2>7, <2>8
  <2> HIDE DEF secure, due
  <2> QED BY <1>1, <1>2, <1>7, <2>1, <2>5, <2>9, ExchangeInv
<1>8. CASE Step(p, d) /\ mailWire' = mailWire
  <2>1. post'[p] = d /\ \A q \in Posts \ {p} : post'[q] = post[q]
    BY <1>6, <1>8 DEF Step
  <2>2. UNCHANGED <<send, transmitted, exposed>>
    BY <1>4, <2>1 DEF BeginSend
  <2> QED BY <1>1, <1>2, <1>4, <1>8, <2>1, <2>2, SilentInv
<1> QED BY <1>5, <1>7, <1>8

\* A good reply: the connection is as secure as the next request needs, and QUIT
\* comes after the relay has said that it has the mail.
LEMMA ReplyInv ==
  ASSUME HonestInv, MailInv, NEW p \in Posts, Reply(p)
  PROVE  MailInv'
<1>1. PICK i \in 1..Len(Conversation) :
        TalksAt(i, Conversation, transport, send[p], p \in mailbox)
  BY Busy DEF Reply
<1> DEFINE C == Conversation
           next == Tail(send[p].todo)
           step == Head(send[p].todo)
           secure == \/ send[p].secure
                     \/ step = "starttls"
                     \/ step = "dial" /\ transport.encryption = "tls"
<1>2. /\ Alive /\ post[p].stage = "sending" /\ post[p].handed # Never
      /\ p \in mailWire \cup mailbox /\ post[p].due \in clock..Horizon
  BY Busy DEF Reply
<1>3. /\ next # <<>> /\ (Head(next) = "auth" => secure \/ transport.local)
      /\ Exchange(p, next, secure, post[p].due) /\ Confirmed(p)
      /\ UNCHANGED <<vars, transport>>
  BY DEF Reply, After
<1>4. Shape(C, transport)
  BY ConversationShape DEF MailInv
<1>5. /\ step = C[i] /\ next = SubSeq(C, i + 1, Len(C)) /\ i # Len(C)
  BY <1>1, <1>3, <1>4, Rest DEF Shape, TalksAt
<1>6. i + 1 \in 1..Len(C)
  BY <1>4, <1>5 DEF Shape
<1>7. Head(next) = C[i + 1]
  BY <1>4, <1>5, <1>6, Rest DEF Shape
<1>8. Safe(transport, i + 1, secure)
  <2> SUFFICES ASSUME \/ transport.kind # "smtp"
                      \/ transport.encryption = "starttls" /\ i + 1 > 3
                      \/ transport.encryption = "tls" /\ i + 1 > 1
               PROVE  secure
    BY DEF Safe
  <2>1. CASE \/ transport.kind # "smtp"
             \/ transport.encryption = "starttls" /\ i > 3
             \/ transport.encryption = "tls" /\ i > 1
    BY <1>1, <2>1 DEF TalksAt, Safe
  <2>2. CASE transport.kind = "smtp" /\ transport.encryption = "starttls" /\ i = 3
    BY <1>4, <1>5, <2>2 DEF Shape
  <2>3. CASE transport.kind = "smtp" /\ transport.encryption = "tls" /\ i = 1
    BY <1>4, <1>5, <2>3 DEF Shape
  <2> QED BY <2>1, <2>2, <2>3
<1>9. C[i + 1] = "quit" => p \in mailbox
  <2>1. C[i + 1] = "quit" => C[(i + 1) - 1] \in Carriers
    BY <1>4, <1>6 DEF Shape
  <2>2. (i + 1) - 1 = i
    BY <1>6
  <2>3. step \in Carriers => p \in mailbox
    BY <1>3 DEF Confirmed
  <2> HIDE DEF step, next, C
  <2> QED BY <2>1, <2>2, <2>3, <1>5
<1>10. secure \in BOOLEAN
  OBVIOUS
<1>11. UNCHANGED <<clock, proc, mailbox, transport, mailWire, post>>
  BY <1>3 DEF vars, process, outside
<1>12. /\ Exchange(p, SubSeq(C, i + 1, Len(C)), secure, post[p].due)
       /\ C[i + 1] = "auth" => secure \/ transport.local
  <2> HIDE DEF secure, C
  <2>1. Exchange(p, SubSeq(C, i + 1, Len(C)), secure, post[p].due)
    BY <1>3, <1>5
  <2> QED BY <1>3, <1>7, <2>1
<1> HIDE DEF secure, next, step
<1> QED BY <1>2, <1>6, <1>8, <1>9, <1>10, <1>11, <1>12, ExchangeInv

\* Send returns nil: the last reply was to QUIT or to a request that held the mail,
\* so the relay has it.
LEMMA SendReturnsInv ==
  ASSUME HonestInv, MailInv, NEW p \in Posts, SendReturns(p)
  PROVE  MailInv' /\ SendSucceeds(p)
<1>1. PICK i \in 1..Len(Conversation) :
        TalksAt(i, Conversation, transport, send[p], p \in mailbox)
  BY Busy DEF SendReturns
<1>2. /\ post[p] \in PostType /\ At(p, "sending") /\ Confirmed(p)
      /\ Tail(send[p].todo) = <<>>
  BY Busy DEF SendReturns
<1>3. Shape(Conversation, transport)
  BY ConversationShape DEF MailInv
<1>4. Head(send[p].todo) = Conversation[i] /\ i = Len(Conversation)
  <2> DEFINE todo == send[p].todo
  <2>1. /\ Conversation \in Seq(Exchanges) /\ Tail(todo) = <<>>
        /\ todo = SubSeq(Conversation, i, Len(Conversation))
    BY <1>1, <1>2, <1>3 DEF Shape, TalksAt
  <2> HIDE DEF todo
  <2>2. Head(todo) = Conversation[i] /\ (Tail(todo) = <<>> <=> i = Len(Conversation))
    BY <2>1, Rest
  <2>3. Head(todo) = Conversation[i] /\ i = Len(Conversation)
    BY <2>1, <2>2
  <2> QED BY <2>3 DEF todo
<1>5. p \in mailbox
  BY <1>1, <1>2, <1>3, <1>4 DEF Shape, TalksAt, Confirmed
<1> DEFINE r == [post[p] EXCEPT !.stage = "mailed"]
<1>6. r.stage = "mailed" /\ r.handed = post[p].handed
  BY <1>2 DEF PostType
<1>7. Step(p, r) /\ post \in [Posts -> PostType]
  BY DEF SendReturns, HonestInv, TypeOK
<1> HIDE DEF r
<1>8. post'[p] = r /\ \A q \in Posts \ {p} : post'[q] = post[q]
  BY <1>7 DEF Step
<1>9. /\ UNCHANGED <<clock, proc, mailWire, mailbox, transport, transmitted, exposed>>
      /\ send' = [send EXCEPT ![p] = Silent]
  BY DEF SendReturns, process, outside
<1>10. MailInv'
  BY <1>6, <1>8, <1>9, SilentInv
<1>11. SendSucceeds(p)
  BY <1>2, <1>5 DEF SendReturns, SendSucceeds
<1> QED BY <1>10, <1>11

\* Send returns an error.
LEMMA GiveUpInv ==
  ASSUME HonestInv, MailInv, NEW p \in Posts, GiveUp(p)
  PROVE  MailInv'
<1> DEFINE r == Answered(post[p], "send_failed")
<1>1. post[p] \in PostType
  BY DEF HonestInv, TypeOK
<1>2. r.stage = "done" /\ r.handed = post[p].handed
  BY <1>1 DEF Answered, PostType
<1>3. Step(p, r) /\ post \in [Posts -> PostType]
  BY DEF GiveUp, SendFails, HonestInv, TypeOK
<1> HIDE DEF r
<1>4. post'[p] = r /\ \A q \in Posts \ {p} : post'[q] = post[q]
  BY <1>3 DEF Step
<1>5. /\ UNCHANGED <<clock, proc, mailWire, mailbox, transport, transmitted, exposed>>
      /\ send' = [send EXCEPT ![p] = Silent]
  BY DEF GiveUp, SendFails, process, outside
<1> QED BY <1>2, <1>4, <1>5, SilentInv

\* The relay takes a mail: one it has received, which was on the wire.
LEMMA RelayTakesInv ==
  ASSUME HonestInv, MailInv, NEW p \in Posts, RelayTakes(p)
  PROVE  MailInv' /\ RelayDecides(p)
<1>1. /\ p \in transmitted \ mailbox /\ mailbox' = mailbox \cup {p}
      /\ mailWire' = mailWire \ {p}
      /\ UNCHANGED <<clock, process, limiters, post, issueWire, issues, mailVars>>
  BY DEF RelayTakes
<1>2. UNCHANGED <<clock, proc, post, transport, send, transmitted, exposed>>
  BY <1>1 DEF process, mailVars
<1>3. p \in mailWire
  BY <1>1 DEF MailInv, MailsHeld
<1>4. ASSUME NEW q \in Posts PROVE SendInv(q)'
  BY <1>1, <1>2, OthersKeep
<1>5. MailsHeld'
  BY <1>1, <1>2 DEF MailInv, MailsHeld, Handed
<1>6. MailInv'
  BY <1>2, <1>4, <1>5 DEF MailInv, SecretsCovered
<1>7. RelayDecides(p)
  BY <1>1, <1>3 DEF RelayDecides
<1> QED BY <1>6, <1>7

\* A step of a handler that is not sending, and does not start to.
LEMMA OtherStepQuiet ==
  ASSUME HonestInv, NEW p \in Posts,
         \/ Arrive(p) \/ BodyFails(p) \/ ParseForm(p) \/ Screen(p)
         \/ FileIssue(p) \/ IssueFiled(p) \/ IssueFails(p),
         post[p].stage = "unsent" => post[p].handed = Never
  PROVE  /\ UNCHANGED <<clock, proc, mailWire, mailbox>>
         /\ \A q \in Posts \ {p} : post'[q] = post[q]
         /\ post'[p].stage \notin {"unsent", "sending"}
         /\ post'[p].handed = post[p].handed
         /\ Alive /\ post[p].stage # "sending"
<1> DEFINE r0 == post[p]
           Quiet(r) == Step(p, r) /\ r.stage \notin {"unsent", "sending"}
                         /\ r.handed = r0.handed
<1>1. post \in [Posts -> PostType] /\ r0 \in PostType
  BY DEF HonestInv, TypeOK
<1>2. ASSUME NEW r, Quiet(r)
      PROVE  /\ \A q \in Posts \ {p} : post'[q] = post[q]
             /\ post'[p].stage \notin {"unsent", "sending"}
             /\ post'[p].handed = post[p].handed
  BY <1>1, <1>2 DEF Step
<1>3. ASSUME NEW r \in PostType, NEW a
      PROVE  Answered(r, a).stage = "done" /\ Answered(r, a).handed = r.handed
  BY DEF Answered, PostType
<1>4. CASE Arrive(p)
  <2>1. PICK ip \in Ips, flaws \in Offers :
          Step(p, [Unsent EXCEPT !.stage = "reading", !.ip = ip, !.flaws = flaws,
                                 !.due = Until(ReadTimeout), !.began = clock,
                                 !.boot = boot])
    BY <1>4 DEF Arrive
  <2> DEFINE r == [Unsent EXCEPT !.stage = "reading", !.ip = ip, !.flaws = flaws,
                                 !.due = Until(ReadTimeout), !.began = clock,
                                 !.boot = boot]
  <2>2. r.stage = "reading" /\ r.handed = Never
    BY DEF Unsent
  <2>3. Quiet(r)
    BY <1>4, <2>1, <2>2 DEF Arrive
  <2> HIDE DEF r, Quiet
  <2> QED BY <1>2, <1>4, <2>3 DEF Arrive, Alive, process, outside
<1>5. CASE BodyFails(p)
  <2>1. PICK a \in {"too_large", "unreadable"} : Step(p, Answered(post[p], a))
    BY <1>5 DEF BodyFails
  <2>2. Quiet(Answered(post[p], a))
    BY <1>1, <1>3, <2>1
  <2> HIDE DEF Quiet
  <2> QED BY <1>2, <1>5, <2>2 DEF BodyFails, At, process, outside
<1>6. CASE ParseForm(p)
  <2> DEFINE q == [post[p] EXCEPT !.parsed = clock]
             r == [q EXCEPT !.stage = "admitted"]
  <2>1. Step(p, r) \/ Step(p, Answered(q, "rate_limited_ip"))
    BY <1>6 DEF ParseForm
  <2>2. /\ q \in PostType /\ q.handed = r0.handed
        /\ r.stage = "admitted" /\ r.handed = r0.handed
    BY <1>1 DEF PostType, HonestInv, TypeOK, Time
  <2>3. Quiet(r) \/ Quiet(Answered(q, "rate_limited_ip"))
    <3> HIDE DEF q, r, r0
    <3> QED BY <1>3, <2>1, <2>2
  <2>4. \E x : Quiet(x)
    <3> HIDE DEF q, r, Quiet
    <3> QED BY <2>3
  <2> HIDE DEF Quiet
  <2> QED BY <1>2, <1>6, <2>4 DEF ParseForm, At, process, outside
<1>7. CASE Screen(p)
  <2>1. Step(p, Answered(post[p], Refusal(post[p])))
    BY <1>7 DEF Screen
  <2>2. Quiet(Answered(post[p], Refusal(post[p])))
    BY <1>1, <1>3, <2>1
  <2> HIDE DEF Quiet
  <2> QED BY <1>2, <1>7, <2>2 DEF Screen, At, process, outside
<1>8. CASE FileIssue(p)
  <2> DEFINE r == [post[p] EXCEPT !.stage = "filing", !.filed = clock,
                                  !.due = Until(GithubPatience)]
             c == [post[p] EXCEPT !.github = "capped"]
  <2>1. Step(p, r) \/ Step(p, Answered(c, "sent")) \/ Step(p, Answered(r0, "sent"))
    BY <1>8 DEF FileIssue
  <2>2. c \in PostType /\ c.handed = r0.handed /\ r.stage = "filing" /\ r.handed = r0.handed
    BY <1>1 DEF PostType
  <2>3. Quiet(r) \/ Quiet(Answered(c, "sent")) \/ Quiet(Answered(r0, "sent"))
    <3> HIDE DEF r, c, r0
    <3> QED BY <1>1, <1>3, <2>1, <2>2
  <2>4. \E x : Quiet(x)
    <3> HIDE DEF c, r, Quiet
    <3> QED BY <2>3
  <2>5. UNCHANGED <<clock, proc, mailWire, mailbox>> /\ At(p, "mailed")
    BY <1>8 DEF FileIssue, process
  <2> HIDE DEF Quiet
  <2> QED BY <1>2, <2>4, <2>5 DEF At
<1>9. CASE IssueFiled(p) \/ IssueFails(p)
  <2>1. PICK g \in {"filed", "failed"} :
          Step(p, Answered([post[p] EXCEPT !.github = g], "sent"))
    BY <1>9 DEF IssueFiled, IssueFails
  <2> DEFINE c == [post[p] EXCEPT !.github = g]
  <2>2. c \in PostType /\ c.handed = r0.handed
    BY <1>1 DEF PostType
  <2>3. Quiet(Answered(c, "sent"))
    <3> HIDE DEF c, r0
    <3>1. Step(p, Answered(c, "sent"))
      BY <2>1 DEF c
    <3> QED BY <1>3, <2>2, <3>1
  <2> HIDE DEF Quiet
  <2> QED BY <1>2, <1>9, <2>3 DEF IssueFiled, IssueFails, At, process, outside
<1> QED BY <1>4, <1>5, <1>6, <1>7, <1>8, <1>9

\* Whatever else a handler or GitHub does leaves the conversations alone.
LEMMA OtherStepsInv ==
  ASSUME HonestInv, MailInv, NEW p \in Posts, OtherSteps(p)
  PROVE  MailInv'
<1>1. UNCHANGED <<transport, send, transmitted, exposed>>
  BY DEF OtherSteps, mailVars
<1>2. CASE GithubDecides(p)
  <2>1. UNCHANGED <<clock, proc, post, mailWire, mailbox>>
    BY <1>2 DEF GithubDecides, process
  <2>2. ASSUME NEW q \in Posts PROVE SendInv(q)'
    BY <1>1, <2>1, OthersKeep
  <2> QED BY <1>1, <2>1, <2>2 DEF MailInv, MailsHeld, Handed, SecretsCovered
<1>3. CASE \/ Arrive(p) \/ BodyFails(p) \/ ParseForm(p) \/ Screen(p)
           \/ FileIssue(p) \/ IssueFiled(p) \/ IssueFails(p)
  <2>1. post[p].stage = "unsent" => post[p].handed = Never
    BY DEF MailInv, MailsHeld
  <2>2. /\ UNCHANGED <<clock, proc, mailWire, mailbox>>
        /\ \A q \in Posts \ {p} : post'[q] = post[q]
        /\ post'[p].stage \notin {"unsent", "sending"}
        /\ post'[p].handed = post[p].handed
        /\ Alive /\ post[p].stage # "sending"
    BY <1>3, <2>1, OtherStepQuiet
  <2> QED BY <1>1, <2>2, SilentInv
<1> QED BY <1>2, <1>3 DEF OtherSteps

\* The process is told to stop, or stops: a dead handler talks to nobody.
LEMMA ProcessStepsInv ==
  ASSUME HonestInv, MailInv, ProcessSteps
  PROVE  MailInv'
<1>1. UNCHANGED <<transport, send, transmitted, exposed>>
  BY DEF ProcessSteps, mailVars
<1>2. CASE Sigterm
  <2>1. UNCHANGED <<clock, post, mailWire, mailbox>> /\ Alive /\ Alive'
    BY <1>2 DEF Sigterm, Alive, outside
  <2>2. ASSUME NEW q \in Posts PROVE SendInv(q)'
    BY <1>1, <2>1, OthersKeep
  <2> QED BY <1>1, <2>1, <2>2 DEF MailInv, MailsHeld, Handed, SecretsCovered
<1>3. CASE Exit
  <2>1. ~Alive' /\ UNCHANGED <<mailWire, mailbox>>
    BY <1>3 DEF Exit, Alive, outside
  <2>2. ASSUME NEW q \in Posts PROVE SendInv(q)'
    BY <2>1 DEF SendInv, At
  <2>3. ASSUME NEW q \in Posts
        PROVE  /\ post'[q].handed = post[q].handed
               /\ post'[q].stage = "unsent" => post[q].stage = "unsent"
    <3>1. post[q] \in PostType
      BY DEF HonestInv, TypeOK
    <3>2. post'[q] = IF q \in InFlight
                     THEN [post[q] EXCEPT !.stage = "killed", !.ended = clock]
                     ELSE post[q]
      BY <1>3 DEF Exit
    <3> DEFINE k == [post[q] EXCEPT !.stage = "killed", !.ended = clock]
    <3>3. k.handed = post[q].handed /\ k.stage = "killed"
      BY <3>1 DEF PostType
    <3> HIDE DEF k
    <3>4. post'[q] = k \/ post'[q] = post[q]
      BY <3>2 DEF k
    <3> QED BY <3>3, <3>4
  <2>4. Handed' = Handed
    BY <2>3 DEF Handed
  <2> QED BY <1>1, <2>1, <2>2, <2>3, <2>4 DEF MailInv, MailsHeld, SecretsCovered
<1> QED BY <1>2, <1>3 DEF ProcessSteps, DrainEnds, Crash

\* A process that starts has nobody to talk to yet.
LEMMA RestartInv ==
  ASSUME HonestInv, MailInv, RestartAfresh
  PROVE  MailInv'
<1>1. /\ UNCHANGED <<post, mailWire, mailbox, transmitted, exposed>>
      /\ transport' \in Transports /\ send' = [p \in Posts |-> Silent] /\ ~Alive
  BY DEF RestartAfresh, Restart, Alive, outside
<1>2. Silent \in Sends /\ Silent.todo = <<>>
  BY DEF Silent, Sends, Never
<1>3. ASSUME NEW q \in Posts PROVE SendInv(q)'
  <2>1. post[q].stage # "sending"
    BY <1>1 DEF HonestInv, TypeOK, InFlight
  <2> QED BY <1>1, <1>2, <2>1 DEF SendInv, At
<1> QED BY <1>1, <1>2, <1>3 DEF MailInv, MailsHeld, Handed, SecretsCovered

\* Time passes up to the end of an exchange, and so no further than the end of the
\* context of its Send.
LEMMA MailTickInv ==
  ASSUME HonestInv, MailInv, MailTick
  PROVE  MailInv' /\ Tick
<1>1. UNCHANGED <<process, limiters, post, outside, mailVars>>
  BY DEF MailTick
<1>2. UNCHANGED <<proc, post, mailWire, mailbox, transport, send, transmitted, exposed>>
  BY <1>1 DEF process, outside, mailVars
<1>3. clock \in 0..Horizon /\ clock' \in {clock, clock + 1}
  BY DEF MailTick, HonestInv, TypeOK
<1>4. Conversation' = Conversation
  BY <1>2, SameConversation
<1>5. ASSUME NEW q \in Posts, At(q, "sending")
      PROVE  /\ q \in InFlight /\ ~Overdue(q) /\ clock < send[q].until
             /\ send[q].until \in Int /\ send[q].until <= post[q].due
             /\ post[q].due \in Int /\ Talking(q) /\ post[q].handed # Never
  <2>1. /\ post[q].stage = "sending" /\ send[q].until \in Int
        /\ send[q].until <= post[q].due /\ post[q].due \in clock..Horizon
        /\ post[q].handed # Never /\ Talking(q)
    BY <1>5, Busy DEF Talking
  <2>2. q \in InFlight
    BY <2>1 DEF InFlight
  <2>3. clock < send[q].until
    BY <2>1, <2>2 DEF MailTick
  <2> QED BY <1>3, <2>1, <2>2, <2>3 DEF Overdue
<1>6. ASSUME NEW q \in Posts PROVE SendInv(q)'
  <2>1. CASE At(q, "sending")
    <3>1. Talking(q)'
      BY <1>2, <1>4, <1>5, <2>1 DEF Talking, TalksAt
    <3>2. send'[q].until \in clock'..post'[q].due
      BY <1>2, <1>3, <1>5, <2>1
    <3> QED BY <1>2, <1>5, <2>1, <3>1, <3>2 DEF SendInv, At, Alive
  <2>2. CASE ~At(q, "sending")
    BY <1>2, <2>2 DEF MailInv, SendInv, At, Alive
  <2> QED BY <2>1, <2>2
<1>7. MailInv'
  BY <1>2, <1>6 DEF MailInv, MailsHeld, Handed, SecretsCovered
<1>8. ASSUME NEW q \in InFlight
      PROVE  post[q].stage \in {"reading", "sending", "filing"} /\ ~Overdue(q)
  <2>1. q \in Posts /\ Alive
    BY DEF InFlight, HonestInv, TypeOK
  <2>2. \/ post[q].stage = "sending"
        \/ post[q].stage \in {"reading", "filing"} /\ ~Overdue(q)
    BY DEF MailTick
  <2> QED BY <1>5, <2>1, <2>2 DEF At
<1>9. Tick
  BY <1>8 DEF MailTick, Tick
<1> QED BY <1>7, <1>9

-----------------------------------------------------------------------------
(* The theorems                                                            *)

\* Nobody has said anything yet.
LEMMA InitMail == MailInit => HonestInv /\ MailInv
<1> SUFFICES ASSUME MailInit PROVE HonestInv /\ MailInv
  OBVIOUS
<1>1. HonestInv
  BY InitHonest DEF MailInit
<1>2. Silent \in Sends /\ Silent.todo = <<>>
  BY DEF Silent, Sends, Never
<1>3. \A p \in Posts : post[p].stage = "unsent" /\ post[p].handed = Never
  BY DEF MailInit, Init, Unsent
<1>4. MailsHeld
  BY <1>3 DEF MailInit, Init, MailsHeld, Handed
<1>5. ASSUME NEW p \in Posts PROVE SendInv(p)
  BY <1>2, <1>3 DEF MailInit, SendInv, At
<1> QED BY <1>1, <1>2, <1>4, <1>5 DEF MailInit, MailInv, SecretsCovered

\* Every step of the service with its transports is a step of Contact, or one that
\* Contact does not see, and keeps the invariant.
LEMMA MailStep ==
  ASSUME HonestInv, MailInv, [MailNext]_allVars
  PROVE  [Next]_vars /\ HonestInv' /\ MailInv'
<1>1. [Next]_vars /\ MailInv'
  <2>1. ASSUME NEW p \in Posts, BeginSend(p) PROVE Next /\ MailInv'
    BY <2>1, BeginSendInv DEF BeginSend, Next, Handler
  <2>2. ASSUME NEW p \in Posts, Reply(p) PROVE UNCHANGED vars /\ MailInv'
    BY <2>2, ReplyInv DEF Reply
  <2>3. ASSUME NEW p \in Posts, SendReturns(p) PROVE Next /\ MailInv'
    BY <2>3, SendReturnsInv DEF Next, Handler
  <2>4. ASSUME NEW p \in Posts, GiveUp(p) PROVE Next /\ MailInv'
    BY <2>4, GiveUpInv DEF GiveUp, Next, Handler
  <2>5. ASSUME NEW p \in Posts, RelayTakes(p) PROVE Next /\ MailInv'
    BY <2>5, RelayTakesInv DEF Next
  <2>6. ASSUME NEW p \in Posts, OtherSteps(p) PROVE Next /\ MailInv'
    BY <2>6, OtherStepsInv DEF OtherSteps, Next, Handler
  <2>7. CASE ProcessSteps
    BY <2>7, ProcessStepsInv DEF ProcessSteps, Next
  <2>8. CASE RestartAfresh
    BY <2>8, RestartInv DEF RestartAfresh, Next
  <2>9. CASE MailTick
    BY <2>9, MailTickInv DEF Next
  <2>10. CASE UNCHANGED allVars
    <3>1. UNCHANGED <<vars, clock, proc, post, mailWire, mailbox, mailVars>>
      BY <2>10 DEF allVars, vars, process, outside
    <3>2. UNCHANGED <<transport, send, transmitted, exposed>>
      BY <3>1 DEF mailVars
    <3>3. ASSUME NEW q \in Posts PROVE SendInv(q)'
      BY <3>1, <3>2, OthersKeep
    <3>4. MailInv'
      BY <3>1, <3>2, <3>3 DEF MailInv, MailsHeld, Handed, SecretsCovered
    <3> QED BY <3>1, <3>4
  <2> QED BY <2>1, <2>2, <2>3, <2>4, <2>5, <2>6, <2>7, <2>8, <2>9, <2>10 DEF MailNext
<1>2. HonestInv'
  BY <1>1, NextHonest
<1> QED BY <1>1, <1>2

\* In every reachable state what a Send has yet to say is the rest of its
\* conversation, in time, and over a connection as secure as it should be by then.
THEOREM MailInvariance == MailSpec => [](HonestInv /\ MailInv)
<1>1. HonestInv /\ MailInv /\ [MailNext]_allVars => (HonestInv /\ MailInv)'
  BY MailStep
<1> QED BY InitMail, <1>1, PTL DEF MailSpec

\* The type invariant of the transports: no exchange outlives the context of its
\* Send, and the relay has only mails that were sent to it.
THEOREM MailTypes == MailSpec => []MailTypeOK
<1>1. MailInv => MailTypeOK
  <2> SUFFICES ASSUME MailInv, NEW p \in Posts
               PROVE  IF At(p, "sending")
                      THEN /\ \E i \in 1..Len(Conversation) :
                                send[p].todo = SubSeq(Conversation, i, Len(Conversation))
                           /\ send[p].until \in clock..post[p].due
                      ELSE send[p].todo = <<>> \/ ~Alive
    BY DEF MailInv, MailTypeOK, MailsHeld
  <2>1. SendInv(p)
    BY DEF MailInv
  <2> QED BY <2>1 DEF SendInv, Talking, TalksAt
<1> QED BY MailInvariance, <1>1, PTL

\* No password ever crosses the network in clear, and no mail but where the
\* configuration says that there is no encryption, in whatever order replies come
\* (mailer.go:163-175).
THEOREM SecretsKept == MailSpec => []SecretsCovered
<1>1. MailInv => SecretsCovered
  BY DEF MailInv
<1> QED BY MailInvariance, <1>1, PTL

\* The service with its three transports implements Contact: whatever is proved of
\* Contact is true of it, the honest answers among it.
THEOREM MailRefinement == MailSpec => ImplementsContact
<1>1. MailInit => Init
  BY DEF MailInit
<1>2. HonestInv /\ MailInv /\ [MailNext]_allVars => [Next]_vars
  BY MailStep
<1> QED BY MailInvariance, <1>1, <1>2, PTL DEF MailSpec, ImplementsContact, Spec

\* So, over SMTP, Graph or AgentMail, a client that is thanked has its mail with the
\* relay, and an issue has its mail (server.go:309).
COROLLARY MailHonest == MailSpec => [](AnswersHonest /\ IssuesFollowMail)
<1>1. HonestInv => AnswersHonest /\ IssuesFollowMail
  BY DEF HonestInv
<1> QED BY MailInvariance, <1>1, PTL
================================================================================
