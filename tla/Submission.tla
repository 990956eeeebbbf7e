------------------------------- MODULE Submission -------------------------------
(***************************************************************************)
(* What the contact service makes of a form: validation, the markdown of   *)
(* the issue and the header of the mail (submission.go, mailer.go).  Among *)
(* the characters, "bt" is a backtick and "E" a letter of two bytes.       *)
(***************************************************************************)
EXTENDS Settings

CONSTANTS maxName, maxSummary, maxDetails, maxPage,    \* length limits
          maxTitle                                     \* 120, of the subject

\* len: the number of bytes.
Bytes(s) == Len(s) + Cardinality({i \in DOMAIN s : s[i] = "E"})

-----------------------------------------------------------------------------
(* The closed set of kinds                                                 *)

kindLabels  == [bug |-> "Bug report", request |-> "Request",
                feedback |-> "Feedback", other |-> "Other"]
gitHubLabel == [bug |-> "bug", request |-> "enhancement",
                feedback |-> "feedback", other |-> "question"]

\* The kind a text names, as a set of at most one.
parseKind(s) == {k \in DOMAIN kindLabels : ToLower(TrimSpace(s)) = <<k>>}

-----------------------------------------------------------------------------
(* Validation                                                              *)

\* net/mail.ParseAddress gives back what it was given: an address and no more.
IsAddress(s) ==
  \E i \in DOMAIN s : /\ s[i] = "@" /\ 1 < i /\ i < Len(s)
                      /\ \A j \in DOMAIN s : j # i => s[j] \notin Blank \cup {"@", "<", ">"}

validEmail(s) ==
  /\ \A i \in DOMAIN s : s[i] \notin {"\r", "\n"}
  /\ Cardinality({i \in DOMAIN s : s[i] = "@"}) = 1
  /\ IsAddress(s)

\* The fields that newSubmission complains of, and what it makes of the rest.
FieldErrors(f, c) ==
  LET email == TrimSpace(ToLower(f.email))
  IN  {k \in {"type"}    : parseKind(f.type) = {}}
        \cup {k \in {"name"}    : Bytes(TrimSpace(f.name)) \notin 1..maxName}
        \cup {k \in {"email"}   : ~(validEmail(email) /\ senderAllowed(c, email))}
        \cup {k \in {"summary"} : Bytes(TrimSpace(f.summary)) \notin 1..maxSummary}
        \cup {k \in {"details"} : Bytes(TrimSpace(f.details)) > maxDetails}
        \cup {k \in {"page"}    : Bytes(TrimSpace(f.page)) > maxPage}

newSubmission(f) ==
  [Kind |-> CHOOSE k \in parseKind(f.type) : TRUE, Name |-> TrimSpace(f.name),
   Email |-> TrimSpace(ToLower(f.email)), Page |-> TrimSpace(f.page),
   Summary |-> TrimSpace(f.summary), Details |-> TrimSpace(f.details)]

-----------------------------------------------------------------------------
(* The issue                                                               *)

truncateRunes(s, n) ==
  IF Len(s) <= n THEN s
  ELSE IF n <= 1 THEN <<"...">> ELSE Append(SubSeq(s, 1, n - 1), "...")

subject(sub, wikiName) ==
  <<"[">> \o wikiName \o <<"] ", kindLabels[sub.Kind], " - ">>
    \o truncateRunes(sub.Summary, maxTitle)

\* The lengths of the runs of backticks that end at each position.
BacktickRuns(s) ==
  LET run[i \in 0..Len(s)] ==
        IF i = 0 THEN 0 ELSE IF s[i] = "bt" THEN run[i - 1] + 1 ELSE 0
  IN  {run[i] : i \in 0..Len(s)}

\* Bug: as long as the longest run, which then closes the fence.
FenceLengthShort(s) == Max({3} \cup BacktickRuns(s))

FenceLength(s) == Max({3, Max(BacktickRuns(s)) + 1})

mdFence(s) ==
  LET fence == [i \in 1..FenceLength(s) |-> "bt"]
  IN  IF s = <<>> THEN <<"_(none provided)_">> ELSE fence \o <<"\n">> \o s \o <<"\n">> \o fence

\* Prose of our own is a word; what the submitter wrote is in fences.
issueBody(sub) ==
  <<"**Type:**", "\n", "**Submitted:**", "\n", "\n", "**From**", "\n">>
    \o mdFence(sub.Name \o <<" ", "<">> \o sub.Email \o <<">">>)
    \o (IF sub.Page = <<>> THEN <<>>
        ELSE <<"\n", "\n", "**Page/Area:**", "\n">> \o mdFence(sub.Page))
    \o <<"\n", "\n", "**Summary:**", "\n">> \o mdFence(sub.Summary)
    \o <<"\n", "\n", "**Details:**", "\n">>
    \o (IF sub.Details = <<>> THEN <<"_(nothing provided)_">> ELSE mdFence(sub.Details))
    \o <<"\n", "\n", "---", "\n", "_Filed automatically_", "\n">>

-----------------------------------------------------------------------------
(* The mail                                                                *)

\* Bug: the value goes out as it is.
stripNothing(s) == s

stripCRLF(s) == FlattenSeq([i \in DOMAIN s |-> IF s[i] \in {"\r", "\n"} THEN <<>> ELSE <<s[i]>>])

\* mime.QEncoding: anything that is not printable ASCII makes an encoded word.
enc(s) == IF \E i \in DOMAIN s : s[i] \in {"\r", "\n", "E", "..."} THEN <<"=?utf-8?q?">> ELSE s

\* One header of an RFC 5322 message.
Header(name, value) == <<name, ": ">> \o value \o <<"\r", "\n">>

\* What Send makes of a message, with Date and Message-ID left out.
rfc822(m) ==
  Header("From", IF m.FromName = <<>> THEN stripCRLF(m.FromAddr)
                 ELSE enc(m.FromName) \o <<" ", "<">> \o stripCRLF(m.FromAddr) \o <<">">>)
    \o Header("To", stripCRLF(m.To))
    \o (IF m.ReplyTo = <<>> THEN <<>> ELSE Header("Reply-To", stripCRLF(m.ReplyTo)))
    \o Header("Subject", enc(m.Subject))
    \o Header("MIME-Version", <<"1.0">>)
    \o Header("X-CCC-Contact-Type", stripCRLF(m.Type))
    \o <<"\r", "\n">>
    \o FlattenSeq([i \in DOMAIN m.Body |->
                     IF m.Body[i] = "\n" THEN <<"\r", "\n">> ELSE <<m.Body[i]>>])

buildMessage(sub, c) ==
  [FromName |-> c.FromName, FromAddr |-> c.FromAddress, To |-> c.Recipient,
   ReplyTo |-> sub.Email, Subject |-> subject(sub, c.WikiName),
   Body |-> sub.Summary \o <<"\n">> \o sub.Details, Type |-> <<sub.Kind>>]

\* What goes to the relay: SMTP gets a text, the others the fields as JSON.
Payload(m, c) == IF c.Transport = <<"smtp">> THEN rfc822(m) ELSE <<m>>

buildIssue(sub, c) ==
  [Title |-> subject(sub, c.WikiName), Body |-> issueBody(sub), Labels |-> {gitHubLabel[sub.Kind]}]
=============================================================================
