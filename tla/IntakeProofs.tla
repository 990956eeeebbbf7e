------------------------------ MODULE IntakeProofs ------------------------------
(***************************************************************************)
(* Proofs about Intake, for texts of every length over every alphabet,     *)
(* every environment and every way through the proxies.                    *)
(*                                                                         *)
(* The argument.  The invariant of a life is short: the configuration is   *)
(* what was loaded and validated, and the key, the complaints, the mail    *)
(* and the issue are what Submit made of the case.  The rest is about the  *)
(* operators on texts, and goes by induction over their length.  The       *)
(* prover takes no induction rule that is given a predicate, so the rules  *)
(* here (SetInduction, TextInduction, RecursionExists) are given a set,    *)
(* the set of the numbers or texts for which a claim holds.                *)
(*                                                                         *)
(* HeadersKept and EveryFenceHolds read a text line by line.  LinesJoin    *)
(* cuts a text at a line break, so a mail or a body is looked at piece by  *)
(* piece: Makes and Writes say of what is written so far which lines it    *)
(* has become, whatever follows it, and each lemma adds a piece.           *)
(***************************************************************************)
EXTENDS Intake, SequenceTheorems, FiniteSetTheorems, WellFoundedInduction, TLAPS

-----------------------------------------------------------------------------
(* Numbers                                                                 *)

\* A set of numbers that is not empty has a least one.
LEMMA LeastExists ==
  ASSUME NEW S \in SUBSET Nat, S # {}
  PROVE  \E m \in S : \A k \in S : m <= k
<1> DEFINE R == OpToRel(<, Nat)
<1>1. IsWellFoundedOn(R, Nat)
  BY NatLessThanWellFounded
<1>2. \A a, b \in Nat : a < b => <<a, b>> \in R
  BY DEF OpToRel
<1> HIDE DEF R
<1>3. PICK m \in S : \A k \in S : ~(<<k, m>> \in R)
  BY <1>1, WFMin
<1>4. ASSUME NEW k \in S PROVE m <= k
  <2>1. m \in Nat /\ k \in Nat
    OBVIOUS
  <2>2. ~(k < m)
    BY <1>2, <1>3, <2>1
  <2> QED BY <2>1, <2>2
<1> QED BY <1>4

\* Induction, for a set: one that holds 0, and the successor of each of its
\* members, holds every number.
LEMMA SetInduction ==
  ASSUME NEW G, 0 \in G, \A n \in Nat : n \in G => n + 1 \in G
  PROVE  \A n \in Nat : n \in G
<1> DEFINE B == Nat \ G
<1> SUFFICES ASSUME B # {} PROVE FALSE
  OBVIOUS
<1>1. PICK m \in B : \A k \in B : m <= k
  BY LeastExists
<1>2. m \in Nat /\ m # 0
  OBVIOUS
<1>3. m - 1 \in Nat /\ m - 1 \notin B
  BY <1>1, <1>2
<1>4. (m - 1) + 1 \in G
  BY <1>3
<1> QED BY <1>2, <1>4

\* The greatest member of a bounded set of numbers.
LEMMA MaxIs ==
  ASSUME NEW S \in SUBSET Nat, S # {}, NEW n \in Nat, \A x \in S : x <= n
  PROVE  Max(S) \in S /\ \A x \in S : x <= Max(S)
<1> DEFINE T == {n - x : x \in S}
<1>1. \A x \in S : x \in Nat /\ n - x \in Nat
  OBVIOUS
<1>7. T \in SUBSET Nat /\ T # {}
  BY <1>1
<1>2. PICK m \in T : \A k \in T : m <= k
  BY <1>7, LeastExists
<1>3. PICK x \in S : m = n - x
  OBVIOUS
<1>4. \A y \in S : x >= y
  <2>1. \A y \in S : n - y \in T
    OBVIOUS
  <2> HIDE DEF T
  <2> QED BY <1>1, <1>2, <1>3, <2>1
<1>5. \E z \in S : \A y \in S : z >= y
  BY <1>4
<1>6. Max(S) \in S /\ \A y \in S : Max(S) >= y
  BY <1>5 DEF Max
<1> QED BY <1>6

\* The least member of a set of numbers.
LEMMA MinIs ==
  ASSUME NEW S \in SUBSET Nat, S # {}
  PROVE  Min(S) \in S /\ \A x \in S : Min(S) <= x
BY LeastExists DEF Min

-----------------------------------------------------------------------------
(* Texts                                                                   *)

\* TrimSpace cuts off blanks at both ends.
LEMMA TrimIs ==
  ASSUME NEW C, NEW s \in Seq(C)
  PROVE  \/ /\ TrimSpace(s) = <<>>
            /\ \A i \in 1..Len(s) : s[i] \in Blank
         \/ \E a, b \in 1..Len(s) :
               /\ a <= b /\ TrimSpace(s) = SubSeq(s, a, b)
               /\ s[a] \notin Blank /\ s[b] \notin Blank
<1> DEFINE solid == {i \in DOMAIN s : s[i] \notin Blank}
<1>1. solid \in SUBSET Nat /\ solid \subseteq 1..Len(s) /\ Len(s) \in Nat
  OBVIOUS
<1>2. CASE solid = {}
  BY <1>2 DEF TrimSpace
<1>3. CASE solid # {}
  <2>1. Min(solid) \in solid /\ \A x \in solid : Min(solid) <= x
    BY <1>1, <1>3, MinIs
  <2>2. Max(solid) \in solid
    <3>1. \A x \in solid : x <= Len(s)
      BY <1>1
    <3> QED BY <1>1, <1>3, <3>1, MaxIs
  <2>3. TrimSpace(s) = SubSeq(s, Min(solid), Max(solid))
    BY <1>3 DEF TrimSpace
  <2> HIDE DEF solid
  <2>4. Min(solid) \in 1..Len(s) /\ Max(solid) \in 1..Len(s) /\ Min(solid) <= Max(solid)
    BY <1>1, <2>1, <2>2
  <2>5. s[Min(solid)] \notin Blank /\ s[Max(solid)] \notin Blank
    BY <2>1, <2>2 DEF solid
  <2> QED BY <2>3, <2>4, <2>5
<1> QED BY <1>2, <1>3

\* What it leaves is a text of the same characters, with no blank at its ends.
LEMMA TrimType ==
  ASSUME NEW C, NEW s \in Seq(C)
  PROVE  /\ TrimSpace(s) \in Seq(C)
         /\ Len(TrimSpace(s)) <= Len(s)
         /\ TrimSpace(s) # <<>> => /\ TrimSpace(s)[1] \notin Blank
                                   /\ TrimSpace(s)[Len(TrimSpace(s))] \notin Blank
<1>1. CASE TrimSpace(s) = <<>>
  BY <1>1
<1>2. CASE TrimSpace(s) # <<>>
  <2>1. PICK a, b \in 1..Len(s) : /\ a <= b /\ TrimSpace(s) = SubSeq(s, a, b)
                                  /\ s[a] \notin Blank /\ s[b] \notin Blank
    BY <1>2, TrimIs
  <2>2. /\ Len(SubSeq(s, a, b)) = b - a + 1
        /\ SubSeq(s, a, b) \in Seq(C)
        /\ \A i \in 1..(b - a + 1) : SubSeq(s, a, b)[i] = s[a + i - 1]
    BY <2>1, SubSeqProperties
  <2>3. SubSeq(s, a, b)[1] = s[a] /\ SubSeq(s, a, b)[b - a + 1] = s[b]
    BY <2>1, <2>2
  <2> QED BY <2>1, <2>2, <2>3
<1> QED BY <1>1, <1>2

\* It leaves alone what has no blank at its ends.
LEMMA TrimSame ==
  ASSUME NEW C, NEW s \in Seq(C), s # <<>> => (s[1] \notin Blank /\ s[Len(s)] \notin Blank)
  PROVE  TrimSpace(s) = s
<1>1. CASE s = <<>>
  BY <1>1 DEF TrimSpace
<1>2. CASE s # <<>>
  <2> DEFINE solid == {i \in DOMAIN s : s[i] \notin Blank}
  <2>1. /\ solid \in SUBSET Nat /\ solid \subseteq 1..Len(s) /\ Len(s) \in Nat
        /\ 1 \in solid /\ Len(s) \in solid
    BY <1>2
  <2>2. TrimSpace(s) = SubSeq(s, Min(solid), Max(solid))
    BY <2>1 DEF TrimSpace
  <2>3. Min(solid) \in solid /\ \A x \in solid : Min(solid) <= x
    BY <2>1, MinIs
  <2>4. Max(solid) \in solid /\ \A x \in solid : x <= Max(solid)
    <3>1. \A x \in solid : x <= Len(s)
      BY <2>1
    <3> QED BY <2>1, <3>1, MaxIs
  <2> HIDE DEF solid
  <2>5. Min(solid) = 1 /\ Max(solid) = Len(s)
    <3>1. Min(solid) \in 1..Len(s) /\ Max(solid) \in 1..Len(s)
      BY <2>1, <2>3, <2>4
    <3>2. Min(solid) <= 1 /\ Len(s) <= Max(solid)
      BY <2>1, <2>3, <2>4
    <3> QED BY <2>1, <3>1, <3>2
  <2>6. SubSeq(s, 1, Len(s)) = s
    OBVIOUS
  <2> QED BY <2>2, <2>5, <2>6
<1> QED BY <1>1, <1>2

\* So to trim again changes nothing.
LEMMA TrimTwice ==
  ASSUME NEW C, NEW s \in Seq(C)
  PROVE  TrimSpace(TrimSpace(s)) = TrimSpace(s)
BY TrimType, TrimSame

\* Every string that a text can hold.  The words that the program puts into a
\* text are strings, which the provers have to be told.
Words == {"ann", "vu", "bug", "true", "tls", "smtp", "graph", "agentmail", "starttls", "none",
          "request", "feedback", "other", "CCC Wiki Contact", "CCC Wiki",
          "bt", "\n", "\r", " ", "<", ">", "@", "...", "[", "] ", " - ", ": ", "1.0",
          "Bug report", "Request", "Feedback", "Other", "=?utf-8?q?",
          "From", "To", "Reply-To", "Subject", "MIME-Version", "X-CCC-Contact-Type",
          "_(none provided)_"} \cup Headings \cup Optional

Letter == STRING \cup Words

Text == Seq(Letter)

\* What is typed in or set is a text.
LEMMA TextIsText ==
  ASSUME NEW s \in Texts
  PROVE  s \in Text
<1>1. Chars \subseteq Letter
  BY DEF Chars, Letter
<1>2. \A i \in 1..Len(s) : s[i] \in Letter
  BY <1>1 DEF Texts
<1>3. s = [i \in 1..Len(s) |-> s[i]] /\ Len(s) \in Nat
  BY DEF Texts
<1> QED BY <1>2, <1>3 DEF Text

\* ToLower changes capitals, place by place, into what is no capital.
LEMMA LowerType ==
  ASSUME NEW s \in Text
  PROVE  /\ ToLower(s) \in Text
         /\ Len(ToLower(s)) = Len(s)
         /\ \A i \in 1..Len(s) : ToLower(s)[i] \notin DOMAIN Capitals
<1>1. /\ DOMAIN Capitals = {"Ann", "VU", "BUG", "TRUE", "TLS"}
      /\ \A c \in DOMAIN Capitals : Capitals[c] \in {"ann", "vu", "bug", "true", "tls"}
  BY DEF Capitals
<1>2. {"ann", "vu", "bug", "true", "tls"} \subseteq Letter
  BY DEF Letter, Words
<1>3. DOMAIN ToLower(s) = 1..Len(s) /\ Len(s) \in Nat
  BY DEF ToLower, Text
<1>4. ASSUME NEW i \in 1..Len(s)
      PROVE  ToLower(s)[i] \in Letter /\ ToLower(s)[i] \notin DOMAIN Capitals
  <2>1. s[i] \in Letter
    BY DEF Text
  <2>2. ToLower(s)[i] = IF s[i] \in DOMAIN Capitals THEN Capitals[s[i]] ELSE s[i]
    BY DEF ToLower, Text
  <2>3. CASE s[i] \in DOMAIN Capitals
    <3>1. ToLower(s)[i] \in {"ann", "vu", "bug", "true", "tls"}
      BY <1>1, <2>2, <2>3
    <3>2. \A x \in {"ann", "vu", "bug", "true", "tls"} : x \notin {"Ann", "VU", "BUG", "TRUE", "TLS"}
      OBVIOUS
    <3> QED BY <1>1, <1>2, <3>1, <3>2
  <2> QED BY <2>1, <2>2, <2>3
<1>5. ToLower(s) \in [1..Len(s) -> Letter]
  <2>1. ToLower(s) = [i \in 1..Len(s) |-> ToLower(s)[i]]
    BY DEF ToLower, Text
  <2> QED BY <1>4, <2>1
<1> QED BY <1>3, <1>4, <1>5 DEF Text

\* It leaves alone what has no capital.
LEMMA LowerSame ==
  ASSUME NEW s \in Text, \A i \in 1..Len(s) : s[i] \notin DOMAIN Capitals
  PROVE  ToLower(s) = s
<1>1. ToLower(s) = [i \in 1..Len(s) |-> s[i]]
  BY DEF ToLower, Text
<1> QED BY <1>1 DEF Text

\* What is made of an address is a text, and stays as it is when it is made again.
LEMMA CleanType ==
  ASSUME NEW s \in Text
  PROVE  LET clean == TrimSpace(ToLower(s))
         IN  clean \in Text /\ TrimSpace(ToLower(clean)) = clean
<1> DEFINE low == ToLower(s)
           clean == TrimSpace(low)
<1>1. /\ low \in Text
      /\ \A i \in 1..Len(low) : low[i] \notin DOMAIN Capitals
  BY LowerType
<1> HIDE DEF low
<1>2. clean \in Text /\ TrimSpace(clean) = clean
  BY <1>1, TrimType, TrimTwice DEF Text
<1>3. \A i \in 1..Len(clean) : clean[i] \notin DOMAIN Capitals
  <2>1. CASE clean = <<>>
    BY <2>1
  <2>2. CASE clean # <<>>
    <3>1. PICK a, b \in 1..Len(low) : a <= b /\ clean = SubSeq(low, a, b)
      BY <1>1, <2>2, TrimIs DEF Text
    <3>2. /\ Len(clean) = b - a + 1
          /\ \A i \in 1..(b - a + 1) : clean[i] = low[a + i - 1] /\ a + i - 1 \in 1..Len(low)
      BY <1>1, <3>1, SubSeqProperties DEF Text
    <3> QED BY <1>1, <3>2
  <2> QED BY <2>1, <2>2
<1> HIDE DEF clean
<1>4. ToLower(clean) = clean
  BY <1>2, <1>3, LowerSame
<1> QED BY <1>2, <1>4 DEF low, clean

-----------------------------------------------------------------------------
(* The inductive invariant                                                 *)

\* Everything is what the handler makes of the case, and the process got past
\* its validation.
IntakeInv ==
  /\ case \in CaseType
  /\ config = Load(case.environment)
  /\ stage \in {"off", "exited", "up", "answered"}
  /\ stage \in {"up", "answered"} => validate(config)
  /\ stage # "answered" => mails = {} /\ issues = {}
  /\ stage = "answered" =>
       /\ LET r == Forwarded(case.route) IN key = clientIP(config, r.remote, r.xff)
       /\ complaints = Complaints
       /\ \A mail \in mails :
            /\ complaints = {}
            /\ mail = Payload(buildMessage(newSubmission(case.form), config), config)
       /\ \A issue \in issues :
            /\ complaints = {}
            /\ issue = buildIssue(newSubmission(case.form), config)

\* IntakeInv is inductive.
LEMMA IntakeInvariance == Spec => []IntakeInv
<1>1. Init => IntakeInv
  <2> SUFFICES ASSUME Init PROVE IntakeInv
    OBVIOUS
  <2>1. case \in CaseType
    BY IntakeConfig DEF Init
  <2> QED BY <2>1 DEF Init, IntakeInv
<1>2. IntakeInv /\ [Next]_vars => IntakeInv'
  <2> SUFFICES ASSUME IntakeInv, [Next]_vars PROVE IntakeInv'
    OBVIOUS
  <2>1. CASE Start
    BY <2>1 DEF Start, IntakeInv
  <2>2. CASE Submit
    <3> DEFINE sub == newSubmission(case.form)
               mail == Payload(buildMessage(sub, config), config)
    <3>1. /\ stage = "up" /\ stage' = "answered" /\ case' = case /\ config' = config
          /\ mails = {} /\ issues = {}
          /\ LET r == Forwarded(case.route) IN key' = clientIP(config, r.remote, r.xff)
          /\ complaints' = Complaints /\ Complaints' = Complaints
      BY <2>2 DEF Submit, IntakeInv, Complaints
    <3>2. /\ \A m \in mails' : Complaints = {} /\ m = mail
          /\ \A i \in issues' : Complaints = {} /\ i = buildIssue(sub, config)
      <4>1. CASE Sends
        BY <2>2, <4>1 DEF Submit, Sends
      <4>2. CASE ~Sends
        BY <2>2, <3>1, <4>2 DEF Submit
      <4> QED BY <4>1, <4>2
    <3> QED BY <3>1, <3>2 DEF IntakeInv
  <2>3. CASE UNCHANGED vars
    <3>1. Complaints' = Complaints
      BY <2>3 DEF vars, Complaints
    <3> QED BY <2>3, <3>1 DEF vars, IntakeInv
  <2> QED BY <2>1, <2>2, <2>3 DEF Next
<1> QED BY <1>1, <1>2, PTL DEF Spec

-----------------------------------------------------------------------------
(* The configuration                                                       *)

\* What is loaded: a number, and texts.
LEMMA ConfigType ==
  ASSUME NEW e \in Environment
  PROVE  /\ Load(e).TrustedProxyHops \in Int
         /\ Load(e).Recipient \in Text
         /\ Load(e).FromAddress \in Text
         /\ Load(e).FromName \in Text
         /\ Load(e).WikiName \in Text
         /\ Load(e).AllowedDomain \in Text
<1>1. /\ Load(e).TrustedProxyHops = envInt(e.CONTACT_TRUSTED_PROXY_HOPS, 1)
      /\ Load(e).Recipient = e.CONTACT_RECIPIENT
      /\ Load(e).FromAddress = e.MAIL_FROM_ADDRESS
      /\ Load(e).FromName = env(e.MAIL_FROM_NAME, <<"CCC Wiki Contact">>)
      /\ Load(e).WikiName = env(e.CONTACT_WIKI_NAME, <<"CCC Wiki">>)
      /\ Load(e).AllowedDomain = e.CONTACT_ALLOWED_EMAIL_DOMAIN
  BY DEF Load
<1>2. /\ e.CONTACT_TRUSTED_PROXY_HOPS \in Numbers
      /\ e.CONTACT_RECIPIENT \in Texts /\ e.MAIL_FROM_ADDRESS \in Texts
      /\ e.MAIL_FROM_NAME \in Texts /\ e.CONTACT_WIKI_NAME \in Texts
      /\ e.CONTACT_ALLOWED_EMAIL_DOMAIN \in Texts
  BY DEF Environment
<1>3. <<"CCC Wiki Contact">> \in Text /\ <<"CCC Wiki">> \in Text
  BY DEF Text, Letter, Words
<1>4. envInt(e.CONTACT_TRUSTED_PROXY_HOPS, 1) \in Int
  BY <1>2 DEF envInt, Numbers
<1> QED BY <1>1, <1>2, <1>3, <1>4, TextIsText DEF env

\* A way through the proxies ends at a header that they wrote.
LEMMA ForwardedIs ==
  ASSUME NEW route, route \in [client: IPs, own: Seq(Chars), proxies: Seq(IPs)]
  PROVE  LET r == Forwarded(route)
             n == Len(route.own)
             p == Len(route.proxies)
         IN  /\ r.xff \in Seq(Chars) /\ r.remote \in IPs
             /\ p = 0 => r.remote = route.client
             /\ p > 0 => /\ Len(r.xff) = n + p /\ r.xff[n + 1] = route.client
<1> DEFINE n == Len(route.own)
           p == Len(route.proxies)
<1>1. /\ route.client \in IPs /\ route.own \in Seq(Chars) /\ route.proxies \in Seq(IPs)
      /\ n \in Nat /\ p \in Nat /\ IPs \subseteq Chars
  BY IntakeConfig
<1>2. CASE p = 0
  <2>1. route.proxies = <<>>
    BY <1>1, <1>2
  <2> QED BY <1>1, <1>2, <2>1 DEF Forwarded
<1>3. CASE p > 0
  <2>1. Forwarded(route) = [xff    |-> route.own \o <<route.client>> \o Front(route.proxies),
                            remote |-> Last(route.proxies)]
    BY <1>1, <1>3 DEF Forwarded
  <2>2. Front(route.proxies) \in Seq(IPs) /\ Len(Front(route.proxies)) = p - 1
    <3> DEFINE ps == route.proxies
               q == p - 1
    <3>1. q \in Nat /\ \A i \in 1..q : ps[i] \in IPs
      BY <1>1, <1>3
    <3> HIDE DEF q, ps
    <3>2. SubSeq(ps, 1, q) \in Seq(IPs) /\ Len(SubSeq(ps, 1, q)) = q
      BY <3>1, SubSeqProperties
    <3> QED BY <3>2 DEF Front, q, ps
  <2>3. Last(route.proxies) \in IPs
    BY <1>1, <1>3 DEF Last
  <2>4. Front(route.proxies) \in Seq(Chars) /\ <<route.client>> \in Seq(Chars)
    BY <1>1, <2>2
  <2> DEFINE F == Front(route.proxies)
             xff == route.own \o <<route.client>> \o F
  <2> HIDE DEF F
  <2>5. xff \in Seq(Chars) /\ Len(xff) = n + 1 + (p - 1) /\ xff[n + 1] = route.client
    BY <1>1, <2>2, <2>4 DEF F
  <2> QED BY <1>1, <1>3, <2>1, <2>3, <2>5 DEF F
<1> QED BY <1>1, <1>2, <1>3

\* The limiter's key is an address, and through the configured proxies, or
\* directly where none is trusted, that of the client.
THEOREM TrueAddress == Spec => []ClientIPTrue
<1>1. IntakeInv => ClientIPTrue
  <2> SUFFICES ASSUME IntakeInv, stage = "answered"
               PROVE  /\ key \in IPs
                      /\ Len(case.route.proxies) =
                           (IF config.TrustProxy THEN config.TrustedProxyHops ELSE 0)
                           => key = case.route.client
    BY DEF ClientIPTrue
  <2> DEFINE route == case.route
             r == Forwarded(route)
             n == Len(route.own)
             p == Len(route.proxies)
             hops == config.TrustedProxyHops
             c == Candidate(r.xff, hops)
             at == (IF Len(r.xff) < hops THEN 0 ELSE Len(r.xff) - hops) + 1
  <2>1. /\ route \in [client: IPs, own: Seq(Chars), proxies: Seq(IPs)]
        /\ case.environment \in Environment
        /\ config = Load(case.environment)
        /\ key = clientIP(config, r.remote, r.xff)
        /\ hops >= 1
    BY DEF IntakeInv, CaseType, validate
  <2>2. /\ r.xff \in Seq(Chars) /\ r.remote \in IPs
        /\ p = 0 => r.remote = route.client
        /\ p > 0 => Len(r.xff) = n + p /\ r.xff[n + 1] = route.client
        /\ n \in Nat /\ p \in Nat
    <3>1. n \in Nat /\ p \in Nat
      BY <2>1
    <3> HIDE DEF route
    <3> QED BY <2>1, <3>1, ForwardedIs, Zenon DEF r, n, p
  <2>3. hops \in Nat
    BY <2>1, ConfigType
  <2>4. key = IF config.TrustProxy /\ r.xff # <<>> /\ c \in IPs \cup {"panic"} THEN c ELSE r.remote
    BY <2>1 DEF clientIP
  <2>5. r.xff # <<>> => c = r.xff[at] /\ at \in 1..Len(r.xff)
    <3>1. at \in 1..Len(r.xff) <=> r.xff # <<>>
      BY <2>1, <2>2, <2>3
    <3> QED BY <2>2, <3>1 DEF Candidate
  <2>6. "panic" \notin Chars
    BY DEF Chars
  <2> HIDE DEF r, n, p, hops, c, at, route
  <2>7. r.xff # <<>> => c # "panic"
    BY <2>2, <2>5, <2>6
  <2>8. key \in IPs
    BY <2>2, <2>4, <2>7
  <2>9. ASSUME p = (IF config.TrustProxy THEN hops ELSE 0) PROVE key = route.client
    <3>1. CASE config.TrustProxy
      <4>1. p = hops /\ p > 0 /\ Len(r.xff) = n + p /\ r.xff # <<>>
        BY <2>1, <2>2, <2>3, <2>9, <3>1
      <4>2. at = n + 1
        BY <2>2, <2>3, <4>1 DEF at
      <4>3. c = route.client
        BY <2>2, <2>5, <4>1, <4>2
      <4>4. route.client \in IPs
        BY <2>1
      <4> QED BY <2>4, <3>1, <4>1, <4>3, <4>4
    <3>2. CASE ~config.TrustProxy
      BY <2>2, <2>3, <2>4, <2>9, <3>2
    <3> QED BY <3>1, <3>2
  <2> QED BY <2>8, <2>9 DEF p, hops, route
<1> QED BY IntakeInvariance, <1>1, PTL

\* Texts that are all there, one after the other, are all there.
LEMMA FilledConcat ==
  ASSUME NEW a \in Seq(Texts), NEW b \in Seq(Texts), Filled(a), Filled(b)
  PROVE  Filled(a \o b)
<1>1. /\ DOMAIN (a \o b) = 1..(Len(a) + Len(b)) /\ Len(a) \in Nat /\ Len(b) \in Nat
      /\ \A i \in 1..(Len(a) + Len(b)) :
           (a \o b)[i] = IF i <= Len(a) THEN a[i] ELSE b[i - Len(a)]
  OBVIOUS
<1>2. ASSUME NEW i \in 1..(Len(a) + Len(b)) PROVE (a \o b)[i] # <<>>
  <2>1. CASE i <= Len(a)
    BY <1>1, <2>1 DEF Filled
  <2>2. CASE i > Len(a)
    <3>1. i - Len(a) \in 1..Len(b)
      BY <1>1, <2>2
    <3>2. b[i - Len(a)] # <<>>
      BY <3>1 DEF Filled
    <3> QED BY <1>1, <2>2, <3>2
  <2> QED BY <1>1, <2>1, <2>2
<1> QED BY <1>1, <1>2 DEF Filled

\* A service that reports ready has all that its mailer puts into a request and
\* may log in, but for the login of smtp, which mailConfigured does not ask about.
THEOREM ReadyMeansFilled == Spec => []OnlyLoginUnasked
<1>1. IntakeInv => OnlyLoginUnasked
  <2> DEFINE NoPassword == config.SMTPPassword = <<>>
             InClear == config.SMTPEncryption = <<"none">> /\ config.SMTPHost \notin LocalHosts
             Sound == config.Transport = <<"smtp">> /\ config.SMTPUsername # <<>>
                        => ~NoPassword /\ ~InClear
  <2> SUFFICES ASSUME IntakeInv, Ready(config), Sound
               PROVE  Filled(MailerUses(config))
    BY DEF OnlyLoginUnasked, CannotSend, MayLogIn
  <2> DEFINE e == case.environment
  <2>1. e \in Environment /\ config = Load(e)
    BY DEF IntakeInv, CaseType
  <2>2. /\ config.Graph = <<e.MS_TENANT_ID, e.MS_CLIENT_ID, e.MS_CLIENT_SECRET>>
        /\ config.AgentMail = <<e.AGENTMAIL_API_KEY, e.AGENTMAIL_INBOX>>
        /\ config.FromAddress = e.MAIL_FROM_ADDRESS
        /\ config.GraphSenderUPN = e.MS_SENDER_UPN
        /\ config.Recipient = e.CONTACT_RECIPIENT
        /\ config.SMTPHost = e.MAIL_HOST
        /\ config.SMTPUsername = e.MAIL_USERNAME
        /\ config.SMTPPassword = e.MAIL_PASSWORD
    BY <2>1 DEF Load
  <2>3. /\ config.Graph \in Seq(Texts) /\ config.AgentMail \in Seq(Texts)
        /\ config.FromAddress \in Texts /\ config.GraphSenderUPN \in Texts
        /\ config.Recipient \in Texts /\ config.SMTPHost \in Texts
        /\ config.SMTPUsername \in Texts /\ config.SMTPPassword \in Texts
    BY <2>1, <2>2 DEF Environment
  <2> HIDE DEF e
  <2>4. mailConfigured(config) /\ config.Recipient # <<>>
    BY DEF Ready, mailConfigured
  <2>5. CASE config.Transport = <<"smtp">>
    <3> DEFINE sends == <<config.SMTPHost, config.FromAddress, config.Recipient>>
    <3>1. <<"smtp">> # <<"graph">> /\ <<"smtp">> # <<"agentmail">>
      OBVIOUS
    <3>2. config.FromAddress # <<>> /\ config.SMTPHost # <<>>
      BY <2>4, <2>5, <3>1 DEF mailConfigured
    <3>3. MailerUses(config) = sends \o Login(config)
      BY <2>5, <3>1 DEF MailerUses
    <3>4. Filled(sends) /\ sends \in Seq(Texts)
      BY <2>3, <2>4, <3>2 DEF Filled
    <3>5. Filled(Login(config)) /\ Login(config) \in Seq(Texts)
      BY <2>3, <2>5 DEF Filled, Login
    <3> HIDE DEF sends
    <3> QED BY <3>3, <3>4, <3>5, FilledConcat
  <2>6. CASE config.Transport = <<"graph">>
    <3> DEFINE upn == env(config.GraphSenderUPN, config.FromAddress)
               own == <<config.FromAddress, config.Recipient, upn>>
    <3>1. <<"graph">> # <<"smtp">> /\ <<"graph">> # <<"agentmail">>
      OBVIOUS
    <3>2. config.FromAddress # <<>> /\ Filled(config.Graph)
      BY <2>4, <2>6, <3>1 DEF mailConfigured
    <3>3. MailerUses(config) = config.Graph \o own
      BY <2>6, <3>1 DEF MailerUses
    <3>4. upn # <<>> /\ upn \in Texts
      BY <2>3, <3>2 DEF env
    <3>5. Filled(own) /\ own \in Seq(Texts)
      BY <2>3, <2>4, <3>2, <3>4 DEF Filled
    <3> HIDE DEF own
    <3> QED BY <2>3, <3>2, <3>3, <3>5, FilledConcat
  <2>7. CASE config.Transport = <<"agentmail">>
    <3>1. <<"agentmail">> # <<"smtp">> /\ <<"agentmail">> # <<"graph">>
      OBVIOUS
    <3>2. Filled(config.AgentMail)
      BY <2>4, <2>7, <3>1 DEF mailConfigured
    <3>3. MailerUses(config) = config.AgentMail \o <<config.Recipient>>
      BY <2>7, <3>1 DEF MailerUses
    <3>4. Filled(<<config.Recipient>>) /\ <<config.Recipient>> \in Seq(Texts)
      BY <2>3, <2>4 DEF Filled
    <3> QED BY <2>3, <3>2, <3>3, <3>4, FilledConcat
  <2> QED BY <2>4, <2>5, <2>6, <2>7 DEF mailConfigured
<1> QED BY IntakeInvariance, <1>1, PTL

-----------------------------------------------------------------------------
(* The verdict on an address                                               *)

\* A stretch of a text is a part if it is not empty and has only such characters.
LEMMA PartIs ==
  ASSUME NEW s \in Text, NEW a \in Nat \ {0}, NEW b \in Nat, b <= Len(s)
  PROVE  Part(SubSeq(s, a, b)) <=>
           a <= b /\ \A j \in a..b : s[j] \notin Blank \cup {"@", "<", ">"}
<1> DEFINE t == SubSeq(s, a, b)
           Bad == Blank \cup {"@", "<", ">"}
<1>1. s \in Seq(Letter) /\ Len(s) \in Nat
  BY DEF Text
<1>2. \A j \in a..b : s[j] \in Letter
  BY <1>1
<1>3. CASE b < a
  <2>1. t = <<>>
    BY <1>3, SubSeqEmpty
  <2> QED BY <1>3, <2>1 DEF Part
<1>4. CASE a <= b
  <2>1. /\ t \in Seq(Letter) /\ Len(t) = b - a + 1
        /\ \A i \in 1..(b - a + 1) : t[i] = s[a + i - 1]
    BY <1>2, <1>4, SubSeqProperties
  <2> HIDE DEF t, Bad
  <2>2. t # <<>> /\ DOMAIN t = 1..(b - a + 1)
    BY <1>4, <2>1
  <2>3. ToSet(t) \cap Bad = {} <=> \A i \in 1..(b - a + 1) : s[a + i - 1] \notin Bad
    BY <2>1, <2>2 DEF ToSet
  <2>4. (\A i \in 1..(b - a + 1) : s[a + i - 1] \notin Bad) <=> \A j \in a..b : s[j] \notin Bad
    <3>1. ASSUME NEW j \in a..b, \A i \in 1..(b - a + 1) : s[a + i - 1] \notin Bad
          PROVE  s[j] \notin Bad
      <4>1. j - a + 1 \in 1..(b - a + 1) /\ a + (j - a + 1) - 1 = j
        OBVIOUS
      <4> QED BY <3>1, <4>1
    <3>2. ASSUME NEW i \in 1..(b - a + 1), \A j \in a..b : s[j] \notin Bad
          PROVE  s[a + i - 1] \notin Bad
      <4>1. a + i - 1 \in a..b
        OBVIOUS
      <4> QED BY <3>2, <4>1
    <3> QED BY <3>1, <3>2
  <2> QED BY <1>4, <2>2, <2>3, <2>4 DEF Part, t, Bad
<1> QED BY <1>3, <1>4

\* The at sign of an address, with a part on either side.
IsAt(s, at) ==
  /\ at \in 1..Len(s) /\ s[at] = "@"
  /\ Part(SubSeq(s, 1, at - 1)) /\ Part(SubSeq(s, at + 1, Len(s)))

\* An address is what has such an at sign.
LEMMA AddressIs ==
  ASSUME NEW s \in Text
  PROVE  validEmail(s) <=> \E at \in 1..Len(s) : IsAt(s, at)
<1> DEFINE ats == {i \in DOMAIN s : s[i] = "@"}
           Bad == Blank \cup {"@", "<", ">"}
<1>1. DOMAIN s = 1..Len(s) /\ Len(s) \in Nat
  BY DEF Text
<1>2. ASSUME NEW at \in 1..Len(s)
      PROVE  IsAt(s, at) <=> /\ s[at] = "@" /\ 1 < at /\ at < Len(s)
                             /\ \A j \in 1..Len(s) : j # at => s[j] \notin Bad
  <2>1. at - 1 \in Nat /\ at + 1 \in Nat \ {0} /\ at - 1 <= Len(s) /\ Len(s) \in Nat
    BY <1>1
  <2>2. Part(SubSeq(s, 1, at - 1)) <=> 1 <= at - 1 /\ \A j \in 1..(at - 1) : s[j] \notin Bad
    BY <2>1, PartIs
  <2>3. Part(SubSeq(s, at + 1, Len(s))) <=>
          at + 1 <= Len(s) /\ \A j \in (at + 1)..Len(s) : s[j] \notin Bad
    BY <2>1, PartIs
  <2>4. \A j \in 1..Len(s) : j # at <=> j \in 1..(at - 1) \/ j \in (at + 1)..Len(s)
    BY <2>1
  <2> HIDE DEF Bad
  <2> QED BY <2>1, <2>2, <2>3, <2>4 DEF IsAt
<1>3. ASSUME validEmail(s) PROVE \E at \in 1..Len(s) : IsAt(s, at)
  BY <1>1, <1>2, <1>3 DEF validEmail, IsAddress
<1>4. ASSUME NEW at \in 1..Len(s), IsAt(s, at) PROVE validEmail(s)
  <2>1. /\ s[at] = "@" /\ 1 < at /\ at < Len(s)
        /\ \A j \in 1..Len(s) : j # at => s[j] \notin Bad
    BY <1>2, <1>4
  <2>2. ats = {at}
    BY <1>1, <2>1
  <2>3. Cardinality(ats) = 1
    BY <2>2, FS_Singleton
  <2>4. \A i \in DOMAIN s : s[i] \notin {"\r", "\n"}
    <3>1. {"\r", "\n"} \subseteq Bad /\ "@" \notin {"\r", "\n"}
      BY DEF Blank
    <3> QED BY <1>1, <2>1, <3>1
  <2>5. IsAddress(s)
    BY <1>1, <2>1 DEF IsAddress
  <2> QED BY <2>3, <2>4, <2>5 DEF validEmail
<1> QED BY <1>3, <1>4

\* A suffix, place by place.
LEMMA SuffixIs ==
  ASSUME NEW d \in Text, NEW t \in Text
  PROVE  IsSuffix(d, t) <=>
           Len(d) <= Len(t) /\ \A i \in 1..Len(d) : d[i] = t[Len(t) - Len(d) + i]
<1> DEFINE m == Len(d)
           n == Len(t)
           rd == Reverse(d)
           rt == Reverse(t)
<1>1. m \in Nat /\ n \in Nat
  BY DEF Text
<1>2. /\ Len(rd) = m /\ Len(rt) = n
      /\ \A i \in 1..m : rd[i] = d[m - i + 1]
      /\ \A i \in 1..n : rt[i] = t[n - i + 1]
  BY <1>1 DEF Reverse
<1>3. CASE m > n
  BY <1>1, <1>2, <1>3 DEF IsSuffix, IsPrefix
<1>4. CASE m <= n
  <2>1. /\ \A i \in 1..m : d[i] \in Letter
        /\ \A i \in 1..n : t[i] \in Letter
    BY DEF Text
  <2>2. /\ \A i \in 1..m : m - i + 1 \in 1..m /\ m - (m - i + 1) + 1 = i
        /\ \A i \in 1..m : n - i + 1 \in 1..n /\ n - (m - i + 1) + 1 = n - m + i
        /\ 1 \in Int /\ m \in Int
    BY <1>1, <1>4
  <2>3. \A i \in 1..m : rd[i] \in Letter /\ rt[i] \in Letter
    <3> HIDE DEF rd, rt, m, n
    <3>1. ASSUME NEW i \in 1..m PROVE rd[i] \in Letter
      BY <1>2, <2>1, <2>2, <3>1
    <3>2. ASSUME NEW i \in 1..m PROVE rt[i] \in Letter
      <4>1. i \in 1..n
        BY <1>1, <1>4
      <4> QED BY <1>2, <2>1, <2>2, <4>1
    <3> QED BY <3>1, <3>2
  <2> DEFINE sd == SubSeq(rd, 1, m)
             st == SubSeq(rt, 1, m)
  <2> HIDE DEF rd, rt, m, n
  <2>4. /\ sd \in Seq(Letter) /\ Len(sd) = (IF 1 <= m THEN m - 1 + 1 ELSE 0)
        /\ \A i \in 1..(m - 1 + 1) : sd[i] = rd[1 + i - 1]
    BY <2>2, <2>3, SubSeqProperties
  <2>5. /\ st \in Seq(Letter) /\ Len(st) = (IF 1 <= m THEN m - 1 + 1 ELSE 0)
        /\ \A i \in 1..(m - 1 + 1) : st[i] = rt[1 + i - 1]
    BY <2>2, <2>3, SubSeqProperties
  <2> HIDE DEF sd, st
  <2>6. Len(sd) = m /\ Len(st) = m /\ \A i \in 1..m : sd[i] = rd[i] /\ st[i] = rt[i]
    BY <1>1, <2>4, <2>5
  <2>7. sd = st <=> \A i \in 1..m : rd[i] = rt[i]
    BY <1>1, <2>4, <2>5, <2>6
  <2>8. (\A i \in 1..m : rd[i] = rt[i]) <=> \A i \in 1..m : d[i] = t[n - m + i]
    <3>1. ASSUME NEW i \in 1..m, \A k \in 1..m : rd[k] = rt[k]
          PROVE  d[i] = t[n - m + i]
      <4>1. rd[m - i + 1] = rt[m - i + 1] /\ m - i + 1 \in 1..n
        BY <1>1, <1>4, <2>2, <3>1
      <4> QED BY <1>1, <1>2, <2>2, <4>1
    <3>2. ASSUME NEW i \in 1..m, \A k \in 1..m : d[k] = t[n - m + k]
          PROVE  rd[i] = rt[i]
      <4>1. d[m - i + 1] = t[n - m + (m - i + 1)] /\ i \in 1..n
        BY <1>1, <1>4, <2>2, <3>2
      <4>2. n - m + (m - i + 1) = n - i + 1
        BY <1>1
      <4> QED BY <1>1, <1>2, <4>1, <4>2
    <3> QED BY <3>1, <3>2
  <2>9. IsSuffix(d, t) <=> m <= n /\ sd = st
    BY <1>2 DEF IsSuffix, IsPrefix, sd, st, rd, rt, m, n
  <2> QED BY <1>4, <2>7, <2>8, <2>9 DEF m, n
<1> QED BY <1>1, <1>3, <1>4

\* The two checks on an address that is clean are the policy.
LEMMA VerdictIsPolicy ==
  ASSUME NEW c, c.AllowedDomain \in Text, NEW s \in Text, TrimSpace(ToLower(s)) = s
  PROVE  validEmail(s) /\ senderAllowed(c, s) <=> Permitted(c, s)
<1> DEFINE D == ToLower(c.AllowedDomain)
           domain(at) == SubSeq(s, at + 1, Len(s))
<1>1. DOMAIN s = 1..Len(s) /\ Len(s) \in Nat
  BY DEF Text
<1>2. Permitted(c, s) <=>
        \E at \in 1..Len(s) :
          /\ IsAt(s, at)
          /\ IF c.AllowedSenders # {} THEN s \in c.AllowedSenders
             ELSE c.AllowedDomain = <<>> \/ domain(at) = D
  BY <1>1 DEF Permitted, IsAt
<1>3. senderAllowed(c, s) <=>
        IF c.AllowedSenders # {} THEN s \in c.AllowedSenders
        ELSE c.AllowedDomain = <<>> \/ IsSuffix(<<"@">> \o D, s)
  BY DEF senderAllowed
<1>4. ASSUME NEW at \in 1..Len(s), IsAt(s, at)
      PROVE  IsSuffix(<<"@">> \o D, s) <=> domain(at) = D
  <2> DEFINE d == <<"@">> \o D
             m == Len(D)
             n == Len(s)
  <2>1. D \in Text /\ m \in Nat
    BY LowerType DEF Text
  <2> HIDE DEF D
  <2>2. /\ d \in Text /\ Len(d) = m + 1 /\ d[1] = "@"
        /\ \A i \in 1..m : d[i + 1] = D[i]
    <3>1. <<"@">> \in Seq(Letter)
      BY DEF Letter, Words
    <3>2. D \in Seq(Letter) /\ Len(D) = m
      BY <2>1 DEF Text
    <3> QED BY <2>1, <3>1, <3>2 DEF Text
  <2> HIDE DEF d
  <2>3. IsSuffix(d, s) <=> m + 1 <= n /\ \A i \in 1..(m + 1) : d[i] = s[n - (m + 1) + i]
    BY <2>2, SuffixIs, SMTT(20)
  <2>4. /\ at + 1 <= n /\ s[at] = "@"
        /\ \A j \in (at + 1)..n : s[j] # "@"
        /\ \A j \in 1..n : s[j] = "@" => j = at
    <3>1. at - 1 \in Nat /\ at + 1 \in Nat \ {0} /\ at - 1 <= n /\ n \in Nat
      BY <1>1
    <3>2. \A j \in 1..(at - 1) : s[j] \notin Blank \cup {"@", "<", ">"}
      BY <1>4, <3>1, PartIs DEF IsAt
    <3>3. at + 1 <= n /\ \A j \in (at + 1)..n : s[j] \notin Blank \cup {"@", "<", ">"}
      BY <1>4, <3>1, PartIs DEF IsAt
    <3> QED BY <1>1, <1>4, <3>2, <3>3 DEF IsAt
  <2>5. /\ domain(at) \in Seq(Letter) /\ Len(domain(at)) = n - at
        /\ \A i \in 1..(n - at) : domain(at)[i] = s[at + i]
    <3> DEFINE a == at + 1
    <3>1. a \in Int /\ n \in Int /\ \A i \in a..n : s[i] \in Letter
      BY <1>1 DEF Text
    <3> HIDE DEF a
    <3>2. /\ SubSeq(s, a, n) \in Seq(Letter)
          /\ Len(SubSeq(s, a, n)) = (IF a <= n THEN n - a + 1 ELSE 0)
          /\ \A i \in 1..(n - a + 1) : SubSeq(s, a, n)[i] = s[a + i - 1]
      BY <3>1, SubSeqProperties
    <3> QED BY <1>1, <2>4, <3>2 DEF a
  <2> DEFINE dom == domain(at)
  <2>8. /\ dom \in Seq(Letter) /\ Len(dom) = n - at /\ n \in Nat /\ at \in 1..n
        /\ \A i \in 1..(n - at) : dom[i] = s[at + i]
    BY <1>1, <2>5
  <2> HIDE DEF dom, m, n
  <2>6. ASSUME IsSuffix(d, s) PROVE dom = D
    <3>1. m + 1 <= n /\ \A i \in 1..(m + 1) : d[i] = s[n - (m + 1) + i]
      BY <2>3, <2>6
    <3>2. n - m \in 1..n /\ s[n - m] = "@"
      BY <1>1, <2>1, <2>2, <3>1 DEF n
    <3>3. n - m = at
      BY <2>4, <3>2
    <3>4. Len(dom) = m
      BY <2>1, <2>8, <3>3
    <3>5. ASSUME NEW i \in 1..m PROVE dom[i] = D[i]
      <4>1. i + 1 \in 1..(m + 1) /\ n - (m + 1) + (i + 1) = at + i /\ i \in 1..(n - at)
        BY <1>1, <2>1, <3>3 DEF n
      <4> QED BY <2>2, <2>8, <3>1, <4>1
    <3> QED BY <2>1, <2>8, <3>4, <3>5 DEF m, Text
  <2>7. ASSUME dom = D PROVE IsSuffix(d, s)
    <3>1. m = n - at /\ n \in Nat
      BY <2>7, <2>8 DEF m
    <3>2. m + 1 <= n
      BY <2>4, <3>1
    <3>3. ASSUME NEW i \in 1..(m + 1) PROVE d[i] = s[n - (m + 1) + i]
      <4>1. n - (m + 1) + i = at + (i - 1)
        BY <2>1, <3>1
      <4>2. CASE i = 1
        BY <2>2, <2>4, <4>1, <4>2
      <4>3. CASE i # 1
        <5>1. i - 1 \in 1..m /\ i - 1 \in 1..(n - at) /\ (i - 1) + 1 = i
          BY <2>1, <3>1, <4>3
        <5> QED BY <2>2, <2>7, <2>8, <4>1, <5>1
      <4> QED BY <4>2, <4>3
    <3> QED BY <2>3, <3>2, <3>3
  <2> QED BY <2>6, <2>7 DEF dom, d
<1> HIDE DEF D, domain
<1> QED BY <1>2, <1>3, <1>4, AddressIs

\* Nothing is complained of if every field passes its own check.
LEMMA ErrorsAre ==
  ASSUME NEW f, NEW c
  PROVE  LET email == TrimSpace(ToLower(f.email))
             good  == validEmail(email) /\ senderAllowed(c, email)
         IN  /\ "email" \notin FieldErrors(f, c) <=> good
             /\ FieldErrors(f, c) = {} <=>
                  /\ parseKind(f.type) # {}
                  /\ Bytes(TrimSpace(f.name)) \in 1..maxName
                  /\ good
                  /\ Bytes(TrimSpace(f.summary)) \in 1..maxSummary
                  /\ ~(Bytes(TrimSpace(f.details)) > maxDetails)
                  /\ ~(Bytes(TrimSpace(f.page)) > maxPage)
<1> DEFINE email == TrimSpace(ToLower(f.email))
           good == validEmail(email) /\ senderAllowed(c, email)
           P1 == parseKind(f.type) = {}
           P2 == Bytes(TrimSpace(f.name)) \notin 1..maxName
           P4 == Bytes(TrimSpace(f.summary)) \notin 1..maxSummary
           P5 == Bytes(TrimSpace(f.details)) > maxDetails
           P6 == Bytes(TrimSpace(f.page)) > maxPage
<1>1. FieldErrors(f, c) = {k \in {"type"} : P1} \cup {k \in {"name"} : P2}
                            \cup {k \in {"email"} : ~good} \cup {k \in {"summary"} : P4}
                            \cup {k \in {"details"} : P5} \cup {k \in {"page"} : P6}
  BY DEF FieldErrors
<1>2. "email" \notin {"type", "name", "summary", "details", "page"}
  OBVIOUS
<1> HIDE DEF good, P1, P2, P4, P5, P6
<1>3. "email" \notin FieldErrors(f, c) <=> good
  BY <1>1, <1>2
<1>4. FieldErrors(f, c) = {} <=> ~P1 /\ ~P2 /\ good /\ ~P4 /\ ~P5 /\ ~P6
  BY <1>1
<1> QED BY <1>3, <1>4 DEF good, P1, P2, P4, P5, P6

\* The name of a kind names that kind.
LEMMA KindAgain ==
  ASSUME NEW k \in DOMAIN kindLabels
  PROVE  parseKind(<<k>>) = {k}
<1>1. DOMAIN kindLabels = {"bug", "request", "feedback", "other"}
  BY DEF kindLabels
<1>2. k \in Letter /\ k \notin Blank /\ k \notin DOMAIN Capitals
  <2>1. DOMAIN Capitals = {"Ann", "VU", "BUG", "TRUE", "TLS"}
    BY DEF Capitals
  <2>2. k \in Letter
    BY <1>1 DEF Letter, Words
  <2>3. k \notin Blank
    BY <1>1 DEF Blank
  <2>4. k \notin DOMAIN Capitals
    BY <1>1, <2>1
  <2> QED BY <2>2, <2>3, <2>4
<1>3. <<k>> \in Seq(Letter) /\ Len(<<k>>) = 1 /\ <<k>>[1] = k
  BY <1>2
<1>4. TrimSpace(<<k>>) = <<k>>
  BY <1>2, <1>3, TrimSame
<1>5. ToLower(<<k>>) = <<k>>
  <2>1. \A i \in 1..Len(<<k>>) : <<k>>[i] \notin DOMAIN Capitals
    BY <1>2, <1>3
  <2> QED BY <1>3, <2>1, LowerSame DEF Text
<1>6. \A q : <<k>> = <<q>> <=> k = q
  OBVIOUS
<1> QED BY <1>4, <1>5, <1>6 DEF parseKind

\* What is typed in.
LEMMA FormType ==
  ASSUME IntakeInv
  PROVE  /\ case.form.type \in Text /\ case.form.name \in Text /\ case.form.email \in Text
         /\ case.form.page \in Text /\ case.form.summary \in Text /\ case.form.details \in Text
BY TextIsText DEF IntakeInv, CaseType

\* The verdict on an address is the policy, and what was accepted is accepted
\* again, unchanged.
THEOREM SoundVerdict == Spec => []VerdictSound
<1>1. IntakeInv => VerdictSound
  <2> DEFINE f == case.form
             clean == TrimSpace(ToLower(f.email))
             s == newSubmission(f)
             g == Again(s)
  <2> SUFFICES ASSUME IntakeInv, stage = "answered"
               PROVE  /\ "email" \notin complaints <=> Permitted(config, clean)
                      /\ complaints = {} => FieldErrors(g, config) = {} /\ newSubmission(g) = s
    BY DEF VerdictSound
  <2>1. complaints = FieldErrors(f, config)
    BY DEF IntakeInv, Complaints
  <2>2. /\ f.name \in Seq(Letter) /\ f.page \in Seq(Letter)
        /\ f.summary \in Seq(Letter) /\ f.details \in Seq(Letter)
        /\ f.email \in Text
    BY FormType DEF Text
  <2>3. clean \in Text /\ TrimSpace(ToLower(clean)) = clean
    BY <2>2, CleanType
  <2>4. config.AllowedDomain \in Text
    BY ConfigType DEF IntakeInv, CaseType
  <2>5. validEmail(clean) /\ senderAllowed(config, clean) <=> Permitted(config, clean)
    BY <2>3, <2>4, VerdictIsPolicy
  <2>6. "email" \notin complaints <=> Permitted(config, clean)
    BY <2>1, <2>5, ErrorsAre
  <2>7. ASSUME complaints = {}
        PROVE  FieldErrors(g, config) = {} /\ newSubmission(g) = s
    <3>1. /\ parseKind(f.type) # {}
          /\ Bytes(TrimSpace(f.name)) \in 1..maxName
          /\ validEmail(clean) /\ senderAllowed(config, clean)
          /\ Bytes(TrimSpace(f.summary)) \in 1..maxSummary
          /\ ~(Bytes(TrimSpace(f.details)) > maxDetails)
          /\ ~(Bytes(TrimSpace(f.page)) > maxPage)
      BY <2>1, <2>7, ErrorsAre
    <3>2. s = [Kind |-> CHOOSE k \in parseKind(f.type) : TRUE, Name |-> TrimSpace(f.name),
               Email |-> clean, Page |-> TrimSpace(f.page),
               Summary |-> TrimSpace(f.summary), Details |-> TrimSpace(f.details)]
      BY DEF newSubmission
    <3>3. s.Kind \in parseKind(f.type)
      BY <3>1, <3>2
    <3>4. s.Kind \in DOMAIN kindLabels
      BY <3>3 DEF parseKind
    <3>5. parseKind(g.type) = {s.Kind}
      BY <3>4, KindAgain DEF Again
    <3>6. /\ TrimSpace(g.name) = s.Name /\ TrimSpace(g.page) = s.Page
          /\ TrimSpace(g.summary) = s.Summary /\ TrimSpace(g.details) = s.Details
      BY <2>2, <3>2, TrimTwice DEF Again
    <3>7. TrimSpace(ToLower(g.email)) = clean
      BY <2>3, <3>2 DEF Again
    <3> HIDE DEF clean, s, g, f
    <3>8. FieldErrors(g, config) = {}
      BY <3>1, <3>2, <3>5, <3>6, <3>7, ErrorsAre
    <3>9. newSubmission(g) = s
      <4>1. newSubmission(g) =
              [Kind |-> CHOOSE k \in parseKind(g.type) : TRUE, Name |-> s.Name,
               Email |-> clean, Page |-> s.Page, Summary |-> s.Summary, Details |-> s.Details]
        BY <3>6, <3>7 DEF newSubmission
      <4>2. (CHOOSE k \in parseKind(g.type) : TRUE) = s.Kind
        BY <3>5
      <4> QED BY <3>2, <4>1, <4>2
    <3> QED BY <3>8, <3>9
  <2> QED BY <2>6, <2>7
<1> QED BY IntakeInvariance, <1>1, PTL

-----------------------------------------------------------------------------
(* Lines                                                                   *)

\* f goes from base to value n by the steps of a function, for the provers cannot
\* instantiate an operator.
Goes(n, S, base, step, f) ==
  f \in [0..n -> S] /\ f[0] = base /\ \A i \in 1..n : f[i] = step[i][f[i - 1]]

\* A function defined by recursion over an interval exists.
LEMMA RecursionExists ==
  ASSUME NEW n \in Nat, NEW S, NEW base \in S, NEW step \in [1..n -> [S -> S]]
  PROVE  \E f : Goes(n, S, base, step, f)
<1> DEFINE Good(m, f) == f[0] = base /\ \A i \in 1..m : f[i] = step[i][f[i - 1]]
           G == {m \in Nat : m <= n => \E f \in [0..m -> S] : Good(m, f)}
<1>1. 0 \in G
  <2> DEFINE f == [i \in 0..0 |-> base]
  <2>1. f \in [0..0 -> S] /\ Good(0, f)
    OBVIOUS
  <2> QED BY <2>1
<1>2. ASSUME NEW m \in Nat, m \in G, m + 1 <= n
      PROVE  \E g \in [0..(m + 1) -> S] : Good(m + 1, g)
  <2>1. PICK f \in [0..m -> S] : Good(m, f)
    BY <1>2
  <2> DEFINE g == [i \in 0..(m + 1) |-> IF i <= m THEN f[i] ELSE step[m + 1][f[m]]]
  <2>2. m + 1 \in 1..n /\ f[m] \in S
    BY <1>2
  <2>3. step[m + 1][f[m]] \in S
    BY <2>2
  <2>4. g \in [0..(m + 1) -> S]
    BY <2>3
  <2>5. /\ g[m + 1] = step[m + 1][f[m]]
        /\ \A i \in 0..m : g[i] = f[i]
    OBVIOUS
  <2> HIDE DEF g
  <2>6. ASSUME NEW i \in 1..(m + 1) PROVE g[i] = step[i][g[i - 1]]
    <3>1. i - 1 \in 0..m /\ g[i - 1] = f[i - 1]
      BY <2>5
    <3>2. CASE i = m + 1
      BY <2>5, <3>1, <3>2
    <3>3. CASE i # m + 1
      <4>1. i \in 1..m
        BY <3>3
      <4> QED BY <2>1, <2>5, <3>1, <4>1
    <3> QED BY <3>2, <3>3
  <2>7. g[0] = base
    BY <2>1, <2>5
  <2> QED BY <2>4, <2>6, <2>7
<1>3. ASSUME NEW m \in Nat, m \in G PROVE m + 1 \in G
  <2>1. CASE m + 1 <= n
    <3>1. \E g \in [0..(m + 1) -> S] : Good(m + 1, g)
      BY <1>2, <1>3, <2>1
    <3> HIDE DEF Good
    <3> QED BY <3>1
  <2> HIDE DEF Good
  <2> QED BY <2>1
<1> HIDE DEF Good
<1>4. \A m \in Nat : m \in G
  <2> HIDE DEF G
  <2> QED BY <1>1, <1>3, SetInduction
<1>5. \E f \in [0..n -> S] : Good(n, f)
  BY <1>4
<1> QED BY <1>5 DEF Good, Goes

\* A document has a line.
Document == Seq(Text) \ {<<>>}

\* e is d with one more character in its last line.
Grows(e, d, c) ==
  /\ Len(e) = Len(d)
  /\ \A k \in 1..(Len(d) - 1) : e[k] = d[k]
  /\ e[Len(d)] = Append(d[Len(d)], c)

\* So has a document after one more character.
LEMMA WithCharType ==
  ASSUME NEW d \in Document, NEW c \in Letter, NEW B
  PROVE  /\ WithChar(d, c, B) \in Document
         /\ c \in B => WithChar(d, c, B) = Append(d, <<>>)
         /\ c \notin B => Grows(WithChar(d, c, B), d, c)
<1>1. d \in Seq(Text) /\ Len(d) \in Nat /\ Len(d) >= 1 /\ Len(d) \in DOMAIN d
  BY DEF Document
<1>2. CASE c \in B
  <2>1. WithChar(d, c, B) = Append(d, <<>>)
    BY <1>2 DEF WithChar
  <2>2. <<>> \in Text
    BY DEF Text
  <2> QED BY <1>1, <1>2, <2>1, <2>2 DEF Document
<1>3. CASE c \notin B
  <2> DEFINE last == Append(d[Len(d)], c)
  <2>1. last \in Text
    BY <1>1 DEF Text
  <2>2. WithChar(d, c, B) = [d EXCEPT ![Len(d)] = last]
    BY <1>3 DEF WithChar
  <2> HIDE DEF last
  <2>3. [d EXCEPT ![Len(d)] = last] \in Seq(Text) /\ Len([d EXCEPT ![Len(d)] = last]) = Len(d)
    BY <1>1, <2>1
  <2>4. /\ [d EXCEPT ![Len(d)] = last][Len(d)] = last
        /\ \A k \in 1..(Len(d) - 1) : [d EXCEPT ![Len(d)] = last][k] = d[k]
    BY <1>1
  <2>5. WithChar(d, c, B) \in Document
    BY <1>1, <2>2, <2>3 DEF Document
  <2>6. last = Append(d[Len(d)], c)
    BY DEF last
  <2> QED BY <1>3, <2>2, <2>3, <2>4, <2>5, <2>6 DEF Grows
<1> QED BY <1>2, <1>3

\* What the recursion in Lines computes.
LEMMA LinesAre ==
  ASSUME NEW t \in Text, NEW B
  PROVE  \E f \in [0..Len(t) -> Document] :
            /\ f[0] = << <<>> >>
            /\ \A i \in 1..Len(t) : f[i] = WithChar(f[i - 1], t[i], B)
            /\ Lines(t, B) = f[Len(t)]
<1> DEFINE n == Len(t)
           Solves(f) == f = [i \in 0..n |-> IF i = 0 THEN << <<>> >> ELSE WithChar(f[i - 1], t[i], B)]
           upTo == CHOOSE f : Solves(f)
           step == [i \in 1..n |-> [d \in Document |-> WithChar(d, t[i], B)]]
<1>1. n \in Nat /\ \A i \in 1..n : t[i] \in Letter
  BY DEF Text
<1>2. << <<>> >> \in Document
  BY DEF Document, Text
<1>3. \A d \in Document, i \in 1..n : WithChar(d, t[i], B) \in Document
  BY <1>1, WithCharType
<1>4. step \in [1..n -> [Document -> Document]]
  BY <1>3
<1>5. \A i \in 1..n, d \in Document : step[i][d] = WithChar(d, t[i], B)
  OBVIOUS
<1> DEFINE base == << <<>> >>
<1> HIDE DEF step, n, base
<1>6. PICK f : Goes(n, Document, base, step, f)
  <2>1. base \in Document
    BY <1>2 DEF base
  <2> QED BY <1>1, <1>4, <2>1, RecursionExists
<1>7. Solves(f)
  <2>1. ASSUME NEW i \in 1..n PROVE f[i] = WithChar(f[i - 1], t[i], B)
    <3>1. i - 1 \in 0..n
      BY <1>1
    <3>2. f[i - 1] \in Document
      BY <1>6, <3>1 DEF Goes
    <3> QED BY <1>5, <1>6, <3>2 DEF Goes
  <2>2. \A i \in 0..n : i # 0 => i \in 1..n
    BY <1>1
  <2>3. \A i \in 0..n : f[i] = IF i = 0 THEN base ELSE WithChar(f[i - 1], t[i], B)
    BY <1>6, <2>1, <2>2 DEF Goes
  <2> QED BY <1>6, <2>3 DEF base, Goes
<1>8. Solves(upTo)
  <2> HIDE DEF Solves
  <2> QED BY <1>7
<1>9. Lines(t, B) = upTo[n]
  BY DEF Lines, n
<1> HIDE DEF upTo
<1>10. upTo[0] = << <<>> >> /\ \A i \in 1..n : upTo[i] = WithChar(upTo[i - 1], t[i], B)
  BY <1>1, <1>8
<1> DEFINE G == {i \in Nat : i <= n => upTo[i] \in Document}
<1>11. 0 \in G
  BY <1>2, <1>10
<1>12. ASSUME NEW i \in Nat, i \in G PROVE i + 1 \in G
  <2>1. CASE i + 1 <= n
    <3>1. i + 1 \in 1..n /\ upTo[i] \in Document /\ (i + 1) - 1 = i
      BY <1>1, <1>12, <2>1
    <3> QED BY <1>3, <1>10, <3>1
  <2> QED BY <1>1, <2>1
<1>13. \A i \in Nat : i \in G
  <2> HIDE DEF G
  <2> QED BY <1>11, <1>12, SetInduction
<1>14. upTo \in [0..n -> Document]
  <2>1. upTo = [i \in 0..n |-> upTo[i]]
    BY <1>8
  <2>2. \A i \in 0..n : upTo[i] \in Document
    BY <1>1, <1>13
  <2> QED BY <2>1, <2>2
<1> QED BY <1>9, <1>10, <1>14 DEF n

\* The lines of nothing, and of a text with one more character.
LEMMA LinesStep ==
  ASSUME NEW B
  PROVE  /\ Lines(<<>>, B) = << <<>> >>
         /\ \A t \in Text : Lines(t, B) \in Document
         /\ \A t \in Text, c \in Letter : Lines(Append(t, c), B) = WithChar(Lines(t, B), c, B)
<1>1. Lines(<<>>, B) = << <<>> >>
  <2>1. <<>> \in Text /\ Len(<<>>) = 0
    BY DEF Text
  <2> QED BY <2>1, LinesAre
<1>2. ASSUME NEW t \in Text PROVE Lines(t, B) \in Document
  <2>1. Len(t) \in 0..Len(t)
    BY DEF Text
  <2> QED BY <2>1, LinesAre
<1>3. ASSUME NEW t \in Text, NEW c \in Letter
      PROVE  Lines(Append(t, c), B) = WithChar(Lines(t, B), c, B)
  <2> DEFINE n == Len(t)
             u == Append(t, c)
  <2>1. /\ u \in Text /\ n \in Nat /\ Len(u) = n + 1 /\ u[n + 1] = c
        /\ \A i \in 1..n : u[i] = t[i]
    BY DEF Text
  <2> HIDE DEF u
  <2>2. PICK f \in [0..n -> Document] :
           /\ f[0] = << <<>> >>
           /\ \A i \in 1..n : f[i] = WithChar(f[i - 1], t[i], B)
           /\ Lines(t, B) = f[n]
    BY LinesAre
  <2>3. PICK g \in [0..Len(u) -> Document] :
           /\ g[0] = << <<>> >>
           /\ \A i \in 1..Len(u) : g[i] = WithChar(g[i - 1], u[i], B)
           /\ Lines(u, B) = g[Len(u)]
    BY <2>1, LinesAre
  <2> HIDE DEF n
  <2> DEFINE G == {i \in Nat : i <= n => f[i] = g[i]}
  <2>4. 0 \in G
    BY <2>2, <2>3
  <2>5. ASSUME NEW i \in Nat, i \in G PROVE i + 1 \in G
    <3>1. CASE i + 1 <= n
      <4>1. i + 1 \in 1..n /\ i + 1 \in 1..(n + 1) /\ (i + 1) - 1 = i /\ f[i] = g[i]
        BY <2>1, <2>5, <3>1
      <4>2. f[i + 1] = WithChar(f[i], t[i + 1], B) /\ g[i + 1] = WithChar(g[i], u[i + 1], B)
        BY <2>1, <2>2, <2>3, <4>1
      <4> QED BY <2>1, <4>1, <4>2
    <3> QED BY <2>1, <3>1
  <2>6. \A i \in Nat : i \in G
    <3> HIDE DEF G
    <3> QED BY <2>4, <2>5, SetInduction
  <2>7. f[n] = g[n]
    BY <2>1, <2>6
  <2>8. g[n + 1] = WithChar(g[n], c, B)
    <3>1. n + 1 \in 1..Len(u) /\ (n + 1) - 1 = n
      BY <2>1
    <3> QED BY <2>1, <2>3, <3>1
  <2> QED BY <2>1, <2>2, <2>3, <2>7, <2>8 DEF u
<1> QED BY <1>1, <1>2, <1>3

\* Induction over texts, for a set: one that holds the empty text, and each of
\* its members with one more character, holds every text.
LEMMA TextInduction ==
  ASSUME NEW G, <<>> \in G,
         \A u \in Text, x \in Letter : u \in G => Append(u, x) \in G
  PROVE  \A t \in Text : t \in G
<1> DEFINE H == {n \in Nat : \A t \in Text : Len(t) = n => t \in G}
<1>1. 0 \in H
  <2>1. \A t \in Text : Len(t) = 0 => t = <<>>
    BY DEF Text
  <2> QED BY <2>1
<1>2. ASSUME NEW n \in Nat, n \in H PROVE n + 1 \in H
  <2> SUFFICES ASSUME NEW v \in Text, Len(v) = n + 1 PROVE v \in G
    OBVIOUS
  <2> DEFINE w == SubSeq(v, 1, n)
  <2>1. v \in Seq(Letter) /\ \A i \in 1..n : v[i] \in Letter
    BY DEF Text
  <2>2. w \in Seq(Letter) /\ Len(w) = n /\ \A i \in 1..n : w[i] = v[i]
    BY <2>1, SubSeqProperties
  <2>3. v[n + 1] \in Letter
    BY <2>1
  <2> HIDE DEF w
  <2>4. v = Append(w, v[n + 1])
    BY <2>1, <2>2, <2>3
  <2>5. w \in Text /\ w \in G
    BY <1>2, <2>2 DEF Text
  <2> QED BY <2>3, <2>4, <2>5
<1>3. \A n \in Nat : n \in H
  <2> HIDE DEF H
  <2> QED BY <1>1, <1>2, SetInduction
<1>4. \A t \in Text : Len(t) \in Nat
  BY DEF Text
<1> QED BY <1>3, <1>4

\* Where a text is cut at a break, its lines are those of the one piece and then
\* those of the other.
LEMMA LinesJoin ==
  ASSUME NEW B, NEW c \in B, c \in Letter, NEW a \in Text, NEW b \in Text
  PROVE  Lines(a \o <<c>> \o b, B) = Lines(a, B) \o Lines(b, B)
<1> DEFINE P(u) == Lines(a \o <<c>> \o u, B) = Lines(a, B) \o Lines(u, B)
           G == {u \in Text : P(u)}
           L == Lines(a, B)
<1>1. L \in Document /\ L \in Seq(Text) /\ Len(L) \in Nat
  <2>1. L \in Document
    BY LinesStep
  <2> QED BY <2>1 DEF Document
<1> HIDE DEF L
<1>2. P(<<>>)
  <2>1. a \o <<c>> \o <<>> = Append(a, c)
    BY DEF Text
  <2>2. Lines(Append(a, c), B) = WithChar(L, c, B)
    BY LinesStep DEF L
  <2>3. WithChar(L, c, B) = Append(L, <<>>)
    BY <1>1, WithCharType
  <2>4. Append(L, <<>>) = L \o << <<>> >>
    <3>1. <<>> \in Text
      BY DEF Text
    <3> QED BY <1>1, <3>1
  <2>5. Lines(<<>>, B) = << <<>> >>
    BY LinesStep
  <2> QED BY <2>1, <2>2, <2>3, <2>4, <2>5 DEF L
<1>3. ASSUME NEW u \in Text, NEW x \in Letter, P(u) PROVE P(Append(u, x))
  <2> DEFINE v == Append(u, x)
  <2>3. v \in Text /\ a \o <<c>> \o v = Append(a \o <<c>> \o u, x) /\ a \o <<c>> \o u \in Text
    BY DEF Text
  <2> DEFINE M == Lines(u, B)
  <2>4. M \in Document /\ M \in Seq(Text) /\ Len(M) \in Nat /\ Len(M) >= 1
    BY LinesStep DEF Document
  <2>5. Lines(v, B) = WithChar(M, x, B)
    BY LinesStep
  <2>6. Lines(a \o <<c>> \o v, B) = WithChar(L \o M, x, B)
    <3>1. Lines(Append(a \o <<c>> \o u, x), B) = WithChar(Lines(a \o <<c>> \o u, B), x, B)
      BY <2>3, LinesStep
    <3> QED BY <1>3, <2>3, <3>1 DEF L
  <2> HIDE DEF M
  <2>7. L \o M \in Document /\ Len(L \o M) = Len(L) + Len(M)
    BY <1>1, <2>4 DEF Document
  <2>8. WithChar(L \o M, x, B) = L \o WithChar(M, x, B)
    <3>1. CASE x \in B
      <4>1. /\ WithChar(L \o M, x, B) = Append(L \o M, <<>>)
            /\ WithChar(M, x, B) = Append(M, <<>>)
        BY <2>4, <2>7, <3>1, WithCharType
      <4>2. <<>> \in Text
        BY DEF Text
      <4>3. Append(L \o M, <<>>) = L \o Append(M, <<>>)
        BY <1>1, <2>4, <4>2
      <4> QED BY <4>1, <4>3
    <3>2. CASE x \notin B
      <4> DEFINE N == L \o M
                 W == WithChar(N, x, B)
                 V == WithChar(M, x, B)
                 p == Len(L)
                 q == Len(M)
      <4>1. N \in Document /\ Len(N) = p + q
        BY <2>7
      <4> HIDE DEF N
      <4>2. /\ W \in Document /\ Len(W) = p + q
            /\ \A k \in 1..(p + q - 1) : W[k] = N[k]
            /\ W[p + q] = Append(N[p + q], x)
        <5>1. W \in Document /\ Grows(W, N, x)
          BY <3>2, <4>1, WithCharType
        <5> QED BY <4>1, <5>1 DEF Grows
      <4>3. /\ V \in Document /\ Len(V) = q
            /\ \A k \in 1..(q - 1) : V[k] = M[k]
            /\ V[q] = Append(M[q], x)
        <5>1. V \in Document /\ Grows(V, M, x)
          BY <2>4, <3>2, WithCharType
        <5> QED BY <5>1 DEF Grows
      <4> HIDE DEF W, V
      <4>4. W \in Seq(Text) /\ V \in Seq(Text) /\ p \in Nat /\ q \in Nat /\ q >= 1
        BY <1>1, <2>4, <4>2, <4>3 DEF Document
      <4> DEFINE LV == L \o V
      <4>5. /\ \A k \in 1..p : N[k] = L[k] /\ LV[k] = L[k]
            /\ \A k \in (p + 1)..(p + q) : N[k] = M[k - p] /\ LV[k] = V[k - p]
            /\ LV \in Seq(Text) /\ Len(LV) = p + q
        <5>1. L \in Seq(Text) /\ M \in Seq(Text) /\ Len(L) = p /\ Len(M) = q /\ Len(V) = q
          BY <1>1, <2>4, <4>3
        <5>2. /\ \A k \in 1..p : N[k] = L[k]
              /\ \A k \in (p + 1)..(p + q) : N[k] = M[k - p]
          BY <4>4, <5>1 DEF N
        <5>3. /\ \A k \in 1..p : LV[k] = L[k]
              /\ \A k \in (p + 1)..(p + q) : LV[k] = V[k - p]
              /\ LV \in Seq(Text) /\ Len(LV) = p + q
          BY <4>4, <5>1
        <5> QED BY <5>2, <5>3
      <4> HIDE DEF LV, p, q
      <4>6. ASSUME NEW k \in 1..(p + q) PROVE W[k] = LV[k]
        <5>1. CASE k <= p
          <6>1. k \in 1..p /\ k \in 1..(p + q - 1)
            BY <4>4, <5>1
          <6> QED BY <4>2, <4>5, <6>1
        <5>2. CASE k > p /\ k < p + q
          <6>1. k - p \in 1..(q - 1) /\ k \in 1..(p + q - 1) /\ k \in (p + 1)..(p + q)
            BY <4>4, <5>2
          <6> QED BY <4>2, <4>3, <4>5, <6>1
        <5>3. CASE k = p + q
          <6>1. k - p = q /\ k \in (p + 1)..(p + q)
            BY <4>4, <5>3
          <6> QED BY <4>2, <4>3, <4>5, <5>3, <6>1
        <5> QED BY <4>4, <5>1, <5>2, <5>3
      <4>7. W = LV
        BY <4>2, <4>4, <4>5, <4>6, SeqEqual
      <4> QED BY <4>7 DEF W, V, N, LV
    <3> QED BY <3>1, <3>2
  <2> QED BY <2>5, <2>6, <2>8 DEF L
<1>4. <<>> \in G
  BY <1>2 DEF Text
<1>5. \A u \in Text, x \in Letter : u \in G => Append(u, x) \in G
  <2>1. \A u \in Text, x \in Letter : Append(u, x) \in Text
    BY DEF Text
  <2> HIDE DEF P
  <2> QED BY <1>3, <2>1
<1>6. \A u \in Text : u \in G
  <2> HIDE DEF G
  <2> QED BY <1>4, <1>5, TextInduction
<1> QED BY <1>6

\* A text without a break is one line.
LEMMA LinesPlain ==
  ASSUME NEW B, NEW t \in Text, \A i \in 1..Len(t) : t[i] \notin B
  PROVE  Lines(t, B) = <<t>>
<1> DEFINE Plain(u) == \A i \in 1..Len(u) : u[i] \notin B
           G == {u \in Text : Plain(u) => Lines(u, B) = <<u>>}
<1>1. <<>> \in G
  BY LinesStep DEF Text
<1>2. ASSUME NEW u \in Text, NEW x \in Letter, u \in G PROVE Append(u, x) \in G
  <2> DEFINE v == Append(u, x)
             n == Len(u)
  <2>1. /\ v \in Text /\ n \in Nat /\ Len(v) = n + 1 /\ v[n + 1] = x
        /\ \A i \in 1..n : v[i] = u[i]
    BY DEF Text
  <2>2. SUFFICES ASSUME Plain(v) PROVE Lines(v, B) = <<v>>
    BY <2>1
  <2>3. x \notin B
    BY <2>1, <2>2
  <2>4. Plain(u)
    <3>1. ASSUME NEW i \in 1..n PROVE u[i] \notin B
      <4>1. i \in 1..(n + 1)
        BY <2>1
      <4> QED BY <2>1, <2>2, <4>1
    <3> QED BY <3>1
  <2>5. Lines(u, B) = <<u>>
    BY <1>2, <2>4
  <2>6. Lines(v, B) = WithChar(<<u>>, x, B)
    BY <2>5, LinesStep
  <2>7. WithChar(<<u>>, x, B) = <<v>>
    BY <2>3 DEF WithChar
  <2> QED BY <2>6, <2>7
<1>3. \A u \in Text : u \in G
  <2> HIDE DEF G
  <2> QED BY <1>1, <1>2, TextInduction
<1> QED BY <1>3

\* l is the stretch of t after its a-th character.
Stretch(l, t, a) ==
  a + Len(l) <= Len(t) /\ \A i \in 1..Len(l) : l[i] = t[a + i]

\* Each line of a text is a stretch of it, the last one up to its end.
LEMMA LinesWithin ==
  ASSUME NEW B, NEW t \in Text
  PROVE  LET d == Lines(t, B)
         IN  \A k \in 1..Len(d) : \E a \in Nat : Stretch(d[k], t, a)
<1> DEFINE P(u, d) ==
             /\ \A k \in 1..Len(d) : \E a \in Nat : Stretch(d[k], u, a)
             /\ \E a \in Nat : Stretch(d[Len(d)], u, a) /\ a + Len(d[Len(d)]) = Len(u)
           G == {u \in Text : P(u, Lines(u, B))}
<1>1. <<>> \in G
  <2> DEFINE d == << <<>> >>
  <2>1. Lines(<<>>, B) = d
    BY LinesStep
  <2>2. Len(d) = 1 /\ d[1] = <<>> /\ <<>> \in Text /\ Len(<<>>) = 0
    BY DEF Text
  <2>3. Stretch(<<>>, <<>>, 0)
    BY <2>2 DEF Stretch
  <2> HIDE DEF d
  <2>4. P(<<>>, d)
    BY <2>2, <2>3
  <2> QED BY <2>1, <2>2, <2>4
<1>2. ASSUME NEW u \in Text, NEW x \in Letter, u \in G PROVE Append(u, x) \in G
  <2> DEFINE v == Append(u, x)
             d == Lines(u, B)
             e == Lines(v, B)
             n == Len(u)
             m == Len(d)
  <2>1. /\ v \in Text /\ n \in Nat /\ Len(v) = n + 1 /\ v[n + 1] = x
        /\ \A i \in 1..n : v[i] = u[i]
    BY DEF Text
  <2>2. /\ d \in Document /\ e = WithChar(d, x, B)
        /\ P(u, d)
    BY <1>2, LinesStep
  <2> HIDE DEF d, e, v
  <2>3. m \in Nat /\ m >= 1 /\ \A k \in 1..m : d[k] \in Text /\ Len(d[k]) \in Nat
    BY <2>2 DEF Document, Text
  <2>4. ASSUME NEW l, Len(l) \in Nat, NEW a \in Nat, Stretch(l, u, a)
        PROVE  Stretch(l, v, a)
    <3>1. a + Len(l) <= n + 1
      BY <2>1, <2>4 DEF Stretch
    <3>2. ASSUME NEW i \in 1..Len(l) PROVE l[i] = v[a + i]
      <4>1. a + i \in 1..n
        BY <2>1, <2>4 DEF Stretch
      <4> QED BY <2>1, <2>4, <4>1 DEF Stretch
    <3> QED BY <2>1, <3>1, <3>2 DEF Stretch
  <2>5. ASSUME NEW k \in 1..m PROVE \E a \in Nat : Stretch(d[k], v, a)
    <3>1. PICK a \in Nat : Stretch(d[k], u, a)
      BY <2>2
    <3> QED BY <2>3, <2>4, <3>1
  <2>6. CASE x \in B
    <3>1. e = Append(d, <<>>)
      BY <2>2, <2>6, WithCharType
    <3>2. /\ Len(e) = m + 1 /\ e[m + 1] = <<>> /\ \A k \in 1..m : e[k] = d[k]
      BY <2>2, <3>1 DEF Document, Text
    <3>3. Len(<<>>) = 0 /\ Stretch(<<>>, v, n + 1)
      BY <2>1 DEF Stretch
    <3>4. ASSUME NEW k \in 1..Len(e) PROVE \E a \in Nat : Stretch(e[k], v, a)
      <4>1. CASE k = m + 1
        BY <2>1, <3>2, <3>3, <4>1
      <4>2. CASE k # m + 1
        <5>1. k \in 1..m
          BY <2>3, <3>2, <4>2
        <5> QED BY <2>5, <3>2, <5>1
      <4> QED BY <4>1, <4>2
    <3>5. \E a \in Nat : Stretch(e[Len(e)], v, a) /\ a + Len(e[Len(e)]) = Len(v)
      BY <2>1, <3>2, <3>3
    <3>6. P(v, e)
      BY <3>4, <3>5
    <3> QED BY <2>1, <3>6 DEF v, e
  <2>7. CASE x \notin B
    <3>1. Grows(e, d, x)
      BY <2>2, <2>7, WithCharType
    <3>2. /\ Len(e) = m /\ \A k \in 1..(m - 1) : e[k] = d[k]
          /\ e[m] = Append(d[m], x)
      BY <3>1 DEF Grows
    <3>3. PICK a \in Nat : Stretch(d[m], u, a) /\ a + Len(d[m]) = n
      BY <2>2
    <3> DEFINE l == d[m]
               q == Len(l)
    <3>4. l \in Text /\ q \in Nat
      BY <2>3
    <3> HIDE DEF l
    <3>5. /\ Len(Append(l, x)) = q + 1 /\ Append(l, x)[q + 1] = x
          /\ \A i \in 1..q : Append(l, x)[i] = l[i]
      BY <3>4 DEF Text
    <3>6. Stretch(l, u, a) /\ a + q = n
      BY <3>3 DEF l
    <3>7. Stretch(Append(l, x), v, a)
      <4>1. ASSUME NEW i \in 1..(q + 1) PROVE Append(l, x)[i] = v[a + i]
        <5>1. CASE i = q + 1
          <6>1. a + i = n + 1
            BY <3>4, <3>6, <5>1
          <6> QED BY <2>1, <3>5, <5>1, <6>1
        <5>2. CASE i # q + 1
          <6>1. i \in 1..q /\ a + i \in 1..n
            BY <2>1, <3>4, <3>6, <5>2
          <6> QED BY <2>1, <3>5, <3>6, <6>1 DEF Stretch
        <5> QED BY <5>1, <5>2
      <4>2. a + (q + 1) <= n + 1
        BY <2>1, <3>4, <3>6
      <4> QED BY <2>1, <3>5, <4>1, <4>2 DEF Stretch
    <3>8. e[m] = Append(l, x) /\ a + Len(e[m]) = Len(v)
      BY <2>1, <3>2, <3>4, <3>5, <3>6 DEF l
    <3>9. ASSUME NEW k \in 1..Len(e) PROVE \E b \in Nat : Stretch(e[k], v, b)
      <4>1. CASE k = m
        BY <3>7, <3>8, <4>1
      <4>2. CASE k # m
        <5>1. k \in 1..(m - 1) /\ k \in 1..m
          BY <2>3, <3>2, <4>2
        <5> QED BY <2>5, <3>2, <5>1
      <4> QED BY <4>1, <4>2
    <3>10. \E b \in Nat : Stretch(e[Len(e)], v, b) /\ b + Len(e[Len(e)]) = Len(v)
      BY <3>2, <3>7, <3>8
    <3>11. P(v, e)
      BY <3>9, <3>10
    <3> QED BY <2>1, <3>11 DEF v, e
  <2> QED BY <2>6, <2>7
<1>3. \A u \in Text : u \in G
  <2> HIDE DEF G
  <2> QED BY <1>1, <1>2, TextInduction
<1> QED BY <1>3

\* What is put together of texts over an alphabet is one.
LEMMA FlattenType ==
  ASSUME NEW C, NEW ss \in Seq(Seq(C))
  PROVE  FlattenSeq(ss) \in Seq(C)
<1> DEFINE n == Len(ss)
           S == Seq(C)
           Solves(f) == f = [i \in 1..n |-> IF i = 1 THEN ss[i] ELSE f[i - 1] \o ss[i]]
           flatten == CHOOSE f : Solves(f)
<1>1. n \in Nat /\ \A i \in 1..n : ss[i] \in S
  OBVIOUS
<1>2. CASE n = 0
  <2>1. FlattenSeq(ss) = ss
    BY <1>2 DEF FlattenSeq
  <2>2. ss = <<>>
    BY <1>2
  <2> QED BY <2>1, <2>2
<1>3. CASE n # 0
  <2> DEFINE m == n - 1
             step == [i \in 1..m |-> [x \in S |-> x \o ss[i + 1]]]
             base == ss[1]
  <2>1. m \in Nat /\ base \in S
    BY <1>1, <1>3
  <2>2. \A i \in 1..m : \A x \in S : x \o ss[i + 1] \in S
    <3>1. \A i \in 1..m : ss[i + 1] \in S
      BY <1>1, <1>3
    <3> QED BY <3>1
  <2>3. step \in [1..m -> [S -> S]]
    <3> HIDE DEF S
    <3> QED BY <2>2
  <2>4. \A i \in 1..m, x \in S : step[i][x] = x \o ss[i + 1]
    OBVIOUS
  <2> HIDE DEF step, base, S, m
  <2>5. PICK g : Goes(m, S, base, step, g)
    BY <2>1, <2>3, RecursionExists
  <2> DEFINE f == [i \in 1..n |-> g[i - 1]]
  <2>6. Solves(f)
    <3>1. ASSUME NEW i \in 1..n PROVE f[i] = IF i = 1 THEN ss[i] ELSE f[i - 1] \o ss[i]
      <4>1. CASE i = 1
        BY <2>5, <4>1 DEF Goes, base
      <4>2. CASE i # 1
        <5> DEFINE j == i - 1
        <5>1. j \in 1..m /\ j - 1 \in 0..m /\ j \in 1..n /\ j + 1 = i
          BY <1>1, <1>3, <4>2 DEF m
        <5>2. g[j] = step[j][g[j - 1]] /\ g[j - 1] \in S
          BY <2>5, <5>1 DEF Goes
        <5>3. f[j] = g[j - 1] /\ f[i] = g[j]
          BY <5>1
        <5>4. g[j] = g[j - 1] \o ss[j + 1]
          BY <2>4, <5>1, <5>2
        <5> QED BY <4>2, <5>1, <5>3, <5>4
      <4> QED BY <4>1, <4>2
    <3> HIDE DEF f
    <3>2. f = [i \in 1..n |-> f[i]]
      BY DEF f
    <3> QED BY <3>1, <3>2
  <2>7. Solves(flatten)
    <3> HIDE DEF Solves, f
    <3> QED BY <2>6
  <2>8. FlattenSeq(ss) = flatten[n]
    BY <1>3 DEF FlattenSeq
  <2> HIDE DEF flatten
  <2>9. \A i \in 1..n : flatten[i] = IF i = 1 THEN ss[i] ELSE flatten[i - 1] \o ss[i]
    BY <2>7
  <2> DEFINE G == {i \in Nat : i \in 1..n => flatten[i] \in S}
  <2>10. 0 \in G
    OBVIOUS
  <2>11. ASSUME NEW i \in Nat, i \in G PROVE i + 1 \in G
    <3>1. CASE i = 0 \/ i + 1 > n
      BY <1>1, <1>3, <2>9, <3>1
    <3>2. CASE i # 0 /\ i + 1 <= n
      <4>1. i \in 1..n /\ i + 1 \in 1..n /\ (i + 1) - 1 = i /\ i + 1 # 1
        BY <1>1, <3>2
      <4>2. flatten[i] \in S /\ ss[i + 1] \in S
        BY <1>1, <2>11, <4>1
      <4>3. flatten[i + 1] = flatten[i] \o ss[i + 1]
        BY <2>9, <4>1
      <4>4. flatten[i] \o ss[i + 1] \in S
        BY <4>2 DEF S
      <4>5. flatten[i + 1] \in S
        BY <4>3, <4>4
      <4> QED BY <4>5
    <3> QED BY <1>1, <3>1, <3>2
  <2>12. \A i \in Nat : i \in G
    <3> HIDE DEF G
    <3> QED BY <2>10, <2>11, SetInduction
  <2>13. n \in 1..n
    BY <1>1, <1>3
  <2> QED BY <2>8, <2>12, <2>13 DEF S
<1> QED BY <1>2, <1>3

-----------------------------------------------------------------------------
(* The mail                                                                *)

\* What stays in a line.
Clean == Letter \ {"\r", "\n"}

\* The values of headers have no line break.
LEMMA StripType ==
  ASSUME NEW s \in Text
  PROVE  stripCRLF(s) \in Seq(Clean)
<1> DEFINE ss == [i \in DOMAIN s |-> IF s[i] \in {"\r", "\n"} THEN <<>> ELSE <<s[i]>>]
<1>1. DOMAIN s = 1..Len(s) /\ Len(s) \in Nat /\ \A i \in 1..Len(s) : s[i] \in Letter
  BY DEF Text
<1>2. ASSUME NEW i \in 1..Len(s)
      PROVE  (IF s[i] \in {"\r", "\n"} THEN <<>> ELSE <<s[i]>>) \in Seq(Clean)
  <2>1. CASE s[i] \in {"\r", "\n"}
    BY <2>1
  <2>2. CASE s[i] \notin {"\r", "\n"}
    <3>1. s[i] \in Clean
      BY <1>1, <2>2 DEF Clean
    <3> QED BY <2>2, <3>1
  <2> QED BY <2>1, <2>2
<1>3. ss \in Seq(Seq(Clean))
  BY <1>1, <1>2
<1> HIDE DEF ss
<1>4. FlattenSeq(ss) \in Seq(Clean)
  BY <1>3, FlattenType
<1> QED BY <1>4 DEF stripCRLF, ss

\* The header encoding leaves no line break in.
LEMMA EncType ==
  ASSUME NEW s \in Text
  PROVE  enc(s) \in Seq(Clean)
<1>1. DOMAIN s = 1..Len(s) /\ Len(s) \in Nat /\ \A i \in 1..Len(s) : s[i] \in Letter
  BY DEF Text
<1>2. CASE \E i \in DOMAIN s : s[i] \in {"\r", "\n", "E", "..."}
  <2>1. "=?utf-8?q?" \in Clean
    BY DEF Clean, Letter, Words
  <2> QED BY <1>2, <2>1 DEF enc
<1>3. CASE ~\E i \in DOMAIN s : s[i] \in {"\r", "\n", "E", "..."}
  <2>1. \A i \in 1..Len(s) : s[i] \in Clean
    BY <1>1, <1>3 DEF Clean
  <2>2. s = [i \in 1..Len(s) |-> s[i]]
    BY DEF Text
  <2>3. s \in Seq(Clean)
    BY <1>1, <2>1, <2>2
  <2> QED BY <1>3, <2>3 DEF enc
<1> QED BY <1>2, <1>3

\* Not every prover reads a string with a blank in it.
Colon == ": "

\* The line of a header.
LineOf(name, value) == <<name, Colon>> \o value \o <<"\r">>

\* A line that starts with a name, and whose one carriage return is at its end.
IsLineOf(line, name) ==
  /\ Head(line) = name
  /\ {i \in DOMAIN line : line[i] = "\r"} = {Len(line)}

\* The text A makes the lines ls, whatever follows.
Makes(A, ls) ==
  /\ A \in Text /\ ls \in Seq(Text)
  /\ \A rest \in Text : Lines(A \o rest, {"\n"}) = ls \o Lines(rest, {"\n"})

\* A header makes its line.
LEMMA HeaderMakes ==
  ASSUME NEW A, NEW ls, Makes(A, ls), NEW name \in Clean, NEW value \in Seq(Clean)
  PROVE  /\ Makes(A \o Header(name, value), Append(ls, LineOf(name, value)))
         /\ LineOf(name, value) \in Text /\ IsLineOf(LineOf(name, value), name)
<1> DEFINE line == LineOf(name, value)
           n == Len(value)
           B == {"\n"}
<1>1. /\ "\n" \in Letter /\ "\r" \in Letter /\ Colon \in Clean /\ "\r" # "\n"
      /\ name \in Letter /\ value \in Seq(Letter) /\ n \in Nat
  <2>1. "\n" \in Letter /\ "\r" \in Letter /\ Colon \in Clean
    BY Zenon DEF Letter, Words, Clean, Colon
  <2>2. Clean \subseteq Letter
    BY DEF Clean
  <2> QED BY <2>1, <2>2
<1>2. /\ line \in Seq(Letter) /\ Len(line) = n + 3
      /\ line[1] = name /\ line[2] = Colon /\ line[n + 3] = "\r"
      /\ \A i \in 1..n : line[i + 2] = value[i]
  <2>1. <<name, Colon>> \in Seq(Letter) /\ <<"\r">> \in Seq(Letter)
    BY <1>1 DEF Clean
  <2> QED BY <1>1, <2>1 DEF LineOf
<1>3. \A i \in 1..(n + 2) : line[i] \notin {"\r", "\n"}
  <2> SUFFICES ASSUME NEW i \in 1..(n + 2) PROVE line[i] \in Clean
    BY DEF Clean
  <2>1. CASE i \in {1, 2}
    BY <1>1, <1>2, <2>1
  <2>2. CASE i \notin {1, 2}
    <3>1. i - 2 \in 1..n /\ (i - 2) + 2 = i
      BY <1>1, <2>2
    <3>2. value[i - 2] \in Clean
      BY <3>1
    <3> QED BY <1>2, <3>1, <3>2
  <2> QED BY <2>1, <2>2
<1>4. Header(name, value) = line \o <<"\n">>
  <2>1. <<name, Colon>> \in Seq(Letter)
    BY <1>1 DEF Clean
  <2>2. <<"\r", "\n">> = <<"\r">> \o <<"\n">> /\ <<"\r">> \in Seq(Letter) /\ <<"\n">> \in Seq(Letter)
    BY <1>1
  <2>3. Header(name, value) = <<name, Colon>> \o value \o <<"\r", "\n">>
    BY Zenon DEF Header, Colon
  <2> QED BY <1>1, <2>1, <2>2, <2>3 DEF LineOf
<1> HIDE DEF line
<1>5. IsLineOf(line, name)
  <2>1. Head(line) = name
    BY <1>2
  <2>2. {i \in DOMAIN line : line[i] = "\r"} = {n + 3}
    BY <1>2, <1>3
  <2> QED BY <1>2, <2>1, <2>2 DEF IsLineOf
<1>6. Lines(line, B) = <<line>>
  <2>1. \A i \in 1..Len(line) : line[i] \notin B
    BY <1>1, <1>2, <1>3
  <2> QED BY <1>2, <2>1, LinesPlain DEF Text
<1>7. Makes(A \o Header(name, value), Append(ls, line))
  <2>1. A \in Seq(Letter) /\ ls \in Seq(Text) /\ line \in Text
    BY <1>2 DEF Makes, Text
  <2>2. A \o (line \o <<"\n">>) \in Text /\ Append(ls, line) \in Seq(Text)
    BY <1>1, <1>2, <2>1 DEF Text
  <2>3. ASSUME NEW rest \in Text
        PROVE  Lines((A \o (line \o <<"\n">>)) \o rest, B) = Append(ls, line) \o Lines(rest, B)
    <3>1. rest \in Seq(Letter) /\ <<"\n">> \in Seq(Letter)
      BY <1>1 DEF Text
    <3>2. (A \o (line \o <<"\n">>)) \o rest = A \o (line \o <<"\n">> \o rest)
      BY <1>2, <2>1, <3>1, SMTT(20)
    <3>3. line \o <<"\n">> \o rest \in Text
      BY <1>2, <3>1 DEF Text
    <3>4. Lines(A \o (line \o <<"\n">> \o rest), B) = ls \o Lines(line \o <<"\n">> \o rest, B)
      BY <3>3 DEF Makes
    <3>5. Lines(line \o <<"\n">> \o rest, B) = Lines(line, B) \o Lines(rest, B)
      BY <1>1, <2>1, LinesJoin
    <3> DEFINE R == Lines(rest, B)
    <3>6. R \in Seq(Text)
      BY LinesStep DEF Document
    <3> HIDE DEF R
    <3>7. ls \o (<<line>> \o R) = Append(ls, line) \o R
      BY <2>1, <3>6
    <3> QED BY <1>6, <3>2, <3>4, <3>5, <3>7 DEF R
  <2> QED BY <1>4, <2>2, <2>3 DEF Makes
<1>8. line \in Text
  BY <1>2 DEF Text
<1> QED BY <1>5, <1>7, <1>8 DEF line

\* One more line at the end.
LEMMA LineMore ==
  ASSUME NEW S, NEW s \in Seq(S), NEW e \in S, NEW n \in Nat, Len(s) = n,
         NEW t, t = s \o <<e>>
  PROVE  Len(t) = n + 1 /\ t[n + 1] = e /\ \A i \in 1..n : t[i] = s[i]
OBVIOUS

\* What stands where when lines are put together.
LEMMA LinesThen ==
  ASSUME NEW S, NEW s \in Seq(S), NEW e \in S, NEW t \in Seq(S), NEW n \in Nat, Len(s) = n,
         NEW u, u = s \o (<<e>> \o t)
  PROVE  u[n + 1] = e /\ \A i \in 1..n : u[i] = s[i]
<1>1. <<e>> \o t \in Seq(S) /\ Len(<<e>> \o t) = Len(t) + 1 /\ (<<e>> \o t)[1] = e
  OBVIOUS
<1> DEFINE v == <<e>> \o t
<1> HIDE DEF v
<1>2. v \in Seq(S) /\ Len(v) \in Nat /\ Len(v) > 0 /\ v[1] = e /\ u = s \o v
  BY <1>1 DEF v
<1> QED BY <1>2

\* What is made of a form that nothing is complained of.
LEMMA SubmissionType ==
  ASSUME IntakeInv, Complaints = {}
  PROVE  LET sub == newSubmission(case.form)
         IN  /\ sub.Kind \in DOMAIN kindLabels
             /\ sub.Name \in Text /\ sub.Email \in Text /\ sub.Page \in Text
             /\ sub.Summary \in Text /\ sub.Details \in Text
             /\ sub.Email # <<>> /\ sub.Summary # <<>>
<1> DEFINE f == case.form
           clean == TrimSpace(ToLower(f.email))
           sub == newSubmission(f)
<1>1. /\ parseKind(f.type) # {}
      /\ validEmail(clean)
      /\ Bytes(TrimSpace(f.summary)) \in 1..maxSummary
  BY ErrorsAre DEF Complaints
<1>2. /\ sub.Kind = CHOOSE k \in parseKind(f.type) : TRUE
      /\ sub.Name = TrimSpace(f.name) /\ sub.Email = clean /\ sub.Page = TrimSpace(f.page)
      /\ sub.Summary = TrimSpace(f.summary) /\ sub.Details = TrimSpace(f.details)
  BY DEF newSubmission
<1>3. /\ f.name \in Seq(Letter) /\ f.page \in Seq(Letter)
      /\ f.summary \in Seq(Letter) /\ f.details \in Seq(Letter)
      /\ f.email \in Text
  BY FormType DEF Text
<1>4. clean \in Text
  BY <1>3, CleanType
<1> HIDE DEF sub, clean, f
<1>5. sub.Kind \in DOMAIN kindLabels
  BY <1>1, <1>2 DEF parseKind
<1>6. sub.Email # <<>>
  BY <1>1, <1>2 DEF validEmail, IsAddress
<1>7. sub.Summary # <<>>
  <2>1. Bytes(<<>>) = 0
    <3>1. {i \in DOMAIN <<>> : <<>>[i] = "E"} = {} /\ Len(<<>>) = 0
      OBVIOUS
    <3> QED BY <3>1, FS_EmptySet DEF Bytes
  <2>2. 0 \notin 1..maxSummary
    OBVIOUS
  <2> QED BY <1>1, <1>2, <2>1, <2>2
<1>8. /\ sub.Name \in Text /\ sub.Page \in Text /\ sub.Summary \in Text /\ sub.Details \in Text
  BY <1>2, <1>3, TrimType DEF Text
<1> QED BY <1>2, <1>4, <1>5, <1>6, <1>7, <1>8 DEF sub, f

\* A subject is a text.
LEMMA SubjectType ==
  ASSUME NEW sub, sub.Kind \in DOMAIN kindLabels, sub.Summary \in Text, NEW w \in Text
  PROVE  subject(sub, w) \in Text
<1> DEFINE open == "["
           shut == "] "
           dash == " - "
           dots == "..."
           cut == truncateRunes(sub.Summary, maxTitle)
<1>1. open \in Letter /\ shut \in Letter /\ dash \in Letter /\ dots \in Letter
  BY Zenon DEF Letter, Words
<1>2. kindLabels[sub.Kind] \in Letter
  <2>1. DOMAIN kindLabels = {"bug", "request", "feedback", "other"}
    BY Zenon DEF kindLabels
  <2>2. /\ kindLabels["bug"] = "Bug report" /\ kindLabels["request"] = "Request"
        /\ kindLabels["feedback"] = "Feedback" /\ kindLabels["other"] = "Other"
    BY Zenon DEF kindLabels
  <2>3. {"Bug report", "Request", "Feedback", "Other"} \subseteq Letter
    BY Zenon DEF Letter, Words
  <2> QED BY <2>1, <2>2, <2>3, Zenon
<1>3. subject(sub, w) = <<open>> \o w \o <<shut, kindLabels[sub.Kind], dash>> \o cut
  BY Zenon DEF subject
<1> HIDE DEF open, shut, dash
<1>4. cut \in Text
  <2> DEFINE s == sub.Summary
  <2>1. s \in Seq(Letter) /\ Len(s) \in Nat /\ maxTitle \in Nat /\ \A i \in 1..Len(s) : s[i] \in Letter
    BY IntakeConfig DEF Text
  <2>2. CASE Len(s) <= maxTitle
    BY <2>2 DEF truncateRunes
  <2>3. CASE Len(s) > maxTitle /\ maxTitle <= 1
    <3>1. cut = <<dots>>
      BY <2>1, <2>3 DEF truncateRunes
    <3> QED BY <1>1, <3>1 DEF Text
  <2>4. CASE Len(s) > maxTitle /\ maxTitle > 1
    <3> DEFINE m == maxTitle - 1
    <3>1. cut = Append(SubSeq(s, 1, m), dots)
      BY <2>1, <2>4 DEF truncateRunes
    <3>2. m \in Int /\ \A i \in 1..m : s[i] \in Letter
      BY <2>1, <2>4
    <3> HIDE DEF m, dots
    <3>3. SubSeq(s, 1, m) \in Seq(Letter)
      BY <3>2, SubSeqProperties
    <3> QED BY <1>1, <3>1, <3>3 DEF Text
  <2> QED BY <2>1, <2>2, <2>3, <2>4
<1> HIDE DEF cut
<1>5. /\ <<open>> \in Seq(Letter) /\ <<shut, kindLabels[sub.Kind], dash>> \in Seq(Letter)
      /\ w \in Seq(Letter) /\ cut \in Seq(Letter)
  BY <1>1, <1>2, <1>4 DEF Text
<1> QED BY <1>3, <1>5 DEF Text

\* The fields of the mail.
LEMMA MessageType ==
  ASSUME IntakeInv, Complaints = {}
  PROVE  LET m == buildMessage(newSubmission(case.form), config)
         IN  /\ m.FromName \in Text /\ m.FromAddr \in Text /\ m.To \in Text
             /\ m.ReplyTo \in Text /\ m.ReplyTo # <<>>
             /\ m.Subject \in Text /\ m.Body \in Text /\ m.Type \in Text
<1> DEFINE sub == newSubmission(case.form)
           m == buildMessage(sub, config)
<1>1. /\ sub.Kind \in DOMAIN kindLabels
      /\ sub.Email \in Text /\ sub.Email # <<>>
      /\ sub.Summary \in Text /\ sub.Details \in Text
  BY SubmissionType
<1> HIDE DEF sub
<1>2. /\ config.Recipient \in Text /\ config.FromAddress \in Text
      /\ config.FromName \in Text /\ config.WikiName \in Text
  BY ConfigType DEF IntakeInv, CaseType
<1>3. /\ m.FromName = config.FromName /\ m.FromAddr = config.FromAddress
      /\ m.To = config.Recipient /\ m.ReplyTo = sub.Email
      /\ m.Subject = subject(sub, config.WikiName)
      /\ m.Body = sub.Summary \o <<"\n">> \o sub.Details
      /\ m.Type = <<sub.Kind>>
  BY DEF buildMessage
<1>4. subject(sub, config.WikiName) \in Text
  BY <1>1, <1>2, SubjectType
<1>5. sub.Summary \o <<"\n">> \o sub.Details \in Text
  <2>1. <<"\n">> \in Seq(Letter)
    BY DEF Letter, Words
  <2> QED BY <1>1, <2>1 DEF Text
<1>6. <<sub.Kind>> \in Text
  <2>1. DOMAIN kindLabels = {"bug", "request", "feedback", "other"}
    BY Zenon DEF kindLabels
  <2>2. {"bug", "request", "feedback", "other"} \subseteq Letter
    BY Zenon DEF Letter, Words
  <2> QED BY <1>1, <2>1, <2>2 DEF Text
<1> HIDE DEF m
<1> QED BY <1>1, <1>2, <1>3, <1>4, <1>5, <1>6 DEF m, sub

\* The value of the first header: a name that is encoded, or only the address.
LEMMA FromType ==
  ASSUME NEW name \in Text, NEW address \in Text
  PROVE  (IF name = <<>> THEN stripCRLF(address)
          ELSE enc(name) \o <<" ", "<">> \o stripCRLF(address) \o <<">">>) \in Seq(Clean)
<1> DEFINE blank == " "
<1>1. blank \in Clean /\ "<" \in Clean /\ ">" \in Clean
  BY Zenon DEF Clean, Letter, Words
<1> HIDE DEF blank
<1>2. enc(name) \in Seq(Clean) /\ stripCRLF(address) \in Seq(Clean)
  BY EncType, StripType
<1>3. enc(name) \o <<blank, "<">> \o stripCRLF(address) \o <<">">> \in Seq(Clean)
  <2>1. <<blank, "<">> \in Seq(Clean) /\ <<">">> \in Seq(Clean)
    BY <1>1
  <2> QED BY <1>2, <2>1
<1> QED BY <1>2, <1>3, Zenon DEF blank

\* The whole text: six headers, a line that is empty, and a body.
LEMMA MailMakes ==
  ASSUME NEW m,
         m.FromName \in Text, m.FromAddr \in Text, m.To \in Text,
         m.ReplyTo \in Text, m.ReplyTo # <<>>,
         m.Subject \in Text, m.Body \in Text, m.Type \in Text
  PROVE  \E ls : \E body \in Text :
           /\ Len(ls) = 6 /\ ls \in Seq(Text)
           /\ \A k \in 1..6 : IsLineOf(ls[k], HeaderNames[k])
           /\ Lines(rfc822(m), {"\n"}) = ls \o (<< <<"\r">> >> \o Lines(body, {"\n"}))
<1> DEFINE v1 == IF m.FromName = <<>> THEN stripCRLF(m.FromAddr)
                 ELSE enc(m.FromName) \o <<" ", "<">> \o stripCRLF(m.FromAddr) \o <<">">>
           v2 == stripCRLF(m.To)
           v3 == stripCRLF(m.ReplyTo)
           v4 == enc(m.Subject)
           v5 == <<"1.0">>
           v6 == stripCRLF(m.Type)
           A1 == Header("From", v1)
           A2 == A1 \o Header("To", v2)
           A3 == A2 \o Header("Reply-To", v3)
           A4 == A3 \o Header("Subject", v4)
           A5 == A4 \o Header("MIME-Version", v5)
           A6 == A5 \o Header("X-CCC-Contact-Type", v6)
           pieces == [i \in DOMAIN m.Body |->
                        IF m.Body[i] = "\n" THEN <<"\r", "\n">> ELSE <<m.Body[i]>>]
           body == FlattenSeq(pieces)
           B == {"\n"}
<1>1. rfc822(m) = A6 \o <<"\r", "\n">> \o body
  BY Zenon DEF rfc822
<1>2. /\ v1 \in Seq(Clean) /\ v2 \in Seq(Clean) /\ v3 \in Seq(Clean)
      /\ v4 \in Seq(Clean) /\ v5 \in Seq(Clean) /\ v6 \in Seq(Clean)
  <2>1. v1 \in Seq(Clean)
    BY FromType
  <2>2. v2 \in Seq(Clean) /\ v3 \in Seq(Clean) /\ v4 \in Seq(Clean) /\ v6 \in Seq(Clean)
    BY StripType, EncType
  <2>3. "1.0" \in Clean
    BY Zenon DEF Clean, Letter, Words
  <2>4. v5 \in Seq(Clean)
    BY <2>3
  <2> QED BY <2>1, <2>2, <2>4
<1>3. /\ "From" \in Clean /\ "To" \in Clean /\ "Reply-To" \in Clean /\ "Subject" \in Clean
      /\ "MIME-Version" \in Clean /\ "X-CCC-Contact-Type" \in Clean
      /\ "\r" \in Letter /\ "\n" \in Letter
  BY Zenon DEF Clean, Letter, Words
<1>4. body \in Text
  <2>1. DOMAIN m.Body = 1..Len(m.Body) /\ Len(m.Body) \in Nat
        /\ \A i \in 1..Len(m.Body) : m.Body[i] \in Letter
    BY DEF Text
  <2>2. pieces \in Seq(Seq(Letter))
    BY <1>3, <2>1
  <2> HIDE DEF pieces
  <2> QED BY <2>2, FlattenType DEF Text
<1> HIDE DEF v1, v2, v3, v4, v5, v6, body
<1> DEFINE l1 == LineOf("From", v1)
           l2 == LineOf("To", v2)
           l3 == LineOf("Reply-To", v3)
           l4 == LineOf("Subject", v4)
           l5 == LineOf("MIME-Version", v5)
           l6 == LineOf("X-CCC-Contact-Type", v6)
           s1 == Append(<<>>, l1)
           s2 == Append(s1, l2)
           s3 == Append(s2, l3)
           s4 == Append(s3, l4)
           s5 == Append(s4, l5)
           s6 == Append(s5, l6)
<1>5. Makes(<<>>, <<>>)
  <2>1. \A rest \in Text : Lines(rest, B) \in Seq(Text)
    BY LinesStep DEF Document
  <2>2. \A rest \in Text : <<>> \o rest = rest
    BY DEF Text
  <2>3. \A rest \in Text : <<>> \o Lines(rest, B) = Lines(rest, B)
    BY <2>1
  <2> QED BY <2>2, <2>3 DEF Makes, Text
<1>6. Makes(<<>> \o A1, s1) /\ l1 \in Text /\ IsLineOf(l1, "From")
  BY <1>2, <1>3, <1>5, HeaderMakes
<1>7. <<>> \o A1 = A1
  <2>1. Header("From", v1) \in Seq(Letter)
    <3> DEFINE colon == Colon
    <3>1. <<"From", colon>> \in Seq(Letter) /\ v1 \in Seq(Letter) /\ <<"\r", "\n">> \in Seq(Letter)
      <4>1. colon \in Letter
        BY Zenon DEF Letter, Words, Colon
      <4> HIDE DEF colon
      <4> QED BY <1>2, <1>3, <4>1 DEF Clean
    <3> DEFINE front == <<"From", colon>>
               back  == <<"\r", "\n">>
    <3>2. Header("From", v1) = front \o v1 \o back
      BY Zenon DEF Header, Colon
    <3> HIDE DEF colon
    <3>3. front \in Seq(Letter) /\ back \in Seq(Letter)
      BY <3>1
    <3> HIDE DEF front, back
    <3>4. front \o v1 \o back \in Seq(Letter)
      BY <3>1, <3>3
    <3> QED BY Zenon, <3>2, <3>4
  <2> QED BY <2>1
<1> HIDE DEF A1, s1, l1
<1>8. Makes(A1, s1)
  BY <1>6, <1>7
<1>9. Makes(A2, s2) /\ l2 \in Text /\ IsLineOf(l2, "To")
  BY <1>2, <1>3, <1>8, HeaderMakes
<1> HIDE DEF A2, s2, l2
<1>10. Makes(A3, s3) /\ l3 \in Text /\ IsLineOf(l3, "Reply-To")
  BY <1>2, <1>3, <1>9, HeaderMakes
<1> HIDE DEF A3, s3, l3
<1>11. Makes(A4, s4) /\ l4 \in Text /\ IsLineOf(l4, "Subject")
  BY <1>2, <1>3, <1>10, HeaderMakes
<1> HIDE DEF A4, s4, l4
<1>12. Makes(A5, s5) /\ l5 \in Text /\ IsLineOf(l5, "MIME-Version")
  BY <1>2, <1>3, <1>11, HeaderMakes
<1> HIDE DEF A5, s5, l5
<1>13. Makes(A6, s6) /\ l6 \in Text /\ IsLineOf(l6, "X-CCC-Contact-Type")
  BY <1>2, <1>3, <1>12, HeaderMakes
<1> HIDE DEF A6, s6, l6
<1>14. Lines(rfc822(m), B) = s6 \o (<< <<"\r">> >> \o Lines(body, B))
  <2>1. <<"\r">> \in Text /\ <<"\n">> \in Text /\ A6 \in Text
    BY <1>3, <1>13 DEF Text, Makes
  <2>2. <<"\r", "\n">> = <<"\r">> \o <<"\n">>
    OBVIOUS
  <2>3. A6 \o <<"\r", "\n">> \o body = A6 \o (<<"\r">> \o <<"\n">> \o body)
    BY <1>4, <2>1, <2>2, SMTT(20) DEF Text
  <2>4. <<"\r">> \o <<"\n">> \o body \in Text
    BY <1>4, <2>1 DEF Text
  <2>5. Lines(A6 \o (<<"\r">> \o <<"\n">> \o body), B) = s6 \o Lines(<<"\r">> \o <<"\n">> \o body, B)
    BY <1>13, <2>4 DEF Makes
  <2>6. Lines(<<"\r">> \o <<"\n">> \o body, B) = Lines(<<"\r">>, B) \o Lines(body, B)
    BY <1>3, <1>4, <2>1, LinesJoin
  <2>7. Lines(<<"\r">>, B) = << <<"\r">> >>
    <3>1. \A i \in 1..Len(<<"\r">>) : <<"\r">>[i] \notin B
      OBVIOUS
    <3> QED BY <2>1, <3>1, LinesPlain
  <2> QED BY <1>1, <2>3, <2>5, <2>6, <2>7
<1>15. /\ s1 \in Seq(Text) /\ s2 \in Seq(Text) /\ s3 \in Seq(Text)
       /\ s4 \in Seq(Text) /\ s5 \in Seq(Text) /\ s6 \in Seq(Text)
  BY <1>8, <1>9, <1>10, <1>11, <1>12, <1>13 DEF Makes
<1>16. /\ l1 \in Text /\ l2 \in Text /\ l3 \in Text /\ l4 \in Text /\ l5 \in Text /\ l6 \in Text
  BY <1>6, <1>9, <1>10, <1>11, <1>12, <1>13
<1>17. /\ Len(s6) = 6
       /\ s6[1] = l1 /\ s6[2] = l2 /\ s6[3] = l3 /\ s6[4] = l4 /\ s6[5] = l5 /\ s6[6] = l6
  <2>1. Len(s1) = 1 /\ s1[1] = l1
    BY <1>15, <1>16 DEF s1
  <2>2. Len(s2) = 2 /\ s2[1] = l1 /\ s2[2] = l2
    <3>1. Len(s2) = 2 /\ s2[2] = l2 /\ \A i \in 1..1 : s2[i] = s1[i]
      <4>1. s1 \in Seq(Text) /\ l2 \in Text /\ Len(s1) = 1
        BY <1>15, <1>16, <2>1
      <4>2. s2 = s1 \o <<l2>>
        BY <4>1, AppendIsConcat DEF s2
      <4> QED BY <4>1, <4>2, LineMore
    <3> QED BY <2>1, <3>1
  <2>3. Len(s3) = 3 /\ s3[1] = l1 /\ s3[2] = l2 /\ s3[3] = l3
    <3>1. Len(s3) = 3 /\ s3[3] = l3 /\ \A i \in 1..2 : s3[i] = s2[i]
      <4>1. s2 \in Seq(Text) /\ l3 \in Text /\ Len(s2) = 2
        BY <1>15, <1>16, <2>2
      <4>2. s3 = s2 \o <<l3>>
        BY <4>1, AppendIsConcat DEF s3
      <4> QED BY <4>1, <4>2, LineMore
    <3> QED BY <2>2, <3>1
  <2>4. Len(s4) = 4 /\ s4[1] = l1 /\ s4[2] = l2 /\ s4[3] = l3 /\ s4[4] = l4
    <3>1. Len(s4) = 4 /\ s4[4] = l4 /\ \A i \in 1..3 : s4[i] = s3[i]
      <4>1. s3 \in Seq(Text) /\ l4 \in Text /\ Len(s3) = 3
        BY <1>15, <1>16, <2>3
      <4>2. s4 = s3 \o <<l4>>
        BY <4>1, AppendIsConcat DEF s4
      <4> QED BY <4>1, <4>2, LineMore, SMTT(20)
    <3> QED BY <2>3, <3>1
  <2>5. Len(s5) = 5 /\ s5[1] = l1 /\ s5[2] = l2 /\ s5[3] = l3 /\ s5[4] = l4 /\ s5[5] = l5
    <3>1. Len(s5) = 5 /\ s5[5] = l5 /\ \A i \in 1..4 : s5[i] = s4[i]
      <4>1. s4 \in Seq(Text) /\ l5 \in Text /\ Len(s4) = 4
        BY <1>15, <1>16, <2>4
      <4>2. s5 = s4 \o <<l5>>
        BY <4>1, AppendIsConcat DEF s5
      <4> QED BY <4>1, <4>2, LineMore, SMTT(20)
    <3> QED BY <2>4, <3>1
  <2>6. Len(s6) = 6 /\ s6[1] = l1 /\ s6[2] = l2 /\ s6[3] = l3
        /\ s6[4] = l4 /\ s6[5] = l5 /\ s6[6] = l6
    <3>1. Len(s6) = 6 /\ s6[6] = l6 /\ \A i \in 1..5 : s6[i] = s5[i]
      <4>1. s5 \in Seq(Text) /\ l6 \in Text /\ Len(s5) = 5
        BY <1>15, <1>16, <2>5
      <4>2. s6 = s5 \o <<l6>>
        BY <4>1, AppendIsConcat DEF s6
      <4> DEFINE n == 5
      <4>3. n \in Nat /\ Len(s5) = n
        BY <4>1
      <4> HIDE DEF n
      <4>4. Len(s6) = n + 1 /\ s6[n + 1] = l6 /\ \A i \in 1..n : s6[i] = s5[i]
        BY <4>1, <4>2, <4>3, LineMore
      <4> QED BY <4>4 DEF n
    <3> QED BY <2>5, <3>1
  <2> QED BY <2>6
<1>18. \A k \in 1..6 : IsLineOf(s6[k], HeaderNames[k])
  <2>1. /\ HeaderNames[1] = "From" /\ HeaderNames[2] = "To" /\ HeaderNames[3] = "Reply-To"
        /\ HeaderNames[4] = "Subject" /\ HeaderNames[5] = "MIME-Version"
        /\ HeaderNames[6] = "X-CCC-Contact-Type"
    BY DEF HeaderNames
  <2>2. \A k \in 1..6 : k \in {1, 2, 3, 4, 5, 6}
    OBVIOUS
  <2> QED BY <1>6, <1>9, <1>10, <1>11, <1>12, <1>13, <1>17, <2>1, <2>2
<1> HIDE DEF s6, B
<1> QED BY <1>4, <1>14, <1>15, <1>17, <1>18 DEF B

\* Every mail has its six headers, each on a line of its own with a carriage
\* return at its end and nowhere else, and then an empty line: no setting and
\* no field of a form adds a header, ends one early or hides one
\* (mailer.go:77-78, mailer.go:96-143).
THEOREM HeadersKept == Spec => []HeadersIntact
<1>1. ASSUME IntakeInv PROVE HeadersIntact
  <2> SUFFICES ASSUME config.Transport = <<"smtp">>, NEW mail \in mails
               PROVE  LET lines == Lines(mail, {"\n"})
                          n     == Len(HeaderNames)
                      IN  /\ \A k \in 1..n : /\ Head(lines[k]) = HeaderNames[k]
                                             /\ {i \in DOMAIN lines[k] : lines[k][i] = "\r"} = {Len(lines[k])}
                          /\ lines[n + 1] = <<"\r">>
    BY DEF HeadersIntact
  <2> DEFINE m == buildMessage(newSubmission(case.form), config)
             lines == Lines(mail, {"\n"})
  <2>1. Complaints = {} /\ mail = Payload(m, config)
    BY <1>1 DEF IntakeInv
  <2>2. mail = rfc822(m)
    BY <2>1 DEF Payload
  <2>3. /\ m.FromName \in Text /\ m.FromAddr \in Text /\ m.To \in Text
        /\ m.ReplyTo \in Text /\ m.ReplyTo # <<>>
        /\ m.Subject \in Text /\ m.Body \in Text /\ m.Type \in Text
    BY <1>1, <2>1, MessageType
  <2> HIDE DEF m
  <2>4. PICK ls : \E body \in Text :
          /\ Len(ls) = 6 /\ ls \in Seq(Text)
          /\ \A k \in 1..6 : IsLineOf(ls[k], HeaderNames[k])
          /\ Lines(rfc822(m), {"\n"}) = ls \o (<< <<"\r">> >> \o Lines(body, {"\n"}))
    BY <2>3, MailMakes
  <2>5. PICK body \in Text :
          /\ Len(ls) = 6 /\ ls \in Seq(Text)
          /\ \A k \in 1..6 : IsLineOf(ls[k], HeaderNames[k])
          /\ Lines(rfc822(m), {"\n"}) = ls \o (<< <<"\r">> >> \o Lines(body, {"\n"}))
    BY <2>4
  <2> DEFINE R == Lines(body, {"\n"})
             empty == <<"\r">>
  <2>6. lines = ls \o (<<empty>> \o R)
    BY <2>2, <2>5
  <2>7. R \in Seq(Text)
    BY <2>5, LinesStep DEF Document
  <2>8. empty \in Text
    <3>1. "\r" \in Letter
      BY Zenon DEF Letter, Words
    <3> QED BY <3>1 DEF Text
  <2> HIDE DEF lines, R, empty
  <2>9. lines[6 + 1] = empty /\ \A k \in 1..6 : lines[k] = ls[k]
    <3> DEFINE n == 6
    <3>1. n \in Nat /\ Len(ls) = n /\ ls \in Seq(Text)
      BY <2>5
    <3> HIDE DEF n
    <3>2. lines[n + 1] = empty /\ \A k \in 1..n : lines[k] = ls[k]
      BY <2>6, <2>7, <2>8, <3>1, LinesThen
    <3> QED BY <3>2 DEF n
  <2>10. lines[7] = empty
    BY <2>9
  <2>11. Len(HeaderNames) = 6
    BY DEF HeaderNames
  <2>12. \A k \in 1..6 : /\ Head(lines[k]) = HeaderNames[k]
                         /\ {i \in DOMAIN lines[k] : lines[k][i] = "\r"} = {Len(lines[k])}
    BY <2>5, <2>9 DEF IsLineOf
  <2> QED BY <2>10, <2>11, <2>12 DEF lines, empty
<1> QED BY <1>1, IntakeInvariance, PTL

-----------------------------------------------------------------------------
(* Fences                                                                  *)

\* A line that is a fence is a run of backticks between blanks.
LEMMA FenceLineIs ==
  ASSUME NEW line \in Text
  PROVE  /\ FenceLine(line) \in Nat /\ FenceLine(line) <= Len(line)
         /\ \E p \in Nat : /\ p + FenceLine(line) <= Len(line)
                           /\ \A i \in 1..FenceLine(line) : line[p + i] = "bt"
<1> DEFINE bare == TrimSpace(line)
<1>1. line \in Seq(Letter) /\ Len(line) \in Nat
  BY DEF Text
<1>2. CASE ToSet(bare) # {"bt"}
  <2>1. FenceLine(line) = 0
    BY <1>2 DEF FenceLine
  <2>2. 0 + 0 <= Len(line) /\ \A i \in 1..0 : line[0 + i] = "bt"
    BY <1>1
  <2> QED BY <1>1, <2>1, <2>2
<1>3. CASE ToSet(bare) = {"bt"}
  <2>1. bare # <<>>
    BY <1>3 DEF ToSet
  <2>2. PICK a, b \in 1..Len(line) : a <= b /\ bare = SubSeq(line, a, b)
    BY <1>1, <2>1, TrimIs
  <2> DEFINE m == b - a + 1
  <2>3. Len(bare) = m /\ \A i \in 1..m : bare[i] = line[a + i - 1]
    BY <1>1, <2>2, SubSeqProperties
  <2>4. FenceLine(line) = m
    BY <1>3, <2>3 DEF FenceLine
  <2>5. \A i \in 1..m : bare[i] = "bt"
    <3>1. bare \in Seq(Letter)
      BY <1>1, TrimType
    <3>2. ToSet(bare) = {bare[i] : i \in 1..Len(bare)}
      BY <3>1 DEF ToSet
    <3> HIDE DEF bare, m
    <3> QED BY <1>3, <2>3, <3>2
  <2> HIDE DEF bare
  <2>6. a - 1 \in Nat /\ (a - 1) + m <= Len(line) /\ m \in Nat /\ m <= Len(line)
    BY <1>1, <2>2
  <2>7. \A i \in 1..m : line[(a - 1) + i] = "bt"
    <3> SUFFICES ASSUME NEW i \in 1..m PROVE line[(a - 1) + i] = "bt"
      OBVIOUS
    <3>1. (a - 1) + i = a + i - 1
      BY <2>2, <2>6
    <3> QED BY <2>3, <2>5, <3>1
  <2> HIDE DEF m
  <2> QED BY <2>4, <2>6, <2>7
<1> QED BY <1>2, <1>3

\* What the recursion in BacktickRuns computes.
LEMMA RunsAre ==
  ASSUME NEW s \in Text
  PROVE  \E run \in [0..Len(s) -> Nat] :
            /\ run[0] = 0
            /\ \A i \in 1..Len(s) : run[i] = IF s[i] = "bt" THEN run[i - 1] + 1 ELSE 0
            /\ BacktickRuns(s) = {run[i] : i \in 0..Len(s)}
<1> DEFINE n == Len(s)
           Solves(f) == f = [i \in 0..n |-> IF i = 0 THEN 0 ELSE IF s[i] = "bt" THEN f[i - 1] + 1 ELSE 0]
           run == CHOOSE f : Solves(f)
           step == [i \in 1..n |-> [d \in Nat |-> IF s[i] = "bt" THEN d + 1 ELSE 0]]
<1>1. n \in Nat
  BY DEF Text
<1>2. step \in [1..n -> [Nat -> Nat]]
  OBVIOUS
<1>3. \A i \in 1..n, d \in Nat : step[i][d] = IF s[i] = "bt" THEN d + 1 ELSE 0
  OBVIOUS
<1>4. BacktickRuns(s) = {run[i] : i \in 0..n}
  BY DEF BacktickRuns
<1> HIDE DEF step, n
<1>5. PICK f : Goes(n, Nat, 0, step, f)
  BY <1>1, <1>2, RecursionExists
<1>6. Solves(f)
  <2>1. ASSUME NEW i \in 1..n PROVE f[i] = IF s[i] = "bt" THEN f[i - 1] + 1 ELSE 0
    <3>1. i - 1 \in 0..n
      BY <1>1
    <3>2. f[i - 1] \in Nat
      BY <1>5, <3>1 DEF Goes
    <3> QED BY <1>3, <1>5, <3>2 DEF Goes
  <2>2. \A i \in 0..n : i # 0 => i \in 1..n
    BY <1>1
  <2>3. \A i \in 0..n : f[i] = IF i = 0 THEN 0 ELSE IF s[i] = "bt" THEN f[i - 1] + 1 ELSE 0
    BY <1>5, <2>1, <2>2 DEF Goes
  <2> QED BY <1>5, <2>3 DEF Goes
<1>7. Solves(run)
  <2> HIDE DEF Solves
  <2> QED BY <1>6
<1> HIDE DEF run
<1>8. run[0] = 0 /\ \A i \in 1..n : run[i] = IF s[i] = "bt" THEN run[i - 1] + 1 ELSE 0
  BY <1>1, <1>7
<1> DEFINE G == {i \in Nat : i <= n => run[i] \in Nat}
<1>9. 0 \in G
  BY <1>8
<1>10. ASSUME NEW i \in Nat, i \in G PROVE i + 1 \in G
  <2>1. CASE i + 1 <= n
    <3>1. i + 1 \in 1..n /\ run[i] \in Nat /\ (i + 1) - 1 = i
      BY <1>1, <1>10, <2>1
    <3> QED BY <1>8, <3>1
  <2> QED BY <1>1, <2>1
<1>11. \A i \in Nat : i \in G
  <2> HIDE DEF G
  <2> QED BY <1>9, <1>10, SetInduction
<1>12. run \in [0..n -> Nat]
  <2>1. run = [i \in 0..n |-> run[i]]
    BY <1>7
  <2>2. \A i \in 0..n : run[i] \in Nat
    BY <1>1, <1>11
  <2> QED BY <2>1, <2>2
<1> QED BY <1>4, <1>8, <1>12 DEF n

\* A fence is longer than every run of backticks in what it fences.
LEMMA FenceLonger ==
  ASSUME NEW s \in Text
  PROVE  /\ FenceLength(s) \in Nat /\ FenceLength(s) >= 3
         /\ \A a \in Nat, m \in Nat :
               a + m <= Len(s) /\ (\A i \in 1..m : s[a + i] = "bt") => m < FenceLength(s)
<1> DEFINE n == Len(s)
           R == BacktickRuns(s)
<1>1. n \in Nat
  BY DEF Text
<1>2. PICK run \in [0..n -> Nat] :
         /\ run[0] = 0
         /\ \A i \in 1..n : run[i] = IF s[i] = "bt" THEN run[i - 1] + 1 ELSE 0
         /\ R = {run[i] : i \in 0..n}
  BY RunsAre
<1> HIDE DEF n, R
<1> DEFINE G == {i \in Nat : i <= n => run[i] <= i}
<1>3. \A i \in Nat : i \in G
  <2>1. 0 \in G
    BY <1>2
  <2>2. ASSUME NEW i \in Nat, i \in G PROVE i + 1 \in G
    <3>1. CASE i + 1 <= n
      <4>1. i + 1 \in 1..n /\ i \in 0..n /\ run[i] \in Nat /\ run[i] <= i /\ (i + 1) - 1 = i
        BY <1>1, <1>2, <2>2, <3>1
      <4> QED BY <1>2, <4>1
    <3> QED BY <1>1, <3>1
  <2> HIDE DEF G
  <2> QED BY <2>1, <2>2, SetInduction
<1>4. R \in SUBSET Nat /\ R # {} /\ \A x \in R : x <= n
  <2>1. \A i \in 0..n : run[i] \in Nat /\ run[i] <= n
    BY <1>1, <1>2, <1>3
  <2>2. 0 \in 0..n
    BY <1>1
  <2> QED BY <1>2, <2>1, <2>2
<1>5. Max(R) \in Nat /\ \A x \in R : x <= Max(R)
  BY <1>1, <1>4, MaxIs
<1> DEFINE top == Max(R) + 1
           P == {3, top}
<1>6. /\ Max(P) \in Nat /\ Max(P) >= 3 /\ Max(P) >= top /\ FenceLength(s) = Max(P)
  <2>1. top \in Nat
    BY <1>5
  <2>2. FenceLength(s) = Max(P)
    BY DEF FenceLength, R
  <2> HIDE DEF top
  <2>3. P \in SUBSET Nat /\ P # {} /\ 3 \in P /\ top \in P /\ \A x \in P : x <= top + 3
    BY <2>1
  <2>4. top + 3 \in Nat
    BY <2>1
  <2> HIDE DEF P
  <2> QED BY <2>1, <2>2, <2>3, <2>4, MaxIs
<1> HIDE DEF P
<1>7. ASSUME NEW a \in Nat, NEW m \in Nat, a + m <= n, \A i \in 1..m : s[a + i] = "bt"
      PROVE  m < FenceLength(s)
  <2> DEFINE H == {j \in Nat : j <= m => run[a + j] >= j}
  <2>1. 0 \in H
    <3>1. a + 0 = a /\ a \in 0..n
      BY <1>1, <1>7
    <3> QED BY <1>2, <3>1
  <2>2. ASSUME NEW j \in Nat, j \in H PROVE j + 1 \in H
    <3>1. CASE j + 1 <= m
      <4>1. /\ j + 1 \in 1..m /\ a + j \in 0..n /\ a + (j + 1) \in 1..n
            /\ (a + (j + 1)) - 1 = a + j /\ run[a + j] >= j
        BY <1>1, <1>7, <2>2, <3>1
      <4>2. run[a + (j + 1)] = run[a + j] + 1
        BY <1>2, <1>7, <4>1
      <4>3. run[a + j] \in Nat
        BY <1>2, <4>1
      <4> QED BY <4>1, <4>2, <4>3
    <3> QED BY <1>7, <3>1
  <2>3. \A j \in Nat : j \in H
    <3> HIDE DEF H
    <3> QED BY <2>1, <2>2, SetInduction
  <2>4. run[a + m] >= m /\ a + m \in 0..n
    BY <1>1, <1>7, <2>3
  <2>5. run[a + m] \in R /\ run[a + m] \in Nat
    BY <1>2, <2>4
  <2> QED BY <1>5, <1>6, <2>4, <2>5
<1> QED BY <1>6, <1>7 DEF n

\* So is it longer than what could end it in there.
LEMMA NoneEnds ==
  ASSUME NEW s \in Text, NEW B
  PROVE  LET d == Lines(s, B)
         IN  \A k \in 1..Len(d) : FenceLine(d[k]) < FenceLength(s)
<1> DEFINE d == Lines(s, B)
<1>1. d \in Seq(Text) /\ s \in Seq(Letter)
  BY LinesStep DEF Document, Text
<1>2. ASSUME NEW k \in 1..Len(d) PROVE FenceLine(d[k]) < FenceLength(s)
  <2> DEFINE l == d[k]
             m == FenceLine(l)
  <2>1. l \in Text
    BY <1>1
  <2>2. PICK a \in Nat : Stretch(l, s, a)
    BY LinesWithin
  <2>3. /\ m \in Nat
        /\ \E p \in Nat : p + m <= Len(l) /\ \A i \in 1..m : l[p + i] = "bt"
    BY <2>1, FenceLineIs
  <2> HIDE DEF m, l
  <2>4. PICK p \in Nat : p + m <= Len(l) /\ \A i \in 1..m : l[p + i] = "bt"
    BY <2>3
  <2>5. Len(l) \in Nat /\ Len(s) \in Nat
    BY <1>1, <2>1 DEF Text
  <2>6. a + p \in Nat /\ (a + p) + m <= Len(s)
    BY <2>2, <2>3, <2>4, <2>5 DEF Stretch
  <2>7. \A i \in 1..m : s[(a + p) + i] = "bt"
    <3> SUFFICES ASSUME NEW i \in 1..m PROVE s[(a + p) + i] = "bt"
      OBVIOUS
    <3>1. p + i \in 1..Len(l) /\ a + (p + i) = (a + p) + i
      BY <2>2, <2>3, <2>4, <2>5
    <3> QED BY <2>2, <2>4, <3>1 DEF Stretch
  <2>8. m < FenceLength(s)
    BY <2>3, <2>6, <2>7, FenceLonger
  <2> QED BY <2>8 DEF m, l
<1> QED BY <1>2

\* f is the length of the fence that is open after each line of a document.
Reads(d, f) ==
  f \in [0..Len(d) -> Nat] /\ f[0] = 0 /\ \A k \in 1..Len(d) : f[k] = Fence(f[k - 1], d[k])

\* Which lines are prose, by such a function.
Outside(d, f) == {k \in 1..Len(d) : f[k - 1] = 0 /\ f[k] = 0}

\* That is what the recursion in Prose computes.
LEMMA ProseIs ==
  ASSUME NEW d \in Seq(Text), NEW f, Reads(d, f)
  PROVE  Prose(d) = Outside(d, f)
<1> DEFINE n == Len(d)
           Solves(g) == g = [k \in 0..n |-> IF k = 0 THEN 0 ELSE Fence(g[k - 1], d[k])]
           open == CHOOSE g : Solves(g)
<1>1. n \in Nat /\ \A k \in 1..n : d[k] \in Text
  OBVIOUS
<1>2. Prose(d) = {k \in 1..n : open[k - 1] = 0 /\ open[k] = 0}
  BY DEF Prose
<1> HIDE DEF n
<1>3. Solves(f)
  <2>1. \A k \in 0..n : k # 0 => k \in 1..n
    BY <1>1
  <2>2. \A k \in 0..n : f[k] = IF k = 0 THEN 0 ELSE Fence(f[k - 1], d[k])
    BY <2>1 DEF Reads, n
  <2> QED BY <2>2 DEF Reads, n
<1>4. Solves(open)
  <2> HIDE DEF Solves
  <2> QED BY <1>3
<1> HIDE DEF open
<1>5. open[0] = 0 /\ \A k \in 1..n : open[k] = Fence(open[k - 1], d[k])
  BY <1>1, <1>4
<1> DEFINE G == {i \in Nat : i <= n => open[i] = f[i]}
<1>6. 0 \in G
  BY <1>5 DEF Reads
<1>7. ASSUME NEW i \in Nat, i \in G PROVE i + 1 \in G
  <2>1. CASE i + 1 <= n
    <3>1. i + 1 \in 1..n /\ (i + 1) - 1 = i /\ open[i] = f[i]
      BY <1>1, <1>7, <2>1
    <3>2. open[i + 1] = Fence(open[i], d[i + 1]) /\ f[i + 1] = Fence(f[i], d[i + 1])
      BY <1>5, <3>1 DEF Reads, n
    <3> QED BY <3>1, <3>2
  <2> QED BY <1>1, <2>1
<1>8. \A i \in Nat : i \in G
  <2> HIDE DEF G
  <2> QED BY <1>6, <1>7, SetInduction
<1>9. \A k \in 1..n : open[k - 1] = f[k - 1] /\ open[k] = f[k]
  BY <1>1, <1>8
<1> QED BY <1>2, <1>9 DEF Outside, n

\* A document that has said W when its last line is read, with no fence open.
Tells(d, W) ==
  /\ d \in Seq(Text)
  /\ \E f : /\ Reads(d, f) /\ f[Len(d)] = 0
            /\ W = UNION {ToSet(d[k]) : k \in Outside(d, f)}

\* What is told is what is said.
LEMMA SaidIs ==
  ASSUME NEW d, NEW W, Tells(d, W)
  PROVE  Said(d) = W
<1>1. PICK f : /\ Reads(d, f) /\ f[Len(d)] = 0
               /\ W = UNION {ToSet(d[k]) : k \in Outside(d, f)}
  BY DEF Tells
<1>2. Prose(d) = Outside(d, f)
  BY <1>1, ProseIs DEF Tells
<1> QED BY <1>1, <1>2 DEF Said

\* One more line, that is no fence, is said.
LEMMA TellsLine ==
  ASSUME NEW d, NEW W, Tells(d, W), NEW l \in Text, FenceLine(l) < 3
  PROVE  Tells(d \o <<l>>, W \cup ToSet(l))
<1> DEFINE n == Len(d)
           e == d \o <<l>>
<1>1. PICK f : /\ Reads(d, f) /\ f[n] = 0
               /\ W = UNION {ToSet(d[k]) : k \in Outside(d, f)}
  BY DEF Tells
<1>2. /\ d \in Seq(Text) /\ e \in Seq(Text) /\ n \in Nat /\ Len(e) = n + 1 /\ e[n + 1] = l
      /\ \A k \in 1..n : e[k] = d[k]
  <2>1. d \in Seq(Text)
    BY DEF Tells
  <2> QED BY <2>1, LineMore
<1> HIDE DEF n, e
<1> DEFINE g == [k \in 0..(n + 1) |-> IF k <= n THEN f[k] ELSE 0]
<1>3. f \in [0..n -> Nat] /\ f[0] = 0 /\ \A k \in 1..n : f[k] = Fence(f[k - 1], d[k])
  BY <1>1 DEF Reads, n
<1>4. /\ g \in [0..(n + 1) -> Nat] /\ g[n + 1] = 0 /\ \A k \in 0..n : g[k] = f[k]
  BY <1>2, <1>3
<1> HIDE DEF g
<1>5. Reads(e, g)
  <2>1. g[0] = 0
    BY <1>2, <1>3, <1>4
  <2>2. ASSUME NEW k \in 1..(n + 1) PROVE g[k] = Fence(g[k - 1], e[k])
    <3>1. CASE k <= n
      <4>1. k \in 1..n /\ k \in 0..n /\ k - 1 \in 0..n
        BY <1>2, <3>1
      <4> QED BY <1>2, <1>3, <1>4, <4>1
    <3>2. CASE k = n + 1
      <4>1. g[k - 1] = 0
        <5>1. k - 1 = n /\ n \in 0..n
          BY <1>2, <3>2
        <5> QED BY <1>1, <1>4, <5>1 DEF n
      <4>2. FenceLine(l) \in Nat
        BY FenceLineIs
      <4>3. Fence(0, l) = 0
        BY <4>2 DEF Fence
      <4> QED BY <1>2, <1>4, <3>2, <4>1, <4>3
    <3> QED BY <1>2, <3>1, <3>2
  <2> QED BY <1>2, <1>4, <2>1, <2>2 DEF Reads
<1>6. Outside(e, g) = Outside(d, f) \cup {n + 1}
  <2>1. ASSUME NEW k \in 1..n PROVE g[k - 1] = f[k - 1] /\ g[k] = f[k]
    BY <1>2, <1>4
  <2>2. g[(n + 1) - 1] = 0
    <3>1. (n + 1) - 1 = n /\ n \in 0..n
      BY <1>2
    <3> QED BY <1>1, <1>4, <3>1 DEF n
  <2>3. 1..(n + 1) = 1..n \cup {n + 1}
    BY <1>2
  <2>4. Outside(d, f) = {k \in 1..n : f[k - 1] = 0 /\ f[k] = 0}
    BY DEF Outside, n
  <2>5. Outside(e, g) = {k \in 1..(n + 1) : g[k - 1] = 0 /\ g[k] = 0}
    BY <1>2 DEF Outside
  <2> QED BY <1>4, <2>1, <2>2, <2>3, <2>4, <2>5
<1>7. UNION {ToSet(e[k]) : k \in Outside(e, g)} = W \cup ToSet(l)
  <2>1. \A k \in Outside(d, f) : ToSet(e[k]) = ToSet(d[k])
    BY <1>2 DEF Outside, n
  <2>2. ToSet(e[n + 1]) = ToSet(l)
    BY <1>2
  <2> QED BY <1>1, <1>6, <2>1, <2>2
<1>8. Tells(e, W \cup ToSet(l))
  BY <1>2, <1>4, <1>5, <1>7 DEF Tells
<1> QED BY <1>8 DEF e

\* What is in a fence is not, if no line of it ends the fence.
LEMMA TellsFence ==
  ASSUME NEW d, NEW W, Tells(d, W), NEW fence \in Text, FenceLine(fence) >= 3,
         NEW t \in Seq(Text), \A k \in 1..Len(t) : FenceLine(t[k]) < FenceLine(fence),
         NEW e, e = d \o (<<fence>> \o t \o <<fence>>)
  PROVE  Tells(e, W)
<1> DEFINE n == Len(d)
           m == Len(t)
           L == FenceLine(fence)
           z == n + m + 2
<1>1. PICK f : /\ Reads(d, f) /\ f[n] = 0
               /\ W = UNION {ToSet(d[k]) : k \in Outside(d, f)}
  BY DEF Tells
<1>2. /\ d \in Seq(Text) /\ e \in Seq(Text) /\ n \in Nat /\ m \in Nat /\ L \in Nat
      /\ Len(e) = z /\ e[n + 1] = fence /\ e[z] = fence
      /\ \A k \in 1..n : e[k] = d[k]
      /\ \A k \in 1..m : e[n + 1 + k] = t[k]
  <2>1. d \in Seq(Text) /\ L \in Nat
    BY FenceLineIs DEF Tells
  <2> DEFINE p == <<fence>> \o t
             q == p \o <<fence>>
  <2>2. p \in Seq(Text) /\ Len(p) = m + 1 /\ p[1] = fence /\ \A k \in 1..m : p[k + 1] = t[k]
    OBVIOUS
  <2> HIDE DEF p
  <2>3. /\ q \in Seq(Text) /\ Len(q) = m + 2 /\ q[m + 2] = fence
        /\ \A k \in 1..(m + 1) : q[k] = p[k]
    BY <2>2
  <2>4. e = d \o q
    BY DEF p
  <2> HIDE DEF q
  <2>5. q[1] = fence /\ \A k \in 1..m : q[k + 1] = t[k]
    BY <2>2, <2>3
  <2>6. /\ e \in Seq(Text) /\ Len(e) = n + (m + 2) /\ \A k \in 1..n : e[k] = d[k]
        /\ \A k \in 1..(m + 2) : e[n + k] = q[k]
    BY <2>1, <2>3, <2>4
  <2>7. /\ m \in Nat /\ n \in Nat /\ n + (m + 2) = z /\ 1 \in 1..(m + 2) /\ m + 2 \in 1..(m + 2)
        /\ \A k \in 1..m : k + 1 \in 1..(m + 2) /\ n + 1 + k = n + (k + 1)
    BY <2>1
  <2> QED BY <2>1, <2>3, <2>5, <2>6, <2>7
<1>3. \A k \in 1..m : FenceLine(t[k]) < L /\ FenceLine(t[k]) \in Nat
  <2>1. \A k \in 1..m : t[k] \in Text
    OBVIOUS
  <2> QED BY <2>1, FenceLineIs
<1> HIDE DEF n, m
<1> DEFINE g == [k \in 0..z |-> IF k <= n THEN f[k] ELSE IF k = z THEN 0 ELSE L]
<1>4. f \in [0..n -> Nat] /\ f[0] = 0 /\ \A k \in 1..n : f[k] = Fence(f[k - 1], d[k])
  BY <1>1 DEF Reads, n
<1>5. /\ g \in [0..z -> Nat] /\ g[z] = 0 /\ \A k \in 0..n : g[k] = f[k]
      /\ \A k \in (n + 1)..(z - 1) : g[k] = L
  BY <1>2, <1>4
<1> HIDE DEF g
<1>6. g[n] = 0
  <2>1. f[n] = 0
    BY <1>1 DEF n
  <2>2. n \in 0..n
    BY <1>2
  <2> QED BY <1>5, <2>1, <2>2
<1>7. Reads(e, g)
  <2>1. g[0] = 0
    BY <1>2, <1>4, <1>5
  <2>2. ASSUME NEW k \in 1..z PROVE g[k] = Fence(g[k - 1], e[k])
    <3>1. CASE k <= n
      <4>1. k \in 1..n /\ k \in 0..n /\ k - 1 \in 0..n
        BY <1>2, <3>1
      <4> QED BY <1>2, <1>4, <1>5, <4>1
    <3>2. CASE k = n + 1
      <4>1. k - 1 = n /\ k \in (n + 1)..(z - 1)
        BY <1>2, <3>2
      <4>2. Fence(0, fence) = L
        BY DEF Fence
      <4> QED BY <1>2, <1>5, <1>6, <3>2, <4>1, <4>2
    <3>3. CASE k > n + 1 /\ k < z
      <4>1. /\ k - 1 \in (n + 1)..(z - 1) /\ k \in (n + 1)..(z - 1)
            /\ k - n - 1 \in 1..m /\ n + 1 + (k - n - 1) = k
        <5>1. n \in Nat /\ m \in Nat /\ k \in Int /\ z = n + m + 2
          BY <1>2
        <5> HIDE DEF z
        <5> QED BY <3>3, <5>1
      <4>2. e[k] = t[k - n - 1] /\ g[k] = L /\ g[k - 1] = L
        BY <1>2, <1>5, <4>1
      <4>3. FenceLine(e[k]) < L /\ FenceLine(e[k]) \in Nat
        BY <1>3, <4>1, <4>2
      <4>4. L # 0 /\ ~(FenceLine(e[k]) >= L)
        BY <1>2, <4>3
      <4>5. Fence(L, e[k]) = L
        <5> HIDE DEF L
        <5> QED BY <4>4 DEF Fence
      <4> QED BY <4>2, <4>5
    <3>4. CASE k = z
      <4>1. k - 1 \in (n + 1)..(z - 1)
        BY <1>2, <3>4, SMTT(20)
      <4>2. g[k - 1] = L /\ g[k] = 0 /\ e[k] = fence
        BY <1>2, <1>5, <3>4, <4>1
      <4>3. Fence(L, fence) = 0
        BY <1>2 DEF Fence
      <4> QED BY <4>2, <4>3
    <3> QED BY <1>2, <3>1, <3>2, <3>3, <3>4
  <2> QED BY <1>2, <1>5, <2>1, <2>2 DEF Reads
<1>8. Outside(e, g) = Outside(d, f)
  <2>1. ASSUME NEW k \in 1..n PROVE g[k - 1] = f[k - 1] /\ g[k] = f[k]
    BY <1>2, <1>5
  <2>2. ASSUME NEW k \in 1..z, k > n PROVE ~(g[k - 1] = 0 /\ g[k] = 0)
    <3>1. CASE k = n + 1
      <4>1. k \in (n + 1)..(z - 1)
        BY <1>2, <3>1
      <4> QED BY <1>5, <4>1
    <3>2. CASE k > n + 1
      <4>1. k - 1 \in (n + 1)..(z - 1)
        BY <1>2, <3>2
      <4> QED BY <1>5, <4>1
    <3> QED BY <1>2, <2>2, <3>1, <3>2
  <2>3. Outside(d, f) = {k \in 1..n : f[k - 1] = 0 /\ f[k] = 0}
    BY DEF Outside, n
  <2>4. Outside(e, g) = {k \in 1..z : g[k - 1] = 0 /\ g[k] = 0}
    BY <1>2 DEF Outside
  <2>5. \A k \in 1..z : k \in 1..n \/ k > n
    BY <1>2
  <2>6. \A k \in 1..n : k \in 1..z
    BY <1>2
  <2> QED BY <2>1, <2>2, <2>3, <2>4, <2>5, <2>6
<1>9. UNION {ToSet(e[k]) : k \in Outside(e, g)} = W
  <2>1. \A k \in Outside(d, f) : ToSet(e[k]) = ToSet(d[k])
    BY <1>2 DEF Outside, n
  <2> QED BY <1>1, <1>8, <2>1
<1> QED BY <1>2, <1>5, <1>7, <1>9 DEF Tells

Breaks == {"\n", "\r"}

\* A text whose lines, whatever follows it, have said W, with no fence open.
Writes(A, W) ==
  /\ A \in Text
  /\ \E d : Tells(d, W) /\ \A rest \in Text : Lines(A \o rest, Breaks) = d \o Lines(rest, Breaks)

\* Nothing says nothing.
LEMMA WritesNothing == Writes(<<>>, {})
<1>1. <<>> \in Text /\ \A rest \in Text : <<>> \o rest = rest
  BY DEF Text
<1>2. \A rest \in Text : <<>> \o Lines(rest, Breaks) = Lines(rest, Breaks)
  <2>1. \A rest \in Text : Lines(rest, Breaks) \in Seq(Text)
    BY LinesStep DEF Document
  <2> QED BY <2>1
<1>3. Tells(<<>>, {})
  <2> DEFINE f == [k \in 0..0 |-> 0]
  <2>1. Reads(<<>>, f) /\ f[Len(<<>>)] = 0
    BY DEF Reads
  <2>2. Outside(<<>>, f) = {}
    BY DEF Outside
  <2>3. <<>> \in Seq(Text)
    OBVIOUS
  <2> HIDE DEF f
  <2>4. {} = UNION {ToSet(<<>>[k]) : k \in Outside(<<>>, f)}
    BY <2>2
  <2> QED BY <2>1, <2>3, <2>4 DEF Tells
<1> QED BY <1>1, <1>2, <1>3 DEF Writes

\* A line says what it holds.
LEMMA WritesLine ==
  ASSUME NEW A, NEW W, Writes(A, W),
         NEW x \in Text, FenceLine(x) < 3, \A i \in 1..Len(x) : x[i] \notin Breaks
  PROVE  Writes(A \o (x \o <<"\n">>), W \cup ToSet(x))
<1> DEFINE nl == <<"\n">>
           A1 == A \o (x \o nl)
<1>1. "\n" \in Letter /\ "\n" \in Breaks
  BY Zenon DEF Letter, Words, Breaks
<1>2. nl \in Seq(Letter) /\ A \in Seq(Letter) /\ x \in Seq(Letter)
  BY <1>1 DEF Writes, Text
<1>3. PICK d : /\ Tells(d, W)
               /\ \A rest \in Text : Lines(A \o rest, Breaks) = d \o Lines(rest, Breaks)
  BY DEF Writes
<1> DEFINE d1 == d \o <<x>>
<1>4. Tells(d1, W \cup ToSet(x))
  BY <1>3, TellsLine
<1>5. ASSUME NEW rest \in Text PROVE Lines(A1 \o rest, Breaks) = d1 \o Lines(rest, Breaks)
  <2> DEFINE R == Lines(rest, Breaks)
  <2>1. rest \in Seq(Letter) /\ R \in Seq(Text) /\ d \in Seq(Text)
    BY <1>3, LinesStep DEF Document, Text, Tells
  <2>2. x \o nl \o rest \in Text
    <3> HIDE DEF nl
    <3> QED BY <1>2, <2>1 DEF Text
  <2>3. A1 \o rest = A \o (x \o nl \o rest)
    <3> HIDE DEF nl
    <3> QED BY <1>2, <2>1, SMTT(20)
  <2>4. Lines(A \o (x \o nl \o rest), Breaks) = d \o Lines(x \o nl \o rest, Breaks)
    BY <1>3, <2>2
  <2>5. Lines(x \o nl \o rest, Breaks) = Lines(x, Breaks) \o R
    BY <1>1, LinesJoin
  <2>6. Lines(x, Breaks) = <<x>>
    BY LinesPlain
  <2> HIDE DEF R
  <2>7. d \o (<<x>> \o R) = (d \o <<x>>) \o R
    BY <2>1
  <2> QED BY <2>3, <2>4, <2>5, <2>6, <2>7 DEF R
<1>6. A1 \in Text
  <2> HIDE DEF nl
  <2> QED BY <1>2 DEF Text
<1> HIDE DEF A1, d1
<1>7. Writes(A1, W \cup ToSet(x))
  BY <1>4, <1>5, <1>6 DEF Writes
<1> QED BY <1>7 DEF A1

\* A text in fences says nothing.
LEMMA WritesFence ==
  ASSUME NEW A, NEW W, Writes(A, W), NEW s \in Text, s # <<>>
  PROVE  Writes(A \o (mdFence(s) \o <<"\n">>), W) /\ mdFence(s) \in Text
<1> DEFINE nl == <<"\n">>
           L == FenceLength(s)
           fence == [i \in 1..L |-> "bt"]
           t == Lines(s, Breaks)
           F == fence \o nl \o s \o nl \o fence
           A1 == A \o (F \o nl)
<1>1. "\n" \in Letter /\ "bt" \in Letter /\ "\n" \in Breaks /\ "bt" \notin Breaks /\ "bt" \notin Blank
  <2>1. "\n" \in Letter /\ "bt" \in Letter
    BY Zenon DEF Letter, Words
  <2>2. "bt" \notin Breaks /\ "\n" \in Breaks
    BY DEF Breaks
  <2>3. "bt" \notin Blank
    <3>1. "bt" # " "
      BY Zenon
    <3>2. "bt" \notin {"\t", "\n", "\r"}
      OBVIOUS
    <3> QED BY <3>1, <3>2, Zenon DEF Blank
  <2> QED BY <2>1, <2>2, <2>3
<1>2. L \in Nat /\ L >= 3
  BY FenceLonger
<1> HIDE DEF L
<1>3. fence \in Seq(Letter) /\ Len(fence) = L /\ \A i \in 1..L : fence[i] = "bt"
  BY <1>1, <1>2
<1>4. mdFence(s) = F
  BY Zenon DEF mdFence, L
<1> HIDE DEF fence
<1>5. FenceLine(fence) = L
  <2>1. TrimSpace(fence) = fence
    <3>1. fence[1] \notin Blank /\ fence[Len(fence)] \notin Blank
      BY <1>1, <1>2, <1>3
    <3> QED BY <1>3, <3>1, TrimSame
  <2>2. ToSet(fence) = {"bt"}
    <3>1. ToSet(fence) = {fence[i] : i \in 1..L}
      BY <1>3 DEF ToSet
    <3>2. 1 \in 1..L
      BY <1>2
    <3> QED BY <1>3, <3>1, <3>2
  <2> QED BY <1>3, <2>1, <2>2 DEF FenceLine
<1>6. nl \in Seq(Letter) /\ A \in Seq(Letter) /\ s \in Seq(Letter) /\ fence \in Text
  BY <1>1, <1>3 DEF Writes, Text
<1>7. t \in Seq(Text) /\ \A k \in 1..Len(t) : FenceLine(t[k]) < FenceLine(fence)
  <2>1. t \in Seq(Text)
    BY LinesStep DEF Document
  <2> QED BY <1>5, <2>1, NoneEnds DEF L
<1>8. PICK d : /\ Tells(d, W)
               /\ \A rest \in Text : Lines(A \o rest, Breaks) = d \o Lines(rest, Breaks)
  BY DEF Writes
<1> HIDE DEF t
<1> DEFINE d1 == d \o (<<fence>> \o t \o <<fence>>)
<1>9. Tells(d1, W)
  <2> HIDE DEF d1
  <2> QED BY <1>2, <1>5, <1>6, <1>7, <1>8, TellsFence DEF d1
<1>10. Lines(fence, Breaks) = <<fence>>
  <2>1. \A i \in 1..Len(fence) : fence[i] \notin Breaks
    BY <1>1, <1>3
  <2> QED BY <1>6, <2>1, LinesPlain
<1>11. ASSUME NEW rest \in Text PROVE Lines(A1 \o rest, Breaks) = d1 \o Lines(rest, Breaks)
  <2> DEFINE R == Lines(rest, Breaks)
             r1 == fence \o nl \o rest
             r2 == s \o nl \o r1
             r3 == fence \o nl \o r2
  <2>1. rest \in Seq(Letter) /\ R \in Seq(Text) /\ d \in Seq(Text)
    BY <1>8, LinesStep DEF Document, Text, Tells
  <2>2. A1 \o rest = A \o r3
    <3> HIDE DEF nl
    <3> DEFINE p == fence \o nl
               q == s \o nl
    <3>1. p \in Seq(Letter) /\ q \in Seq(Letter)
      BY <1>3, <1>6
    <3>2. F = p \o q \o fence
      BY <1>3, <1>6
    <3>3. r1 = fence \o (nl \o rest)
      BY <1>3, <1>6, <2>1
    <3>4. nl \o rest \in Seq(Letter) /\ r1 \in Seq(Letter) /\ F \in Seq(Letter)
      BY <1>3, <1>6, <2>1
    <3>5. r3 = p \o (q \o r1)
      OBVIOUS
    <3> HIDE DEF p, q, F, r1, r3
    <3> DEFINE v == nl \o rest
    <3>6. v \in Seq(Letter)
      BY <3>4
    <3>7. (A \o (F \o nl)) \o rest = A \o (F \o v)
      <4>1. A \in Seq(Letter) /\ F \in Seq(Letter) /\ nl \in Seq(Letter) /\ rest \in Seq(Letter)
        BY <1>6, <2>1, <3>4
      <4> QED BY <4>1
    <3> HIDE DEF v
    <3>8. (p \o q \o fence) \o v = p \o (q \o (fence \o v))
      BY <1>3, <3>1, <3>6, SMTT(20)
    <3> QED BY <3>2, <3>3, <3>5, <3>7, <3>8 DEF v
  <2>3. Lines(r1, Breaks) = <<fence>> \o R
    <3>1. Lines(fence \o <<"\n">> \o rest, Breaks) = Lines(fence, Breaks) \o Lines(rest, Breaks)
      BY <1>1, <1>6, LinesJoin
    <3> QED BY <1>10, <3>1
  <2>4. r1 \in Text
    <3> HIDE DEF nl
    <3> QED BY <1>6, <2>1 DEF Text
  <2> HIDE DEF r1
  <2>5. Lines(r2, Breaks) = t \o Lines(r1, Breaks)
    BY <1>1, <1>6, <2>4, LinesJoin DEF t
  <2>6. r2 \in Text
    <3> HIDE DEF nl
    <3> QED BY <1>6, <2>4 DEF Text
  <2> HIDE DEF r2
  <2>7. Lines(r3, Breaks) = <<fence>> \o Lines(r2, Breaks)
    <3>1. Lines(fence \o <<"\n">> \o r2, Breaks) = Lines(fence, Breaks) \o Lines(r2, Breaks)
      BY <1>1, <1>6, <2>6, LinesJoin
    <3> QED BY <1>10, <3>1
  <2>8. r3 \in Text
    <3> HIDE DEF nl
    <3> QED BY <1>6, <2>6 DEF Text
  <2> HIDE DEF r3, R
  <2>9. Lines(A \o r3, Breaks) = d \o Lines(r3, Breaks)
    BY <1>8, <2>8
  <2>10. d \o (<<fence>> \o (t \o (<<fence>> \o R))) = (d \o (<<fence>> \o t \o <<fence>>)) \o R
    BY <1>6, <1>7, <2>1, SMTT(20)
  <2> QED BY <2>2, <2>3, <2>5, <2>7, <2>9, <2>10 DEF R
<1>12. A1 \in Text /\ F \in Text
  <2> HIDE DEF nl
  <2> QED BY <1>6 DEF Text
<1> HIDE DEF A1, d1
<1>13. Writes(A1, W)
  BY <1>9, <1>11, <1>12 DEF Writes
<1> QED BY <1>4, <1>12, <1>13 DEF A1

\* What a text that is written so says.
LEMMA WritesSays ==
  ASSUME NEW A, NEW W, Writes(A, W)
  PROVE  Said(Lines(A, Breaks)) = W
<1>1. PICK d : /\ Tells(d, W)
               /\ \A rest \in Text : Lines(A \o rest, Breaks) = d \o Lines(rest, Breaks)
  BY DEF Writes
<1>2. A \in Seq(Letter) /\ <<>> \in Text /\ A \o <<>> = A
  BY DEF Writes, Text
<1>3. Lines(A, Breaks) = d \o << <<>> >>
  <2>1. Lines(<<>>, Breaks) = << <<>> >>
    BY LinesStep
  <2>2. Lines(A \o <<>>, Breaks) = d \o Lines(<<>>, Breaks)
    BY <1>1, <1>2
  <2> QED BY <1>2, <2>1, <2>2
<1>4. FenceLine(<<>>) < 3
  <2>1. FenceLine(<<>>) \in Nat /\ FenceLine(<<>>) <= Len(<<>>)
    BY <1>2, FenceLineIs
  <2> QED BY <2>1
<1>5. W \cup ToSet(<<>>) = W
  BY DEF ToSet
<1>6. Tells(d \o << <<>> >>, W)
  BY <1>1, <1>2, <1>4, <1>5, TellsLine
<1> QED BY <1>3, <1>6, SaidIs

\* A text that says W once its last line ends.
Pending(A, W) == A \in Text /\ Writes(A \o <<"\n">>, W)

\* A word on a line of its own.
LEMMA WritesWord ==
  ASSUME NEW A, NEW W, Writes(A, W), NEW w \in Letter \ Breaks
  PROVE  Writes(A \o <<w, "\n">>, W \cup {w}) /\ Pending(A \o <<w>>, W \cup {w})
<1>1. "\n" \in Letter
  BY Zenon DEF Letter, Words
<1> DEFINE x == <<w>>
           nl == <<"\n">>
<1>2. x \in Seq(Letter) /\ nl \in Seq(Letter) /\ A \in Seq(Letter) /\ <<w, "\n">> = x \o nl
  BY <1>1 DEF Writes, Text
<1>3. Len(x) = 1 /\ ToSet(x) = {w} /\ \A i \in 1..Len(x) : x[i] \notin Breaks
  BY DEF ToSet
<1> HIDE DEF x
<1>4. x \in Text
  BY <1>2 DEF Text
<1>5. FenceLine(x) < 3
  <2>1. FenceLine(x) \in Nat /\ FenceLine(x) <= Len(x)
    BY <1>4, FenceLineIs
  <2> QED BY <1>3, <2>1
<1>6. Writes(A \o (x \o nl), W \cup {w})
  BY <1>3, <1>4, <1>5, WritesLine
<1> HIDE DEF nl
<1>7. (A \o x) \o nl = A \o (x \o nl) /\ A \o x \in Text
  BY <1>2 DEF Text
<1>8. Pending(A \o x, W \cup {w})
  BY <1>6, <1>7 DEF Pending, nl
<1> QED BY <1>2, <1>6, <1>8 DEF x

\* An end of a line, a line that is empty, and a word on its line.
LEMMA WritesHeading ==
  ASSUME NEW A, NEW W, Pending(A, W), NEW w \in Letter \ Breaks
  PROVE  Writes(A \o <<"\n", "\n", w, "\n">>, W \cup {w})
<1>1. "\n" \in Letter
  BY Zenon DEF Letter, Words
<1> DEFINE nl == <<"\n">>
           x == <<w, "\n">>
           A1 == A \o nl
           A2 == A1 \o (<<>> \o nl)
<1>2. Writes(A1, W) /\ A \in Seq(Letter)
  BY DEF Pending, Text
<1>3. Writes(A2, W)
  <2>1. <<>> \in Text /\ \A i \in 1..Len(<<>>) : <<>>[i] \notin Breaks
    BY DEF Text
  <2>2. FenceLine(<<>>) < 3
    <3>1. FenceLine(<<>>) \in Nat /\ FenceLine(<<>>) <= Len(<<>>)
      BY <2>1, FenceLineIs
    <3> QED BY <3>1
  <2>3. W \cup ToSet(<<>>) = W
    BY DEF ToSet
  <2> HIDE DEF A1
  <2>4. Writes(A1 \o (<<>> \o <<"\n">>), W \cup ToSet(<<>>))
    BY <1>2, <2>1, <2>2, WritesLine
  <2> QED BY <2>3, <2>4
<1>4. Writes(A2 \o x, W \cup {w})
  <2> HIDE DEF A2
  <2> QED BY <1>3, WritesWord
<1>5. nl \in Seq(Letter) /\ x \in Seq(Letter) /\ <<"\n", "\n", w, "\n">> = (nl \o nl) \o x
  BY <1>1
<1>6. <<>> \o nl = nl
  OBVIOUS
<1> HIDE DEF nl, x
<1>7. ((A \o nl) \o nl) \o x = A \o ((nl \o nl) \o x)
  BY <1>2, <1>5, SMTT(20)
<1> QED BY <1>4, <1>5, <1>6, <1>7

\* A text in fences.
LEMMA PendingFence ==
  ASSUME NEW A, NEW W, Writes(A, W), NEW s \in Text, s # <<>>
  PROVE  Pending(A \o mdFence(s), W)
<1> DEFINE F == mdFence(s)
           nl == <<"\n">>
<1>1. "\n" \in Letter
  BY Zenon DEF Letter, Words
<1>2. Writes(A \o (F \o nl), W) /\ F \in Text
  BY WritesFence
<1> HIDE DEF F
<1>3. F \in Seq(Letter) /\ A \in Seq(Letter) /\ nl \in Seq(Letter)
  BY <1>1, <1>2 DEF Writes, Text
<1> HIDE DEF nl
<1>4. (A \o F) \o nl = A \o (F \o nl) /\ A \o F \in Text
  BY <1>3 DEF Text
<1>5. Pending(A \o F, W)
  BY <1>2, <1>4 DEF Pending, nl
<1> QED BY <1>5 DEF F

\* The body of an issue says our words, and nothing else.
LEMMA BodySays ==
  ASSUME NEW sub, sub.Name \in Text, sub.Email \in Text, sub.Page \in Text,
         sub.Summary \in Text, sub.Summary # <<>>, sub.Details \in Text
  PROVE  LET said == Said(Lines(issueBody(sub), Breaks))
         IN  Headings \subseteq said /\ said \subseteq Headings \cup Optional
<1> DEFINE blank == " "
           nothing == "_(nothing provided)_"
           filed == "_Filed automatically_"
           from == sub.Name \o <<blank, "<">> \o sub.Email \o <<">">>
           h == <<"**Type:**", "\n", "**Submitted:**", "\n", "\n", "**From**", "\n">>
           pg == IF sub.Page = <<>> THEN <<>>
                 ELSE <<"\n", "\n", "**Page/Area:**", "\n">> \o mdFence(sub.Page)
           sm == <<"\n", "\n", "**Summary:**", "\n">>
           dt == <<"\n", "\n", "**Details:**", "\n">>
           dd == IF sub.Details = <<>> THEN <<nothing>> ELSE mdFence(sub.Details)
           end == <<"\n", "\n", "---", "\n", filed, "\n">>
           W0 == {"**Type:**", "**Submitted:**", "**From**"}
           W1 == IF sub.Page = <<>> THEN W0 ELSE W0 \cup {"**Page/Area:**"}
           W2 == W1 \cup {"**Summary:**"}
           W3 == W2 \cup {"**Details:**"}
           W4 == IF sub.Details = <<>> THEN W3 \cup {nothing} ELSE W3
           W5 == W4 \cup {"---"}
           W6 == W5 \cup {filed}
           A0 == h \o mdFence(from)
           A1 == A0 \o pg
           A2 == A1 \o sm
           A3 == A2 \o mdFence(sub.Summary)
           A4 == A3 \o dt
           A5 == A4 \o dd
           A6 == A5 \o end
<1>1. issueBody(sub) = A6
  BY Zenon DEF issueBody
<1>2. /\ {"**Type:**", "**Submitted:**", "**From**", "**Page/Area:**", "**Summary:**",
          "**Details:**", "---", nothing, filed} \subseteq Letter \ Breaks
      /\ {"\n", "<", ">", blank} \subseteq Letter
  <2>1. /\ {"**Type:**", "**Submitted:**", "**From**", "**Page/Area:**", "**Summary:**",
            "**Details:**", "---", nothing, filed} \subseteq Letter
        /\ {"\n", "<", ">", blank} \subseteq Letter
    BY Zenon DEF Letter, Words, Headings, Optional
  <2>2. /\ "**Type:**" \notin Breaks /\ "**Submitted:**" \notin Breaks /\ "**From**" \notin Breaks
        /\ "**Page/Area:**" \notin Breaks /\ "**Summary:**" \notin Breaks
        /\ "**Details:**" \notin Breaks /\ "---" \notin Breaks
        /\ nothing \notin Breaks /\ filed \notin Breaks
    BY Zenon DEF Breaks
  <2> HIDE DEF nothing, filed, blank
  <2> QED BY <2>1, <2>2
<1>3. from \in Text /\ from # <<>>
  <2> DEFINE gt == ">"
             u == <<blank, "<">>
             p == sub.Name \o u \o sub.Email
             n == Len(p)
  <2> HIDE DEF blank
  <2>1. u \in Seq(Letter) /\ gt \in Letter
    <3>1. blank \in Letter /\ "<" \in Letter /\ gt \in Letter
      BY <1>2
    <3> QED BY <3>1
  <2> HIDE DEF u, gt
  <2>2. p \in Seq(Letter)
    <3>1. sub.Name \in Seq(Letter) /\ sub.Email \in Seq(Letter)
      BY DEF Text
    <3>2. sub.Name \o u \in Seq(Letter)
      BY <2>1, <3>1
    <3> QED BY <3>1, <3>2
  <2> HIDE DEF p
  <2>3. n \in Nat
    BY <2>2
  <2>4. p \o <<gt>> \in Text
    BY <2>1, <2>2 DEF Text
  <2> DEFINE q == p \o <<gt>>
  <2> HIDE DEF q, n
  <2>5. Len(q) = n + 1
    BY <2>1, <2>2, <2>3, LineMore DEF q, n
  <2>6. q # <<>>
    BY <2>5, <2>3
  <2> QED BY <2>4, <2>6 DEF q, p, u, gt
<1> HIDE DEF blank, nothing, filed, from
<1>4. Writes(h, W0)
  <2> DEFINE t == <<"**Type:**", "\n">>
             u == <<"**Submitted:**">>
             v == <<"\n", "\n", "**From**", "\n">>
  <2>1. Writes(<<>> \o t, {} \cup {"**Type:**"})
    BY <1>2, WritesNothing, WritesWord
  <2>2. Pending((<<>> \o t) \o u, ({} \cup {"**Type:**"}) \cup {"**Submitted:**"})
    BY <1>2, <2>1, WritesWord
  <2>3. Writes(((<<>> \o t) \o u) \o v, (({} \cup {"**Type:**"}) \cup {"**Submitted:**"}) \cup {"**From**"})
    BY <1>2, <2>2, WritesHeading
  <2>4. h = (t \o u) \o v /\ <<>> \o t = t
    OBVIOUS
  <2>5. (({} \cup {"**Type:**"}) \cup {"**Submitted:**"}) \cup {"**From**"} = W0
    OBVIOUS
  <2> QED BY <2>3, <2>4, <2>5
<1>5. Pending(A0, W0)
  <2> HIDE DEF h, W0
  <2> QED BY <1>3, <1>4, PendingFence
<1> HIDE DEF A0, W0
<1>6. Pending(A1, W1)
  <2>1. CASE sub.Page = <<>>
    <3>1. A0 \o <<>> = A0
      BY <1>5 DEF Pending, Text
    <3> QED BY <1>5, <2>1, <3>1
  <2>2. CASE sub.Page # <<>>
    <3> DEFINE w == "**Page/Area:**"
               x == <<"\n", "\n", w, "\n">>
               F == mdFence(sub.Page)
    <3>1. w \in Letter \ Breaks
      BY <1>2
    <3>2. x \in Seq(Letter)
      BY <1>2
    <3> HIDE DEF w
    <3>3. Writes(A0 \o x, W0 \cup {w})
      BY <1>5, <3>1, WritesHeading
    <3> HIDE DEF x
    <3>4. Pending((A0 \o x) \o F, W0 \cup {w}) /\ F \in Seq(Letter)
      BY <2>2, <3>3, PendingFence, WritesFence DEF Text
    <3> HIDE DEF F
    <3>5. A0 \in Seq(Letter)
      BY <1>5 DEF Pending, Text
    <3>6. (A0 \o x) \o F = A0 \o (x \o F)
      BY <3>2, <3>4, <3>5
    <3> QED BY <2>2, <3>4, <3>6 DEF x, w, F
  <2> QED BY <2>1, <2>2
<1> HIDE DEF A1, W1
<1>7. Writes(A2, W2)
  BY <1>2, <1>6, WritesHeading
<1> HIDE DEF A2, W2
<1>8. Pending(A3, W2)
  BY <1>7, PendingFence
<1> HIDE DEF A3
<1>9. Writes(A4, W3)
  BY <1>2, <1>8, WritesHeading
<1> HIDE DEF A4, W3
<1>10. Pending(A5, W4)
  <2>1. CASE sub.Details = <<>>
    BY <1>2, <1>9, <2>1, WritesWord
  <2>2. CASE sub.Details # <<>>
    BY <1>9, <2>2, PendingFence
  <2> QED BY <2>1, <2>2
<1> HIDE DEF A5, W4
<1>11. Writes(A6, W6)
  <2> DEFINE x == <<"\n", "\n", "---", "\n">>
             y == <<filed, "\n">>
  <2>1. Writes(A5 \o x, W5)
    BY <1>2, <1>10, WritesHeading
  <2>2. x \in Seq(Letter) /\ y \in Seq(Letter) /\ end = x \o y
    BY <1>2
  <2> HIDE DEF x, W5
  <2>3. Writes((A5 \o x) \o y, W6)
    BY <1>2, <2>1, WritesWord
  <2>4. A5 \in Seq(Letter)
    BY <1>10 DEF Pending, Text
  <2> HIDE DEF y, end
  <2>5. (A5 \o x) \o y = A5 \o (x \o y)
    BY <2>2, <2>4
  <2> QED BY <2>2, <2>3, <2>5
<1> HIDE DEF A6
<1>12. Said(Lines(issueBody(sub), Breaks)) = W6
  BY <1>1, <1>11, WritesSays
<1>13. Headings \subseteq W6 /\ W6 \subseteq Headings \cup Optional
  <2>1. Headings = {"**Type:**", "**Submitted:**", "**From**", "**Summary:**", "**Details:**",
                    "---", filed}
    BY Zenon DEF Headings, filed
  <2>2. Optional = {"**Page/Area:**", nothing}
    BY Zenon DEF Optional, nothing
  <2>3. /\ W0 \subseteq W1 /\ W1 \subseteq W0 \cup {"**Page/Area:**"}
        /\ W3 \subseteq W4 /\ W4 \subseteq W3 \cup {nothing}
    BY DEF W1, W4
  <2> QED BY <2>1, <2>2, <2>3 DEF W0, W2, W3
<1> QED BY <1>12, <1>13

\* No text of a submitter ends its fence early or leaves it open: in every
\* issue every heading of ours is read as prose, and nothing of theirs
\* (issue #41, submission.go:216-221).
THEOREM EveryFenceHolds == Spec => []FencesHold
<1>1. ASSUME IntakeInv PROVE FencesHold
  <2> SUFFICES ASSUME NEW issue \in issues
               PROVE  LET said == Said(Lines(issue.Body, {"\n", "\r"}))
                      IN  Headings \subseteq said /\ said \subseteq Headings \cup Optional
    BY DEF FencesHold
  <2> DEFINE sub == newSubmission(case.form)
  <2>1. Complaints = {} /\ issue.Body = issueBody(sub)
    <3>1. stage = "answered"
      BY <1>1 DEF IntakeInv
    <3>2. complaints = {} /\ issue = buildIssue(sub, config) /\ complaints = Complaints
      BY <1>1, <3>1 DEF IntakeInv
    <3> HIDE DEF sub
    <3> QED BY <3>2 DEF buildIssue
  <2>2. /\ sub.Name \in Text /\ sub.Email \in Text /\ sub.Page \in Text
        /\ sub.Summary \in Text /\ sub.Summary # <<>> /\ sub.Details \in Text
    BY <1>1, <2>1, SubmissionType
  <2> HIDE DEF sub
  <2> QED BY <2>1, <2>2, BodySays DEF Breaks
<1> QED BY <1>1, IntakeInvariance, PTL
=============================================================================
