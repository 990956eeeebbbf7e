----------------------------- MODULE WikiCliProofs -----------------------------
(***************************************************************************)
(* Proofs about WikiCli and WikiConfig, for any number of processes, any   *)
(* set of commands, any settings, and any client that WikiClient allows.    *)
(*                                                                         *)
(* The argument.  A process uses the client as WikiClient has it, so what   *)
(* is proved of the client is true of the processes' calls.  A process      *)
(* gets to its call only with a whole request and with settings without a   *)
(* fault, and neither changes any more (Fits); and the exit code is made    *)
(* from what the call returned, which stays what it was.                    *)
(***************************************************************************)
EXTENDS WikiCli, WikiClientProofs, WellFoundedInduction, SequenceTheorems

-----------------------------------------------------------------------------
(* The invariant                                                           *)

Texts == {"text", Blank}

\* A text is not blank.
LEMMA TextSays == "text" # Blank
  BY Zenon DEF Blank

\* How far a process may be, and how far it is before it calls the client.
Before    == {"flags", "sources", "config", "ready"}
CliStages == Before \cup {"calling", "exited"}

AnyFlag == UNION {FlagsOf(cmd) : cmd \in Commands}

ProcessType ==
  [stage: CliStages, cmd: Commands, given: SUBSET AnyFlag, setup: Setups \cup {NoSetup},
   body: Texts \X Texts, exit: {NoExit} \cup codeOK..codeServer]

Bodies(r)  == {i \in 1..2 : r.body[i] # Blank}
Parents(r) == {"book", "chapter"} \cap r.given

\* What r asks for is whole.
Whole(r) ==
  /\ Cardinality(Bodies(r)) <= 1
  /\ r.cmd = "pageCreate" => Bodies(r) # {} /\ Cardinality(Parents(r)) = 1
  /\ Op(r.cmd) = "update" => Bodies(r) # {} \/ r.given \ {"id"} # {}

\* The exit code of r is one that its call k explains, if it made one.
ExitFits(r, k) ==
  \/ /\ k.stage = "idle"
     /\ r.exit \in {codeUsage, codeError} \/ (r.cmd = "help" /\ r.exit = codeOK)
  \/ /\ k.stage = "done"
     /\ r.exit = ExitCode(k.result) \/ (k.result = "ok" /\ r.exit = codeError)

\* A process r and its call k fit each other.
Fits(r, k) ==
  /\ r \in ProcessType /\ r.given \subseteq FlagsOf(r.cmd)
  /\ r.exit # NoExit <=> r.stage = "exited"
  /\ IF r.stage = "ready" THEN r.setup \in Setups /\ Fault(r.setup) = "none"
                          ELSE r.setup = NoSetup
  /\ r.stage \in Before => k.stage = "idle"
  /\ r.stage \in {"flags", "sources"} => r.body[1] = Blank /\ r.body[2] = Blank
  /\ r.stage \notin {"flags", "exited"} => r.cmd # "help"
  /\ r.stage = "sources" => FlagsSuffice(r.cmd, r.given)
  /\ r.stage \in {"config", "ready"} \/ k.stage # "idle" => Whole(r)
  /\ r.stage = "calling" => k.stage # "idle"
  /\ k.stage # "idle" => k.op = Op(r.cmd)
  /\ r.stage = "exited" => ExitFits(r, k)

CliInv ==
  /\ cli \in [Calls -> ProcessType]
  /\ \A c \in Calls : Fits(cli[c], call[c])

-----------------------------------------------------------------------------
(* Settings (config.go)                                                    *)

\* Some place of a sequence of n places is the last of those in S.
LEMMA LastExists ==
  ASSUME NEW n \in Nat, NEW S \in SUBSET (1..n), S # {}
  PROVE  \E i \in S : \A j \in S : j <= i
<1> DEFINE R == OpToRel(<, Nat)
           T == {n - i : i \in S}
<1>1. IsWellFoundedOn(R, Nat)
  BY NatLessThanWellFounded
<1>2. \A a, b \in Nat : a < b => <<a, b>> \in R
  BY DEF OpToRel
<1>3. T \subseteq Nat /\ T # {}
  <2>1. PICK i \in S : TRUE
    OBVIOUS
  <2>2. n - i \in T /\ \A j \in S : n - j \in Nat
    OBVIOUS
  <2> QED BY <2>2
<1> HIDE DEF R
<1>4. PICK m \in T : \A y \in T : ~(<<y, m>> \in R)
  <2> HIDE DEF T
  <2> QED BY <1>1, <1>3, WFMin
<1>5. PICK i \in S : m = n - i
  OBVIOUS
<1>6. \A j \in S : j \in Int /\ n - j \in T
  OBVIOUS
<1>7. ASSUME NEW j \in S PROVE j <= i
  <2>1. ~(n - j < m)
    BY <1>2, <1>3, <1>4, <1>6
  <2> QED BY <1>5, <1>6, <2>1
<1> QED BY <1>7

\* A configuration file, if there is one, gives each key a value.
LEMMA FileType ==
  ASSUME NEW s \in SetupType
  PROVE  FileValues(s).url \in Value /\ FileValues(s).token \in Value
<1>1. Blank \in Value
  BY DEF Value
<1> DEFINE lines == s.file.lines
           n == Len(lines)
<1>2. /\ lines \in Seq([key: STRING, value: Value])
      /\ n \in Nat /\ DOMAIN lines = 1..n
      /\ \A i \in 1..n : lines[i].value \in Value
  <2> DEFINE Line == [key: STRING, value: Value]
  <2>1. lines \in Seq(Line)
    BY DEF SetupType
  <2>2. \A l \in Line : l.value \in Value
    OBVIOUS
  <2> HIDE DEF lines, Line
  <2>3. \A i \in 1..Len(lines) : lines[i] \in Line
    BY <2>1
  <2>4. Len(lines) \in Nat /\ DOMAIN lines = 1..Len(lines)
    BY <2>1
  <2> QED BY <2>1, <2>2, <2>3, <2>4 DEF Line
<1> HIDE DEF lines, n
<1>3. ASSUME NEW key \in {"url", "token"}
      PROVE  parseConfigFile(lines)[key] \in Value
  <2> DEFINE at == {i \in DOMAIN lines : lines[i].key = key}
  <2>1. parseConfigFile(lines)[key] =
          IF at = {} THEN Blank
          ELSE lines[CHOOSE i \in at : \A j \in at : j <= i].value
    BY DEF parseConfigFile
  <2>2. at \in SUBSET (1..n)
    BY <1>2
  <2> HIDE DEF at
  <2>3. CASE at = {}
    BY <1>1, <2>1, <2>3
  <2>4. CASE at # {}
    <3>1. \E i \in at : \A j \in at : j <= i
      BY <1>2, <2>2, <2>4, LastExists
    <3>2. (CHOOSE i \in at : \A j \in at : j <= i) \in at
      BY <3>1
    <3> QED BY <1>2, <2>1, <2>2, <2>4, <3>2
  <2> QED BY <2>3, <2>4
<1>4. CASE Found(s)
  <2>1. FileValues(s) = parseConfigFile(lines)
    BY <1>4 DEF FileValues, lines
  <2> QED BY <1>3, <2>1
<1>5. CASE ~Found(s)
  <2>1. FileValues(s) = [key \in {"url", "token"} |-> Blank]
    BY <1>5 DEF FileValues
  <2> QED BY <1>1, <2>1
<1> QED BY <1>4, <1>5

Said(v) == v \notin {NotGiven, Blank}

\* The first of some values that says something, as SettingsSound has it.
FirstSaid(values) ==
  values[CHOOSE i \in DOMAIN values : /\ values[i] \notin {NotGiven, Blank}
                                      /\ \A j \in 1..(i - 1) : values[j] \in {NotGiven, Blank}]

\* It is the one before which none does.
LEMMA FirstFound ==
  ASSUME NEW n \in Nat, NEW values, DOMAIN values = 1..n,
         NEW i \in 1..n, Said(values[i]), \A j \in 1..(i - 1) : ~Said(values[j])
  PROVE  FirstSaid(values) = values[i]
<1> DEFINE P(k) == /\ values[k] \notin {NotGiven, Blank}
                   /\ \A j \in 1..(k - 1) : values[j] \in {NotGiven, Blank}
<1>1. P(i)
  BY DEF Said
<1>2. ASSUME NEW k \in 1..n, P(k) PROVE k = i
  <2>1. ~(k < i)
    BY <1>2 DEF Said
  <2>2. ~(i < k)
    BY <1>2 DEF Said
  <2> QED BY <2>1, <2>2
<1>3. FirstSaid(values) = values[CHOOSE k \in 1..n : P(k)]
  BY DEF FirstSaid
<1> HIDE DEF P
<1>4. (CHOOSE k \in 1..n : P(k)) = i
  BY <1>1, <1>2
<1> QED BY <1>3, <1>4

\* A setup without a fault: each setting is that of its first source, the numbers
\* are numbers, and the library's Load makes the same of the environment but for
\* the delay and for a URL without a host.
LEMMA FaultlessSetup ==
  ASSUME NEW s \in SetupType, Fault(s) = "none"
  PROVE  /\ resolved(s).url = FirstSaid(<<s.flags.url, s.env.url, FileValues(s).url>>)
         /\ resolved(s).token = FirstSaid(<<s.env.token, FileValues(s).token>>)
         /\ resolved(s).retries = "set" /\ resolved(s).timeout = "set"
         /\ FileValues(s).token # Blank => s.file.private
         /\ ~Garbled(s.env)
         /\ {s.flags[f] : f \in DOMAIN s.flags} = {NotGiven} /\ ~Found(s)
              => /\ [Loaded(s.env) EXCEPT !.delay = resolved(s).delay]
                      = [resolved(s) EXCEPT !.url = Trimmed(@)]
                 /\ LoadAccepts(s.env)
                      <=> s.env.delay # "garbage" /\ resolved(s).url # "hostless"
<1> DEFINE url == s.flags.url
           env == s.env.url
           file == FileValues(s).url
           token == s.env.token
           filed == FileValues(s).token
<1>1. /\ url \in STRING /\ env \in Value /\ token \in Value
      /\ s.flags.timeout \in {NotGiven, "set"}
      /\ s.flags.retries \in {NotGiven, "set", "negative"}
      /\ s.env.timeout \in {Blank, "set", "garbage"}
      /\ s.env.retries \in {Blank, "set", "negative", "garbage"}
      /\ DOMAIN s.flags = {"url", "config", "timeout", "retries"}
  BY DEF SetupType
<1>2. file \in Value /\ filed \in Value
  BY FileType
<1>3. ~loadFails(s) /\ ~Garbled(s.env) /\ validate(resolved(s))
  BY DEF Fault
<1>4. /\ resolved(s).url = Flagged(url, FirstOf(env, file))
      /\ resolved(s).token = FirstOf(token, filed)
      /\ resolved(s).timeout = Flagged(s.flags.timeout, FirstOf(s.env.timeout, "set"))
      /\ resolved(s).retries = Flagged(s.flags.retries, FirstOf(s.env.retries, "set"))
  BY DEF resolved
<1>5. /\ resolved(s).url # Blank /\ resolved(s).token # Blank
      /\ resolved(s).retries # "negative"
  BY <1>3 DEF validate
<1>6. resolved(s).url = FirstSaid(<<url, env, file>>)
  <2> DEFINE v == <<url, env, file>>
  <2>1. DOMAIN v = 1..3 /\ v[1] = url /\ v[2] = env /\ v[3] = file
    OBVIOUS
  <2> HIDE DEF v, url, env, file
  <2>2. CASE url # NotGiven
    <3>1. Said(v[1]) /\ resolved(s).url = v[1]
      BY <1>4, <1>5, <2>1, <2>2 DEF Said, Flagged
    <3>2. 3 \in Nat /\ 1 \in 1..3 /\ \A j \in 1..(1 - 1) : ~Said(v[j])
      BY <3>1
    <3>3. FirstSaid(v) = v[1]
      BY <2>1, <3>1, <3>2, FirstFound
    <3> QED BY <3>1, <3>3 DEF v
  <2>3. CASE url = NotGiven /\ env # Blank
    <3>1. ~Said(v[1]) /\ Said(v[2]) /\ resolved(s).url = v[2]
      BY <1>1, <1>4, <1>5, <2>1, <2>3 DEF Said, Flagged, FirstOf, Value, Blank, NotGiven
    <3>2. 3 \in Nat /\ 2 \in 1..3 /\ \A j \in 1..(2 - 1) : ~Said(v[j])
      BY <3>1
    <3>3. FirstSaid(v) = v[2]
      BY <2>1, <3>1, <3>2, FirstFound
    <3> QED BY <3>1, <3>3 DEF v
  <2>4. CASE url = NotGiven /\ env = Blank
    <3>1. ~Said(v[1]) /\ ~Said(v[2]) /\ Said(v[3]) /\ resolved(s).url = v[3]
      BY <1>2, <1>4, <1>5, <2>1, <2>4 DEF Said, Flagged, FirstOf, Value, Blank, NotGiven
    <3>2. 3 \in Nat /\ 3 \in 1..3 /\ \A j \in 1..(3 - 1) : ~Said(v[j])
      BY <3>1
    <3>3. FirstSaid(v) = v[3]
      BY <2>1, <3>1, <3>2, FirstFound
    <3> QED BY <3>1, <3>3 DEF v
  <2> QED BY <2>2, <2>3, <2>4
<1>7. resolved(s).token = FirstSaid(<<token, filed>>)
  <2> DEFINE v == <<token, filed>>
  <2>1. DOMAIN v = 1..2 /\ v[1] = token /\ v[2] = filed
    OBVIOUS
  <2> HIDE DEF v, token, filed
  <2>2. CASE token # Blank
    <3>1. Said(v[1]) /\ resolved(s).token = v[1]
      BY <1>1, <1>4, <2>1, <2>2 DEF Said, FirstOf, Value, Blank, NotGiven
    <3>2. 2 \in Nat /\ 1 \in 1..2 /\ \A j \in 1..(1 - 1) : ~Said(v[j])
      BY <3>1
    <3>3. FirstSaid(v) = v[1]
      BY <2>1, <3>1, <3>2, FirstFound
    <3> QED BY <3>1, <3>3 DEF v
  <2>3. CASE token = Blank
    <3>1. ~Said(v[1]) /\ Said(v[2]) /\ resolved(s).token = v[2]
      BY <1>2, <1>4, <1>5, <2>1, <2>3 DEF Said, FirstOf, Value, Blank, NotGiven
    <3>2. 2 \in Nat /\ 2 \in 1..2 /\ \A j \in 1..(2 - 1) : ~Said(v[j])
      BY <3>1
    <3>3. FirstSaid(v) = v[2]
      BY <2>1, <3>1, <3>2, FirstFound
    <3> QED BY <3>1, <3>3 DEF v
  <2> QED BY <2>2, <2>3
<1>8. resolved(s).retries = "set" /\ resolved(s).timeout = "set"
  <2>1. s.env.timeout # "garbage" /\ s.env.retries # "garbage"
    BY <1>3 DEF Garbled
  <2>2. Blank \notin {NotGiven, "set", "negative"} /\ NotGiven \notin {"set", "negative"}
    BY DEF Blank, NotGiven
  <2> QED BY <1>1, <1>4, <1>5, <2>1, <2>2 DEF Flagged, FirstOf
<1>9. filed # Blank => s.file.private
  BY <1>3 DEF loadFails
<1>10. ASSUME {s.flags[f] : f \in DOMAIN s.flags} = {NotGiven}, ~Found(s)
       PROVE  /\ [Loaded(s.env) EXCEPT !.delay = resolved(s).delay]
                   = [resolved(s) EXCEPT !.url = Trimmed(@)]
              /\ LoadAccepts(s.env)
                   <=> s.env.delay # "garbage" /\ resolved(s).url # "hostless"
  <2> DEFINE time == FirstOf(s.env.timeout, "set")
             tries == FirstOf(s.env.retries, "set")
             wait == FirstOf(s.env.delay, "default")
  <2>1. /\ url = NotGiven /\ s.flags.timeout = NotGiven /\ s.flags.retries = NotGiven
    BY <1>1, <1>10
  <2>2. file = Blank /\ filed = Blank
    BY <1>10 DEF FileValues
  <2>3. /\ resolved(s) = [url |-> env, token |-> token, timeout |-> time, retries |-> tries,
                         delay |-> "default"]
        /\ Loaded(s.env) = [url |-> Trimmed(env), token |-> token, timeout |-> time,
                            retries |-> tries, delay |-> wait]
    <3> HIDE DEF file, filed
    <3>1. FirstOf(env, file) = env /\ FirstOf(token, filed) = token
      BY <2>2 DEF FirstOf
    <3>2. resolved(s) = [url |-> FirstOf(env, file), token |-> FirstOf(token, filed),
                         timeout |-> time, retries |-> tries, delay |-> "default"]
      BY <2>1 DEF resolved, Flagged, file, filed
    <3> QED BY <3>1, <3>2 DEF Loaded
  <2> HIDE DEF time, tries, wait, env, token
  <2>4. [Loaded(s.env) EXCEPT !.delay = resolved(s).delay]
          = [resolved(s) EXCEPT !.url = Trimmed(@)]
    BY <2>3
  <2>5. validate(Loaded(s.env)) <=> env # "hostless"
    <3>1. /\ resolved(s).url = env /\ resolved(s).token = token
          /\ resolved(s).retries = tries
      BY <2>3
    <3>2. /\ Loaded(s.env).url = Trimmed(env) /\ Loaded(s.env).token = token
          /\ Loaded(s.env).retries = tries
      BY <2>3
    <3>3. CASE env = "hostless"
      <4>1. Trimmed(env) = "no scheme"
        BY <3>3, Zenon DEF Trimmed
      <4> QED BY <3>2, <3>3, <4>1, Zenon DEF validate
    <3>4. CASE env # "hostless"
      <4>1. Trimmed(env) = env
        BY <3>4, Zenon DEF Trimmed
      <4> QED BY <1>3, <3>1, <3>2, <3>4, <4>1, Zenon DEF validate
    <3> QED BY <3>3, <3>4
  <2>6. LoadAccepts(s.env) <=> s.env.delay # "garbage" /\ resolved(s).url # "hostless"
    BY <1>3, <2>3, <2>5 DEF LoadAccepts
  <2> QED BY <2>4, <2>6
<1> QED BY <1>3, <1>6, <1>7, <1>8, <1>9, <1>10

-----------------------------------------------------------------------------
(* Requests                                                                *)

\* An update demands the page or the container that it is of.
LEMMA UpdatesDemand ==
  Demanded["pageUpdate"] = {"id"} /\ Demanded["containerUpdate"] = {"id"}
  BY DEF Demanded

\* A body is that of one of the two sources.
LEMMA BodiesAre ==
  ASSUME NEW r
  PROVE  /\ 1 \in Bodies(r) <=> r.body[1] # Blank
         /\ 2 \in Bodies(r) <=> r.body[2] # Blank
         /\ Bodies(r) \subseteq {1, 2}
<1>1. 1..2 = {1, 2}
  OBVIOUS
<1> QED BY <1>1 DEF Bodies

\* An empty body is none.
LEMMA NoBody ==
  ASSUME NEW r, r.body[1] = Blank, r.body[2] = Blank
  PROVE  Bodies(r) = {} /\ Cardinality(Bodies(r)) <= 1
<1>1. Bodies(r) = {}
  BY BodiesAre
<1>2. Cardinality({}) = 0
  BY FS_EmptySet
<1> QED BY <1>1, <1>2

\* A page whose flags and sources are accepted is whole: where one source is
\* absent, only the other one can be a body.
LEMMA PageWhole ==
  ASSUME NEW r, r.cmd \in Pages, FlagsSuffice(r.cmd, r.given),
         NEW md \in Sources, NEW html \in Sources, NEW left, NEW rest,
         r.body = <<TextOf(md, left), TextOf(html, rest)>>,
         BodyAccepted(r.cmd, md, html, r.body),
         {md, html} = {"absent"} => r.given # {"id"}
  PROVE  Whole(r)
<1>1. r.body[1] = TextOf(md, left) /\ r.body[2] = TextOf(html, rest)
  OBVIOUS
<1>2. /\ md = "absent" => r.body[1] = Blank
      /\ html = "absent" => r.body[2] = Blank
      /\ md # "absent" => r.body[1] # Blank
      /\ html # "absent" => r.body[2] # Blank
      /\ md = "absent" \/ html = "absent"
  BY <1>1, TextSays DEF TextOf, BodyAccepted
<1>3. Cardinality(Bodies(r)) <= 1
  <2>1. Bodies(r) \in {{}, {1}, {2}}
    BY <1>2, BodiesAre
  <2>2. Cardinality({}) = 0 /\ Cardinality({1}) = 1 /\ Cardinality({2}) = 1
    BY FS_EmptySet, FS_Singleton
  <2> QED BY <2>1, <2>2
<1>4. md # "absent" \/ html # "absent" => Bodies(r) # {}
  BY <1>2, BodiesAre
<1>5. ASSUME r.cmd = "pageCreate"
      PROVE  Bodies(r) # {} /\ Cardinality(Parents(r)) = 1
  <2>1. md # "absent" \/ html # "absent"
    BY <1>5 DEF BodyAccepted
  <2>2. Parents(r) = {"book"} \/ Parents(r) = {"chapter"}
    BY <1>5 DEF FlagsSuffice, Parents, Pages
  <2>3. Cardinality({"book"}) = 1 /\ Cardinality({"chapter"}) = 1
    BY FS_Singleton
  <2> QED BY <1>4, <2>1, <2>2, <2>3
<1>6. ASSUME Op(r.cmd) = "update"
      PROVE  Bodies(r) # {} \/ r.given \ {"id"} # {}
  <2>1. r.cmd = "pageUpdate"
    BY <1>6 DEF Op, Pages
  <2>2. "id" \in r.given
    BY <2>1, UpdatesDemand DEF FlagsSuffice
  <2> QED BY <1>4, <2>2
<1> QED BY <1>3, <1>5, <1>6 DEF Whole

\* So is any other command whose flags are accepted.
LEMMA OtherWhole ==
  ASSUME NEW r, r.cmd \in Commands \ Pages, FlagsSuffice(r.cmd, r.given),
         r.body[1] = Blank, r.body[2] = Blank
  PROVE  Whole(r)
<1>1. Bodies(r) = {} /\ Cardinality(Bodies(r)) <= 1
  BY NoBody
<1>2. ASSUME Op(r.cmd) = "update" PROVE r.given \ {"id"} # {}
  <2>1. r.cmd = "containerUpdate"
    BY <1>2 DEF Op, Pages
  <2>2. "id" \in r.given /\ r.given # {"id"}
    BY <2>1, UpdatesDemand DEF FlagsSuffice
  <2> QED BY <2>2
<1>3. Cardinality(Bodies(r)) <= 1 /\ r.cmd # "pageCreate"
  BY <1>1, Zenon DEF Pages
<1> QED BY <1>2, <1>3 DEF Whole

-----------------------------------------------------------------------------
(* Steps of the client                                                     *)

\* A step of the client's loop or of what is around it begins no call, ends none
\* twice, and leaves what a call asks for.
LEMMA ClientKeeps ==
  ASSUME ClientInv, (\E c \in Calls : Loop(c)) \/ Outside \/ UNCHANGED vars, NEW d \in Calls
  PROVE  /\ call'[d].op = call[d].op
         /\ call'[d].stage = "idle" <=> call[d].stage = "idle"
         /\ call[d].stage = "done" => call'[d] = call[d]
<1>1. call \in [Calls -> CallType]
  BY DEF ClientInv, TypeOK
<1>2. ASSUME NEW c \in Calls, Loop(c)
      PROVE  \E r : /\ Goes(c, r) /\ r.op = call[c].op /\ r.stage # "idle"
                    /\ call[c].stage \in {"waiting", "backoff"}
  <2>1. ASSUME NEW x, NEW e
        PROVE  Return(call[c], x, e).op = call[c].op /\ Return(call[c], x, e).stage = "done"
    BY <1>1 DEF Return, CallType
  <2>2. ASSUME NEW t
        PROVE  /\ [call[c] EXCEPT !.stage = "backoff", !.left = t].op = call[c].op
               /\ [call[c] EXCEPT !.stage = "backoff", !.left = t].stage = "backoff"
    BY <1>1 DEF CallType
  <2>3. ASSUME NEW error, RetryOrReturn(c, error)
        PROVE  \E r : Goes(c, r) /\ r.op = call[c].op /\ r.stage # "idle"
    BY <2>1, <2>2, <2>3 DEF RetryOrReturn
  <2>4. CASE TransportFails(c)
    BY <2>3, <2>4 DEF TransportFails
  <2>5. CASE ReadReply(c)
    BY <2>1, <2>3, <2>5 DEF ReadReply
  <2>6. CASE BackoffEnds(c)
    <3> DEFINE q == [call[c] EXCEPT !.attempt = @ + 1]
               r == [q EXCEPT !.stage = "waiting",
                              !.left = IF HttpTimeout = 0 THEN NoTimer ELSE HttpTimeout]
    <3>1. Goes(c, r) /\ call[c].stage = "backoff"
      BY <2>6 DEF BackoffEnds, Send
    <3>2. r.op = call[c].op /\ r.stage = "waiting"
      BY <1>1 DEF CallType
    <3> HIDE DEF r
    <3> QED BY <3>1, <3>2
  <2>7. CASE BackoffAborts(c)
    BY <2>1, <2>7 DEF BackoffAborts
  <2> QED BY <1>2, <2>4, <2>5, <2>6, <2>7 DEF Loop
<1>3. CASE \E c \in Calls : Loop(c)
  <2>1. PICK c, r : /\ c \in Calls /\ Goes(c, r) /\ r.op = call[c].op
                    /\ r.stage # "idle" /\ call[c].stage \in {"waiting", "backoff"}
    BY <1>2, <1>3
  <2>2. call'[d] = IF d = c THEN r ELSE call[d]
    BY <1>1, <2>1 DEF Goes
  <2> QED BY <2>1, <2>2
<1>4. CASE Outside
  <2>1. CASE Tick
    BY <2>1, TickOnlyTimes
  <2>2. CASE ~Tick
    <3>1. call' = call
      BY <1>4, <2>2
         DEF Outside, BookStackAccepts, BookStackRefuses, GatewayGivesUp, FollowRedirect
    <3> QED BY <3>1
  <2> QED BY <2>1, <2>2
<1>5. CASE UNCHANGED vars
  BY <1>5 DEF vars
<1> QED BY <1>3, <1>4, <1>5

\* A process goes on fitting its call when the call goes on.
LEMMA FitsOn ==
  ASSUME NEW r, NEW k, NEW l, Fits(r, k), l.op = k.op,
         l.stage = "idle" <=> k.stage = "idle", k.stage = "done" => l = k
  PROVE  Fits(r, l)
<1>1. r.stage = "exited" => ExitFits(r, l)
  BY DEF Fits, ExitFits
<1> QED BY <1>1 DEF Fits

\* So the client's steps keep the invariant.
LEMMA ClientStepInv ==
  ASSUME ClientInv, CliInv, (\E c \in Calls : Loop(c)) \/ Outside \/ UNCHANGED vars,
         UNCHANGED cli
  PROVE  CliInv'
<1> SUFFICES ASSUME NEW d \in Calls PROVE Fits(cli[d], call'[d])
  BY DEF CliInv
<1>1. Fits(cli[d], call[d])
  BY DEF CliInv
<1> QED BY <1>1, ClientKeeps, FitsOn

-----------------------------------------------------------------------------
(* Steps of a process                                                      *)

\* A process moves on to what fits its call.
LEMMA MovesInv ==
  ASSUME CliInv, NEW c \in Calls, NEW r, cli' = [cli EXCEPT ![c] = r],
         \A d \in Calls \ {c} : call'[d] = call[d], Fits(r, call'[c])
  PROVE  CliInv'
<1>1. r \in ProcessType
  BY DEF Fits
<1>2. cli' \in [Calls -> ProcessType] /\ cli'[c] = r /\ \A d \in Calls \ {c} : cli'[d] = cli[d]
  BY <1>1 DEF CliInv
<1>3. ASSUME NEW d \in Calls PROVE Fits(cli'[d], call'[d])
  BY <1>2 DEF CliInv
<1> QED BY <1>2, <1>3 DEF CliInv

\* The exit codes are codes.
LEMMA Codes ==
  /\ {codeOK, codeError, codeUsage, codeAuth, codeForbidden, codeServer}
       \subseteq codeOK..codeServer
  /\ NoExit \notin codeOK..codeServer
  BY DEF codeOK, codeError, codeUsage, codeAuth, codeForbidden, codeServer, NoExit

\* A process ends with a code that its call explains.
LEMMA ExitsFit ==
  ASSUME NEW r, NEW k, Fits(r, k), r.stage \notin {"ready", "exited"},
         NEW code \in codeOK..codeServer,
         \/ k.stage = "idle" /\ (code \in {codeUsage, codeError}
                                  \/ (r.cmd = "help" /\ code = codeOK))
         \/ k.stage = "done" /\ (code = ExitCode(k.result)
                                  \/ (k.result = "ok" /\ code = codeError))
  PROVE  Fits(Exits(r, code), k)
<1> DEFINE e == Exits(r, code)
<1>1. r \in ProcessType
  BY DEF Fits
<1>2. /\ e \in ProcessType /\ e.stage = "exited" /\ e.exit = code /\ e.cmd = r.cmd
      /\ e.given = r.given /\ e.setup = r.setup /\ e.body = r.body
  BY <1>1 DEF Exits, ProcessType, CliStages
<1>3. code # NoExit
  BY Codes
<1> HIDE DEF e
<1>4. ExitFits(e, k)
  BY <1>2 DEF ExitFits
<1>5. Whole(r) => Whole(e)
  BY <1>2 DEF Whole, Bodies, Parents
<1>6. k.stage # "idle" => Whole(r)
  BY DEF Fits
<1>7. Fits(e, k)
  BY <1>2, <1>3, <1>4, <1>5, <1>6 DEF Fits, Before
<1> QED BY <1>7 DEF e

\* A process that has not called the client ends with a usage error, or another
\* error, or with what help prints.
LEMMA EndsInv ==
  ASSUME CliInv, NEW c \in Calls, cli[c].stage \in {"flags", "sources", "config"},
         NEW code, \/ code \in {codeUsage, codeError}
                   \/ cli[c].cmd = "help" /\ code = codeOK,
         Becomes(c, Exits(cli[c], code))
  PROVE  CliInv'
<1>1. Fits(cli[c], call[c]) /\ call[c].stage = "idle"
  BY DEF CliInv, Fits, Before
<1>2. code \in codeOK..codeServer
  BY Codes
<1>3. Fits(Exits(cli[c], code), call[c])
  BY <1>1, <1>2, ExitsFit
<1> QED BY <1>3, MovesInv DEF Becomes, vars

\* The flags are read.
LEMMA ParseFlagsInv == ASSUME CliInv, NEW c \in Calls, ParseFlags(c) PROVE CliInv'
<1>1. PICK given \in SUBSET FlagsOf(cli[c].cmd) :
        Becomes(c, IF FlagsSuffice(cli[c].cmd, given)
                   THEN [cli[c] EXCEPT !.stage = "sources", !.given = given]
                   ELSE Exits(cli[c], codeUsage))
  BY DEF ParseFlags
<1>2. cli[c].stage = "flags" /\ cli[c].cmd # "help"
  BY DEF ParseFlags
<1>3. CASE ~FlagsSuffice(cli[c].cmd, given)
  BY <1>1, <1>2, <1>3, EndsInv
<1>4. CASE FlagsSuffice(cli[c].cmd, given)
  <2> DEFINE p == cli[c]
             r == [p EXCEPT !.stage = "sources", !.given = given]
  <2>1. Becomes(c, r)
    BY <1>1, <1>4
  <2>2. Fits(p, call[c]) /\ p \in ProcessType
    BY DEF CliInv
  <2>3. given \subseteq AnyFlag
    BY <2>2 DEF AnyFlag, ProcessType
  <2>4. /\ r \in ProcessType /\ r.stage = "sources" /\ r.given = given /\ r.cmd = p.cmd
        /\ r.setup = p.setup /\ r.body = p.body /\ r.exit = p.exit
    BY <2>2, <2>3 DEF ProcessType, CliStages, Before
  <2> HIDE DEF p, r
  <2>5. call[c].stage = "idle" /\ p.setup = NoSetup /\ p.exit = NoExit
        /\ p.body[1] = Blank /\ p.body[2] = Blank
    BY <1>2, <2>2 DEF Fits, Before, p
  <2>6. p.cmd # "help" /\ FlagsSuffice(p.cmd, given) /\ given \subseteq FlagsOf(p.cmd)
    BY <1>2, <1>4 DEF p
  <2>7. Fits(r, call[c])
    BY <2>4, <2>5, <2>6 DEF Fits
  <2> QED BY <2>1, <2>7, MovesInv DEF Becomes, vars
<1> QED BY <1>3, <1>4

\* A process gets to its settings with a whole request.
LEMMA ToConfigInv ==
  ASSUME CliInv, NEW c \in Calls, cli[c].stage = "sources", NEW body \in Texts \X Texts,
         NEW r, r = [cli[c] EXCEPT !.stage = "config", !.body = body], Whole(r),
         Becomes(c, r)
  PROVE  CliInv'
<1> DEFINE p == cli[c]
<1>1. Fits(p, call[c]) /\ p \in ProcessType
  BY DEF CliInv
<1>2. /\ r \in ProcessType /\ r.stage = "config" /\ r.given = p.given /\ r.cmd = p.cmd
      /\ r.setup = p.setup /\ r.exit = p.exit
  BY <1>1 DEF ProcessType, CliStages, Before
<1>3. call[c].stage = "idle" /\ p.setup = NoSetup /\ p.exit = NoExit /\ p.cmd # "help"
  BY <1>1 DEF Fits, Before
<1> HIDE DEF p
<1>4. Fits(r, call[c])
  BY <1>1, <1>2, <1>3 DEF Fits
<1> QED BY <1>4, MovesInv DEF Becomes, vars

\* The body sources of a page are read.
LEMMA ReadSourcesInv == ASSUME CliInv, NEW c \in Calls, ReadSources(c) PROVE CliInv'
<1> DEFINE p == cli[c]
<1>1. PICK md \in Sources, html \in Sources, stdin \in Stdin :
        LET texts == <<TextOf(md, stdin),
                       TextOf(html, IF md = "stdin" THEN Blank ELSE stdin)>>
            ok    == /\ BodyAccepted(p.cmd, md, html, texts)
                     /\ {md, html} = {"absent"} => p.given # {"id"}
        IN  Becomes(c, IF ok THEN [p EXCEPT !.stage = "config", !.body = texts]
                             ELSE Exits(p, codeUsage))
  BY DEF ReadSources
<1> DEFINE rest  == IF md = "stdin" THEN Blank ELSE stdin
           texts == <<TextOf(md, stdin), TextOf(html, rest)>>
           ok    == /\ BodyAccepted(p.cmd, md, html, texts)
                    /\ {md, html} = {"absent"} => p.given # {"id"}
           r     == [p EXCEPT !.stage = "config", !.body = texts]
<1>2. Becomes(c, IF ok THEN r ELSE Exits(p, codeUsage))
  BY <1>1
<1>3. p.stage = "sources" /\ p.cmd \in Pages /\ FlagsSuffice(p.cmd, p.given) /\ p \in ProcessType
  BY DEF ReadSources, CliInv, Fits
<1>4. stdin \in Texts /\ rest \in Texts
  BY CliConfig DEF Texts
<1>5. texts \in Texts \X Texts
  <2>1. \A source, left : left \in Texts => TextOf(source, left) \in Texts
    BY DEF TextOf, Texts
  <2> HIDE DEF rest
  <2> QED BY <1>4, <2>1
<1>6. r.cmd = p.cmd /\ r.given = p.given /\ r.body = texts
  BY <1>3 DEF ProcessType
<1>7. ok => Whole(r)
  <2> SUFFICES ASSUME ok PROVE Whole(r)
    OBVIOUS
  <2>1. /\ r.body = <<TextOf(md, stdin), TextOf(html, rest)>>
        /\ BodyAccepted(r.cmd, md, html, r.body)
        /\ {md, html} = {"absent"} => r.given # {"id"}
    BY <1>6
  <2>2. r.cmd \in Pages /\ FlagsSuffice(r.cmd, r.given)
    BY <1>3, <1>6
  <2> HIDE DEF r, rest
  <2> QED BY <2>1, <2>2, PageWhole
<1>8. CASE ok
  <2>1. Becomes(c, r)
    BY <1>2, <1>8
  <2>2. r = [cli[c] EXCEPT !.stage = "config", !.body = texts]
    OBVIOUS
  <2>3. Whole(r)
    BY <1>7, <1>8
  <2> HIDE DEF r, texts, ok
  <2> QED BY <1>3, <1>5, <2>1, <2>2, <2>3, ToConfigInv
<1>9. CASE ~ok
  <2>1. Becomes(c, Exits(p, codeUsage))
    BY <1>2, <1>9
  <2> HIDE DEF ok
  <2> QED BY <1>3, <2>1, EndsInv
<1> QED BY <1>8, <1>9

\* The other commands have no body.
LEMMA NoSourcesInv == ASSUME CliInv, NEW c \in Calls, NoSources(c) PROVE CliInv'
<1> DEFINE p == cli[c]
           r == [p EXCEPT !.stage = "config"]
<1>1. /\ p.stage = "sources" /\ p.cmd \notin Pages /\ p \in ProcessType
      /\ FlagsSuffice(p.cmd, p.given) /\ p.body[1] = Blank /\ p.body[2] = Blank
  BY DEF NoSources, CliInv, Fits
<1>2. CASE Becomes(c, r)
  <2> DEFINE s == [p EXCEPT !.stage = "config", !.body = p.body]
  <2>1. p.body \in Texts \X Texts
    BY <1>1 DEF ProcessType
  <2>2. s = r /\ r.cmd = p.cmd /\ r.given = p.given /\ r.body = p.body
    BY <1>1 DEF ProcessType
  <2>3. Whole(r)
    <3>1. r.cmd \in Commands \ Pages
      BY <1>1, <2>2 DEF ProcessType
    <3> HIDE DEF r, s
    <3> QED BY <1>1, <2>2, <3>1, OtherWhole
  <2>4. r = [cli[c] EXCEPT !.stage = "config", !.body = p.body]
    BY <2>2
  <2> HIDE DEF r, s
  <2>5. Becomes(c, r) /\ cli[c].stage = "sources"
    BY <1>1, <1>2
  <2> QED BY <2>1, <2>3, <2>4, <2>5, ToConfigInv
<1>3. CASE Becomes(c, Exits(p, codeUsage))
  BY <1>1, <1>3, EndsInv
<1> QED BY <1>2, <1>3 DEF NoSources

\* The settings are resolved: a process that goes on has settings without a fault.
LEMMA ResolveSettingsInv == ASSUME CliInv, NEW c \in Calls, ResolveSettings(c) PROVE CliInv'
<1> DEFINE p == cli[c]
<1>1. PICK s \in Setups :
        Becomes(c, CASE Fault(s) = "usage" -> Exits(p, codeUsage)
                     [] Fault(s) = "other" -> Exits(p, codeError)
                     [] Fault(s) = "none"  -> [p EXCEPT !.stage = "ready", !.setup = s])
  BY DEF ResolveSettings
<1>2. p.stage = "config" /\ p \in ProcessType /\ Fits(p, call[c])
  BY DEF ResolveSettings, CliInv
<1>3. CASE Fault(s) = "usage"
  BY <1>1, <1>2, <1>3, EndsInv
<1>4. CASE Fault(s) = "other"
  BY <1>1, <1>2, <1>4, EndsInv
<1>5. CASE Fault(s) = "none"
  <2> DEFINE r == [p EXCEPT !.stage = "ready", !.setup = s]
  <2>1. Becomes(c, r)
    BY <1>1, <1>5
  <2>2. /\ r \in ProcessType /\ r.stage = "ready" /\ r.setup = s /\ r.cmd = p.cmd
        /\ r.given = p.given /\ r.body = p.body /\ r.exit = p.exit
    BY <1>2 DEF ProcessType, CliStages, Before
  <2>3. /\ call[c].stage = "idle" /\ p.exit = NoExit /\ p.cmd # "help" /\ Whole(p)
        /\ p.given \subseteq FlagsOf(p.cmd)
    BY <1>2 DEF Fits, Before
  <2> HIDE DEF p, r
  <2>4. Whole(r)
    BY <2>2, <2>3 DEF Whole, Bodies, Parents
  <2>5. Fits(r, call[c])
    BY <1>5, <2>2, <2>3, <2>4 DEF Fits
  <2> QED BY <2>1, <2>5, MovesInv DEF Becomes, vars
<1>6. Fault(s) \in {"usage", "other", "none"}
  BY DEF Fault
<1> QED BY <1>3, <1>4, <1>5, <1>6

\* A process that calls the client is one record with two new fields.
LEMMA CallingReplaces ==
  ASSUME NEW c \in Calls, cli \in [Calls -> ProcessType],
         cli' = [cli EXCEPT ![c].stage = "calling", ![c].setup = NoSetup]
  PROVE  cli' = [cli EXCEPT ![c] = [cli[c] EXCEPT !.stage = "calling", !.setup = NoSetup]]
<1> DEFINE p1 == [cli[c] EXCEPT !.stage = "calling"]
           p2 == [p1 EXCEPT !.setup = NoSetup]
           With(p) == [cli EXCEPT ![c] = p]
           Set1(f) == [f EXCEPT ![c].stage = "calling"]
           Set2(f) == [f EXCEPT ![c].setup = NoSetup]
<1>1. p2 = [cli[c] EXCEPT !.stage = "calling", !.setup = NoSetup]
  OBVIOUS
<1>2. cli' = Set2(Set1(cli))
  OBVIOUS
<1>3. Set1(cli) = With(p1)
  OBVIOUS
<1> HIDE DEF p1, p2, Set1, Set2
<1>4. ASSUME NEW p, NEW q
      PROVE  With(p)[c] = p /\ [With(p) EXCEPT ![c] = q] = With(q)
  <2>1. With(p) \in [Calls -> ProcessType \cup {p}]
    OBVIOUS
  <2> QED BY <2>1
<1> HIDE DEF With
<1>5. Set2(With(p1)) = With(p2)
  <2>1. Set2(With(p1)) = [With(p1) EXCEPT ![c] = [With(p1)[c] EXCEPT !.setup = NoSetup]]
    BY DEF Set2
  <2> QED BY <2>1, <1>4 DEF p2
<1>6. cli' = With(p2)
  BY <1>2, <1>3, <1>5
<1> QED BY <1>1, <1>6 DEF With

\* A call of the client asks for what the command does, of a URL that it may have.
LEMMA CallIsBegun ==
  ASSUME ClientInv, CliInv, NEW c \in Calls, CallClient(c)
  PROVE  /\ \E op \in Ops, url \in Urls : Begin(c, op, url) \/ BeginFails(c, op, url)
         /\ call'[c].stage # "idle" /\ call'[c].op = Op(cli[c].cmd)
         /\ \A d \in Calls \ {c} : call'[d] = call[d]
<1> DEFINE op  == Op(cli[c].cmd)
           url == resolved(cli[c].setup).url
<1>1. Begin(c, op, url) \/ BeginFails(c, op, url)
  BY DEF CallClient
<1>2. /\ cli[c].stage = "ready" /\ cli[c].setup \in Setups /\ Fault(cli[c].setup) = "none"
      /\ cli[c].cmd # "help" /\ cli[c].cmd \in Commands
  BY DEF CallClient, CliInv, Fits, ProcessType
<1>3. op \in Ops /\ url \in Urls
  BY <1>2, CliConfig
<1>4. call \in [Calls -> CallType]
  BY DEF ClientInv, TypeOK
<1> HIDE DEF op, url
<1>5. CASE Begin(c, op, url)
  <2> DEFINE q == [Idle EXCEPT !.op = op, !.url = url,
                               !.after = {d \in Calls : call[d].stage = "done"}]
             r == [q EXCEPT !.stage = "waiting",
                            !.left = IF HttpTimeout = 0 THEN NoTimer ELSE HttpTimeout]
  <2>1. Goes(c, r)
    BY <1>5 DEF Begin, Send
  <2>2. r.stage = "waiting" /\ r.op = op
    BY DEF Idle
  <2> HIDE DEF r
  <2>3. call'[c] = r /\ \A d \in Calls \ {c} : call'[d] = call[d]
    BY <1>4, <2>1 DEF Goes
  <2> QED BY <1>3, <1>5, <2>2, <2>3 DEF op
<1>6. CASE BeginFails(c, op, url)
  <2> DEFINE r == Return([Idle EXCEPT !.op = op, !.url = url], "unsent", "none")
  <2>1. Goes(c, r)
    BY <1>6 DEF BeginFails
  <2>2. r.stage = "done" /\ r.op = op
    BY DEF Idle, Return
  <2> HIDE DEF r
  <2>3. call'[c] = r /\ \A d \in Calls \ {c} : call'[d] = call[d]
    BY <1>4, <2>1 DEF Goes
  <2> QED BY <1>3, <1>6, <2>2, <2>3 DEF op
<1> QED BY <1>1, <1>5, <1>6

\* The client is called.
LEMMA CallClientInv ==
  ASSUME ClientInv, CliInv, NEW c \in Calls, CallClient(c)
  PROVE  CliInv'
<1> DEFINE p == cli[c]
           r == [p EXCEPT !.stage = "calling", !.setup = NoSetup]
<1>1. /\ call'[c].stage # "idle" /\ call'[c].op = Op(p.cmd)
      /\ \A d \in Calls \ {c} : call'[d] = call[d]
  BY CallIsBegun
<1>2. cli \in [Calls -> ProcessType] /\ p \in ProcessType /\ Fits(p, call[c])
  BY DEF CliInv
<1>3. cli' = [cli EXCEPT ![c] = r]
  BY <1>2, CallingReplaces DEF CallClient
<1>4. /\ r \in ProcessType /\ r.stage = "calling" /\ r.setup = NoSetup /\ r.cmd = p.cmd
      /\ r.given = p.given /\ r.body = p.body /\ r.exit = p.exit
  BY <1>2 DEF ProcessType, CliStages, Before
<1>5. p.stage = "ready"
  BY DEF CallClient
<1> HIDE DEF p, r
<1>6. p.exit = NoExit /\ p.cmd # "help" /\ Whole(p) /\ p.given \subseteq FlagsOf(p.cmd)
  BY <1>2, <1>5 DEF Fits
<1>7. Whole(r)
  BY <1>4, <1>6 DEF Whole, Bodies, Parents
<1>8. Fits(r, call'[c])
  BY <1>1, <1>4, <1>6, <1>7 DEF Fits, Before
<1> QED BY <1>1, <1>3, <1>8, MovesInv

\* What the call returned is turned into an exit code.
LEMMA ReportInv == ASSUME CliInv, NEW c \in Calls, Report(c) PROVE CliInv'
<1>1. cli[c].stage = "calling" /\ call[c].stage = "done" /\ Fits(cli[c], call[c])
  BY DEF Report, CliInv
<1>2. PICK code \in codeOK..codeServer :
        /\ Becomes(c, Exits(cli[c], code))
        /\ code = ExitCode(call[c].result) \/ (call[c].result = "ok" /\ code = codeError)
  <2>1. ExitCode(call[c].result) \in codeOK..codeServer
    BY Codes DEF ExitCode
  <2>2. codeError \in codeOK..codeServer
    BY Codes
  <2> QED BY <2>1, <2>2 DEF Report
<1>3. Fits(Exits(cli[c], code), call[c])
  BY <1>1, <1>2, ExitsFit
<1> QED BY <1>2, <1>3, MovesInv DEF Becomes, vars

-----------------------------------------------------------------------------
(* The theorems                                                            *)

\* A process that has read nothing fits a call that has not begun.
LEMMA InitCli == CliInit => ClientInv /\ CliInv
<1> SUFFICES ASSUME CliInit PROVE ClientInv /\ CliInv
  OBVIOUS
<1>1. ClientInv
  BY InitClient DEF CliInit
<1>2. ASSUME NEW cmd \in Commands PROVE Fits(Started(cmd), Idle)
  <2> DEFINE r == Started(cmd)
  <2>1. /\ r.stage = "flags" /\ r.cmd = cmd /\ r.given = {} /\ r.setup = NoSetup
        /\ r.body[1] = Blank /\ r.body[2] = Blank /\ r.exit = NoExit
    BY DEF Started
  <2>2. r \in ProcessType
    BY DEF Started, ProcessType, CliStages, Before, Texts
  <2>3. Idle.stage = "idle"
    BY DEF Idle
  <2> HIDE DEF r
  <2>4. Fits(r, Idle)
    BY <2>1, <2>2, <2>3 DEF Fits
  <2> QED BY <2>4 DEF r
<1>3. \A c \in Calls : call[c] = Idle /\ \E cmd \in Commands : cli[c] = Started(cmd)
  BY DEF CliInit, Init
<1>4. \A c \in Calls : Fits(cli[c], call[c])
  BY <1>2, <1>3
<1>5. cli \in [Calls -> ProcessType]
  BY <1>4 DEF CliInit, Fits
<1> QED BY <1>1, <1>4, <1>5 DEF CliInv

\* Every step of the processes is one of the client's, or one that the client does
\* not see, and keeps the invariant.
LEMMA CliStep ==
  ASSUME ClientInv, CliInv, [CliNext]_cliVars
  PROVE  [Next]_vars /\ ClientInv' /\ CliInv'
<1>1. [Next]_vars /\ CliInv'
  <2>1. ASSUME NEW c \in Calls, Process(c) PROVE [Next]_vars /\ CliInv'
    <3>1. CASE CallClient(c)
      BY <3>1, CallIsBegun, CallClientInv DEF Next
    <3>2. CASE Help(c)
      <4>1. call[c].stage = "idle"
        BY <3>2 DEF Help, CliInv, Fits, Before
      <4> QED BY <3>2, <4>1, EndsInv DEF Help, Becomes
    <3>3. CASE BadUsage(c)
      BY <3>3, EndsInv DEF BadUsage, Becomes
    <3>4. CASE ParseFlags(c)
      BY <3>4, ParseFlagsInv DEF ParseFlags, Becomes
    <3>5. CASE ReadSources(c)
      BY <3>5, ReadSourcesInv DEF ReadSources, Becomes
    <3>6. CASE NoSources(c)
      BY <3>6, NoSourcesInv DEF NoSources, Becomes
    <3>7. CASE ResolveSettings(c)
      BY <3>7, ResolveSettingsInv DEF ResolveSettings, Becomes
    <3>8. CASE Report(c)
      BY <3>8, ReportInv DEF Report, Becomes
    <3> QED BY <2>1, <3>1, <3>2, <3>3, <3>4, <3>5, <3>6, <3>7, <3>8 DEF Process
  <2>2. CASE (\E c \in Calls : Loop(c)) /\ UNCHANGED cli
    BY <2>2, ClientStepInv DEF Next
  <2>3. CASE Outside /\ UNCHANGED cli
    BY <2>3, ClientStepInv DEF Next
  <2>4. CASE UNCHANGED cliVars
    BY <2>4, ClientStepInv DEF cliVars
  <2> QED BY <2>1, <2>2, <2>3, <2>4 DEF CliNext
<1>2. ClientInv'
  BY <1>1, StepKeepsClientInv
<1> QED BY <1>1, <1>2

\* In every reachable state a process and its call fit each other.
THEOREM CliInvariance == CliSpec => [](ClientInv /\ CliInv)
<1>1. ClientInv /\ CliInv /\ [CliNext]_cliVars => (ClientInv /\ CliInv)'
  BY CliStep
<1> QED BY InitCli, <1>1, PTL DEF CliSpec

\* The processes use the client as WikiClient has it: whatever is proved of the
\* client is true of their calls (flags.go, cmdContext.client).
THEOREM CliUsesClient == CliSpec => Spec
<1>1. CliInit => Init
  BY DEF CliInit
<1>2. ClientInv /\ CliInv /\ [CliNext]_cliVars => [Next]_vars
  BY CliStep
<1> QED BY <1>1, <1>2, CliInvariance, PTL DEF CliSpec, Spec

\* The stage and the exit code of a process agree with those of its call.
THEOREM CliTypes == CliSpec => []CliTypeOK
<1>1. ClientInv /\ CliInv => CliTypeOK
  <2> SUFFICES ASSUME ClientInv, CliInv, NEW c \in Calls
               PROVE  /\ cli[c].cmd \in Commands
                      /\ cli[c].exit \in IF cli[c].stage = "exited" THEN codeOK..codeServer
                                         ELSE {NoExit}
                      /\ cli[c].stage = "calling" => call[c].op = Op(cli[c].cmd)
                      /\ cli[c].given \subseteq FlagsOf(cli[c].cmd)
                      /\ cli[c].setup \in IF cli[c].stage = "ready" THEN Setups ELSE {NoSetup}
                      /\ cli[c].stage \in Before => call[c].stage = "idle"
    BY DEF CliTypeOK, Before, ClientInv
  <2>1. Fits(cli[c], call[c]) /\ cli[c] \in ProcessType
    BY DEF CliInv
  <2>2. cli[c].cmd \in Commands /\ cli[c].exit \in {NoExit} \cup codeOK..codeServer
    BY <2>1 DEF ProcessType
  <2> QED BY <2>1, <2>2 DEF Fits
<1> QED BY <1>1, CliInvariance, PTL

\* A script may go by the exit code, provided that the wiki's URL is not redirected:
\* 0 after a write means that the wiki has it, 2 that nothing was sent, 3 or 4 to
\* the first request that nothing was written nor will be (exit.go, exitCode).
THEOREM ExitCodesTell ==
  ASSUME "redirected" \notin Urls
  PROVE  CliSpec => []ExitCodeTells
<1>1. ClientInv /\ CliInv /\ SuccessIsCommitted => ExitCodeTells
  <2> SUFFICES ASSUME ClientInv, CliInv, SuccessIsCommitted, NEW c \in Calls
               PROVE  /\ cli[c].exit = codeOK /\ cli[c].cmd # "help" /\ Writes(call[c].op)
                           => CommitsOf(c) # {}
                      /\ cli[c].exit = codeUsage => call[c].stage = "idle"
                      /\ cli[c].exit \in {codeAuth, codeForbidden} /\ call[c].attempt = 0
                           => CommitsOf(c) = {} /\ \A r \in wire : r.call # c
    BY DEF ExitCodeTells
  <2>1. cli[c].exit \in codeOK..codeServer => ExitFits(cli[c], call[c])
    BY Codes DEF CliInv, Fits
  <2>2. /\ codeOK = 0 /\ codeError = 1 /\ codeUsage = 2 /\ codeAuth = 3 /\ codeForbidden = 4
        /\ codeServer = 5
    BY DEF codeOK, codeError, codeUsage, codeAuth, codeForbidden, codeServer
  <2>3. ASSUME cli[c].exit = codeOK, cli[c].cmd # "help", Writes(call[c].op)
        PROVE  CommitsOf(c) # {}
    <3>1. call[c].result = "ok"
      BY <2>1, <2>2, <2>3 DEF ExitFits, ExitCode
    <3> QED BY <2>3, <3>1 DEF SuccessIsCommitted
  <2>4. ASSUME cli[c].exit = codeUsage PROVE call[c].stage = "idle"
    BY <2>1, <2>2, <2>4 DEF ExitFits, ExitCode
  <2>5. ASSUME cli[c].exit \in {codeAuth, codeForbidden}, call[c].attempt = 0
        PROVE  CommitsOf(c) = {} /\ \A r \in wire : r.call # c
    <3>1. call[c].result \in {"unauthorized", "denied"}
      BY <2>1, <2>2, <2>5 DEF ExitFits, ExitCode
    <3>2. call[c].result \in Refusals
      BY <3>1 DEF ClientInv, TypeOK, CallType, Results
    <3>3. ~OnWire(c, 0) /\ ~Carried(c, 0)
      BY <2>5, <3>2 DEF ClientInv, ResultsSettle, Settled
    <3>4. /\ \A r \in wire : r.call = c => r.n = 0
          /\ \A m \in commits : m.call = c => m.n = 0
      BY <2>5 DEF ClientInv, TypeOK, Request, RequestsSent, CommitsSent
    <3> QED BY <3>3, <3>4 DEF OnWire, Carried, CommitsOf
  <2> QED BY <2>3, <2>4, <2>5
<1>2. CliSpec => []SuccessIsCommitted
  BY SuccessTold, CliUsesClient, PTL
<1> QED BY <1>1, <1>2, CliInvariance, PTL

\* What is sent is whole, also when both body sources name the one stdin
\* (pages.go, cmdPageCreate and cmdPageUpdate).
THEOREM RequestsSound == CliSpec => []RequestSound
<1>1. CliInv => RequestSound
  <2> SUFFICES ASSUME CliInv, NEW c \in Calls, call[c].stage # "idle"
               PROVE  LET bodies  == {i \in 1..2 : cli[c].body[i] # Blank}
                          parents == {"book", "chapter"} \cap cli[c].given
                      IN  /\ Cardinality(bodies) <= 1
                          /\ cli[c].cmd = "pageCreate"
                               => bodies # {} /\ Cardinality(parents) = 1
                          /\ Op(cli[c].cmd) = "update"
                               => bodies # {} \/ cli[c].given \ {"id"} # {}
    BY DEF RequestSound
  <2>1. Whole(cli[c])
    BY DEF CliInv, Fits
  <2> QED BY <2>1 DEF Whole, Bodies, Parents
<1> QED BY <1>1, CliInvariance, PTL

\* The settings of a call are those of their first sources, no readable file holds a
\* token, no number is garbled, and the environment alone means the same as in the
\* library's Load, but for the delay and for a URL without a host (config.go of both,
\* resolveConfig, loadConfigFile and Load).
THEOREM SettingsAreSound == CliSpec => []SettingsSound
<1>1. CliInv => SettingsSound
  <2> SUFFICES ASSUME CliInv, NEW c \in Calls, cli[c].stage = "ready"
               PROVE  LET s == cli[c].setup
                          cfg == resolved(s)
                      IN  /\ cfg.url = FirstSaid(<<s.flags.url, s.env.url, FileValues(s).url>>)
                          /\ cfg.token = FirstSaid(<<s.env.token, FileValues(s).token>>)
                          /\ cfg.retries = "set" /\ cfg.timeout = "set"
                          /\ FileValues(s).token # Blank => s.file.private
                          /\ ~Garbled(s.env)
                          /\ {s.flags[f] : f \in DOMAIN s.flags} = {NotGiven} /\ ~Found(s)
                               => /\ [Loaded(s.env) EXCEPT !.delay = cfg.delay]
                                       = [cfg EXCEPT !.url = Trimmed(@)]
                                  /\ LoadAccepts(s.env)
                                       <=> s.env.delay # "garbage" /\ cfg.url # "hostless"
    BY DEF SettingsSound, FirstSaid
  <2>1. cli[c].setup \in SetupType /\ Fault(cli[c].setup) = "none"
    BY CliConfig DEF CliInv, Fits
  <2> QED BY <2>1, FaultlessSetup
<1> QED BY <1>1, CliInvariance, PTL
=============================================================================
