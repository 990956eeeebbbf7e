----------------------------- MODULE WikiConfig -----------------------------
(***************************************************************************)
(* Where ccc-wiki takes its settings from (services/wiki-cli/config.go) and *)
(* what the wiki client accepts of them (services/wiki-client/config.go).   *)
(*                                                                         *)
(* A setup is what a process finds: flags, environment and configuration    *)
(* file.  Settings are told apart by what the code asks of them:            *)
(*   url      "", "no scheme", "hostless" (a scheme and slashes), or what a  *)
(*            good one leads to ("direct", ...)                             *)
(*   token    "", "one part", or a good one, named for where it comes from  *)
(*   timeout  "", "garbage" or "set": the HttpTimeout of the client         *)
(*   retries  "", "garbage", "negative" or "set": its MaxRetries            *)
(*   delay    "", "garbage" or "set": its RetryBaseDelay, else "default"    *)
(* A flag that was not given is NotGiven, which no value is.                *)
(***************************************************************************)
EXTENDS Naturals, Sequences

NotGiven == "not given"
Blank == ""

\* What is not a flag is blank or says something.
Value == {Blank} \cup (STRING \ {NotGiven})

\* What a process may find.  A flag whose number does not parse is a usage error
\* and never gets here.
SetupType ==
  [flags: [url: STRING, config: STRING, timeout: {NotGiven, "set"},
           retries: {NotGiven, "set", "negative"}],
   env: [url: Value, token: Value, config: Value, home: Value,
         timeout: {Blank, "set", "garbage"},
         retries: {Blank, "set", "negative", "garbage"},
         delay: {Blank, "set", "garbage"}],
   file: [state: {"present", "absent", "unreadable"}, private: BOOLEAN,
          lines: Seq([key: STRING, value: Value])]]

\* The first of two sources that says something.
FirstOf(a, b) == IF a # Blank THEN a ELSE b

\* --config and CCC_WIKI_CONFIG name a file; the default one needs a home.
configPath(s) ==
  IF s.flags.config # NotGiven THEN [path |-> s.flags.config, explicit |-> TRUE]
  ELSE IF s.env.config # Blank THEN [path |-> s.env.config, explicit |-> TRUE]
  ELSE [path |-> IF s.env.home = Blank THEN Blank ELSE "default", explicit |-> FALSE]

\* The last line with a key wins; comments and lines without = have no key.
parseConfigFile(lines) ==
  [key \in {"url", "token"} |->
     LET at == {i \in DOMAIN lines : lines[i].key = key}
     IN  IF at = {} THEN Blank
         ELSE lines[CHOOSE i \in at : \A j \in at : j <= i].value]

\* The file the path leads to, if there is one.
Found(s) == configPath(s).path # Blank /\ s.file.state # "absent"

FileValues(s) == IF Found(s) THEN parseConfigFile(s.file.lines)
                             ELSE [key \in {"url", "token"} |-> Blank]

\* Bug: others may read the token as long as the environment has one.
loadFailsIfUsed(s) ==
  \/ configPath(s).explicit /\ ~Found(s)
  \/ Found(s) /\ s.file.state = "unreadable"
  \/ FileValues(s).token # Blank /\ s.env.token = Blank /\ ~s.file.private

\* loadConfigFile refuses: the file was asked for and is not there, it cannot be
\* read, or it holds a token that others may read.
loadFails(s) ==
  \/ configPath(s).explicit /\ ~Found(s)
  \/ Found(s) /\ s.file.state = "unreadable"
  \/ FileValues(s).token # Blank /\ ~s.file.private

Flagged(flag, rest) == IF flag # NotGiven THEN flag ELSE rest

\* The settings of the client: flags before environment before file.  The delay
\* is fixed: WIKI_RETRY_BASE_DELAY is not looked at.
resolved(s) ==
  [url     |-> Flagged(s.flags.url, FirstOf(s.env.url, FileValues(s).url)),
   token   |-> FirstOf(s.env.token, FileValues(s).token),
   timeout |-> Flagged(s.flags.timeout, FirstOf(s.env.timeout, "set")),
   retries |-> Flagged(s.flags.retries, FirstOf(s.env.retries, "set")),
   delay   |-> "default"]

\* A number in the environment is read, and must be one, although a flag
\* overrides it.
Garbled(env) == "garbage" \in {env.timeout, env.retries}

\* Config.validate of the wiki client.
validate(cfg) == /\ cfg.url \notin {Blank, "no scheme"}
                 /\ cfg.token \notin {Blank, "one part"}
                 /\ cfg.retries # "negative"

\* What client() returns of a setup: "none", or the kind of its error.  Only what
\* loadConfigFile and New find wrong is a usage error.
Fault(s) ==
  IF loadFails(s) THEN "usage"
  ELSE IF Garbled(s.env) \/ resolved(s).url = Blank \/ resolved(s).token = Blank
  THEN "other"
  ELSE IF ~validate(resolved(s)) THEN "usage" ELSE "none"

\* Without its trailing slashes, a URL of a scheme and slashes is no scheme either.
Trimmed(url) == IF url = "hostless" THEN "no scheme" ELSE url

\* The wiki client's own Load, for programs configured by the environment alone.
Loaded(env) == [url     |-> Trimmed(env.url),
                token   |-> env.token,
                timeout |-> FirstOf(env.timeout, "set"),
                retries |-> FirstOf(env.retries, "set"),
                delay   |-> FirstOf(env.delay, "default")]

LoadAccepts(env) == /\ ~Garbled(env) /\ env.delay # "garbage"
                    /\ validate(Loaded(env))
=============================================================================
