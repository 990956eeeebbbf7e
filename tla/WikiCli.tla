------------------------------- MODULE WikiCli -------------------------------
(***************************************************************************)
(* The command line ccc-wiki (services/wiki-cli): a process parses its      *)
(* arguments, reads its body sources, resolves its configuration, makes one *)
(* call of the wiki client and turns what comes back into an exit code.     *)
(*                                                                         *)
(* A process has no concurrency of its own and is taken apart only where it *)
(* can end.  Its context is context.Background(), which nobody cancels.     *)
(***************************************************************************)
EXTENDS WikiClient, WikiConfig

CONSTANTS Commands,   \* the commands that are run
          Stdin,      \* what may be piped into a process
          Setups      \* the settings a process may find, see WikiConfig

\* The flags a command demands, and the others its handler looks at; those of a
\* page's body are apart.  A flag with an empty or zero value counts as not given;
\* "type" is one that is neither gallery nor drawio.
Demanded ==
  [help |-> {}, list |-> {}, get |-> {"id"},
   bookCreate |-> {"name"}, chapterCreate |-> {"book", "name"},
   containerUpdate |-> {"id"},     \* book update and chapter update
   pageCreate |-> {"name"}, pageUpdate |-> {"id"},
   attachmentUpload |-> {"page", "name", "file"},
   imageUpload |-> {"page", "name", "file"}]

Optional(cmd) ==
  CASE cmd \in {"bookCreate", "chapterCreate"} -> {"description"}
    [] cmd = "containerUpdate"                 -> {"name", "description"}
    [] cmd = "pageCreate"                      -> {"book", "chapter"}
    [] cmd = "pageUpdate"                      -> {"name", "book", "chapter"}
    [] cmd = "imageUpload"                     -> {"type"}
    [] OTHER                                   -> {}

FlagsOf(cmd) == Demanded[cmd] \cup Optional(cmd)

VARIABLE cli   \* each process: how far it is, its command, flags and body, the
               \* settings it found, its exit code

cliVars == <<cli, vars>>

Pages == {"pageCreate", "pageUpdate"}
Uploads == {"attachmentUpload", "imageUpload"}

\* The method of the client a command uses; uploads are POSTs as well.
Op(cmd) == IF cmd \in {"list", "get"} THEN "get"
           ELSE IF cmd \in {"containerUpdate", "pageUpdate"} THEN "update"
           ELSE "create"

ASSUME CliConfig ==
  /\ Commands \subseteq DOMAIN Demanded
  /\ \A cmd \in Commands : cmd = "help" \/ Op(cmd) \in Ops
  /\ Stdin \subseteq {"text", Blank}
  /\ Setups \subseteq SetupType
  /\ \A s \in Setups : Fault(s) = "none" => resolved(s).url \in Urls

NoExit == -1
codeOK == 0
codeError == 1
codeUsage == 2
codeAuth == 3
codeForbidden == 4
codeServer == 5

NoSetup == [none |-> TRUE]

Started(cmd) == [stage |-> "flags", cmd |-> cmd, given |-> {}, setup |-> NoSetup,
                 body |-> <<Blank, Blank>>, exit |-> NoExit]

CliInit ==
  /\ Init
  /\ cli \in [Calls -> {Started(cmd) : cmd \in Commands}]

Becomes(c, r) == cli' = [cli EXCEPT ![c] = r] /\ UNCHANGED vars

Exits(r, code) == [r EXCEPT !.stage = "exited", !.exit = code]

\* help and version print and end; so does an invocation without a command.
Help(c) ==
  /\ cli[c].stage = "flags" /\ cli[c].cmd = "help"
  /\ Becomes(c, Exits(cli[c], codeOK))

\* Unknown command, unknown flag, a flag's value that does not parse.
BadUsage(c) ==
  /\ cli[c].stage = "flags"
  /\ Becomes(c, Exits(cli[c], codeUsage))

\* What the handlers check before they read a body or resolve the settings.
FlagsSuffice(cmd, given) ==
  /\ Demanded[cmd] \subseteq given /\ "type" \notin given
  /\ cmd \in Pages => ~({"book", "chapter"} \subseteq given)
  /\ cmd = "pageCreate" => {"book", "chapter"} \cap given # {}
  /\ cmd = "containerUpdate" => given # {"id"}

ParseFlags(c) ==
  /\ cli[c].stage = "flags" /\ cli[c].cmd # "help"
  /\ \E given \in SUBSET FlagsOf(cli[c].cmd) :
       Becomes(c, IF FlagsSuffice(cli[c].cmd, given)
                  THEN [cli[c] EXCEPT !.stage = "sources", !.given = given]
                  ELSE Exits(cli[c], codeUsage))

\* readSource: a source is absent, a literal or a file with text, an empty file,
\* stdin, or unusable (unreadable, or given in both forms).  Reading stdin leaves
\* it empty.
Sources == {"absent", "text", "empty file", "stdin", "unusable"}

TextOf(source, stdin) == IF source = "stdin" THEN stdin
                         ELSE IF source = "text" THEN "text" ELSE Blank

\* Bug: the body source may be empty.
BodyAcceptedEmpty(cmd, md, html, texts) ==
  /\ "unusable" \notin {md, html}
  /\ "absent" \in {md, html}
  /\ cmd = "pageCreate" => {md, html} # {"absent"}

\* The checks after the two reads, for page create and page update.
BodyAccepted(cmd, md, html, texts) ==
  /\ "unusable" \notin {md, html}
  /\ "absent" \in {md, html}
  /\ cmd = "pageCreate" => {md, html} # {"absent"}
  /\ md # "absent" => texts[1] # Blank
  /\ html # "absent" => texts[2] # Blank

\* Markdown is read first, and HTML from what is left of stdin.  A page update
\* without a body needs something else to change.
ReadSources(c) ==
  /\ cli[c].stage = "sources" /\ cli[c].cmd \in Pages
  /\ \E md, html \in Sources, stdin \in Stdin :
       LET texts == <<TextOf(md, stdin),
                      TextOf(html, IF md = "stdin" THEN Blank ELSE stdin)>>
           ok    == /\ BodyAccepted(cli[c].cmd, md, html, texts)
                    /\ {md, html} = {"absent"} => cli[c].given # {"id"}
       IN  Becomes(c, IF ok THEN [cli[c] EXCEPT !.stage = "config", !.body = texts]
                            ELSE Exits(cli[c], codeUsage))

\* The other commands have no body; an upload opens its file.
NoSources(c) ==
  /\ cli[c].stage = "sources" /\ cli[c].cmd \notin Pages
  /\ \/ Becomes(c, [cli[c] EXCEPT !.stage = "config"])
     \/ cli[c].cmd \in Uploads /\ Becomes(c, Exits(cli[c], codeUsage))

\* cmdContext.client: a setup at fault ends the process; exitCode makes 2 of a
\* usage error only.
ResolveSettings(c) ==
  /\ cli[c].stage = "config"
  /\ \E s \in Setups :
       Becomes(c, CASE Fault(s) = "usage" -> Exits(cli[c], codeUsage)
                    [] Fault(s) = "other" -> Exits(cli[c], codeError)
                    [] Fault(s) = "none"  -> [cli[c] EXCEPT !.stage = "ready", !.setup = s])

\* The command calls the client, which may fail before it sends anything.  The
\* setup has served its purpose.
CallClient(c) ==
  /\ cli[c].stage = "ready"
  /\ LET url == resolved(cli[c].setup).url
     IN  Begin(c, Op(cli[c].cmd), url) \/ BeginFails(c, Op(cli[c].cmd), url)
  /\ cli' = [cli EXCEPT ![c].stage = "calling", ![c].setup = NoSetup]

\* Bug: a request that timed out counts as a usage error.
ExitCodeMixed(result) ==
  CASE result = "ok"                    -> codeOK
    [] result = "timeout"               -> codeUsage
    [] OTHER                            -> codeError

\* exitCode
ExitCode(result) ==
  CASE result = "ok"                    -> codeOK
    [] result = "unauthorized"          -> codeAuth
    [] result = "denied"                -> codeForbidden
    [] result \in {"server", "timeout"} -> codeServer
    [] OTHER                            -> codeError

\* Bug: the outcome is printed and the process goes on.
ReportAndGoOn(c) ==
  /\ cli[c].stage = "calling" /\ call[c].stage = "done"
  /\ Becomes(c, [cli[c] EXCEPT !.exit = ExitCode(call[c].result)])

\* Bug: a transport error is taken for one that will be retried.
ReportAnswers(c) ==
  /\ cli[c].stage = "calling" /\ call[c].stage = "done"
  /\ call[c].result \notin {"timeout", "refused"}
  /\ Becomes(c, Exits(cli[c], ExitCode(call[c].result)))

\* The client has returned; what it returned is printed, if that can be done.
Report(c) ==
  /\ cli[c].stage = "calling" /\ call[c].stage = "done"
  /\ \/ Becomes(c, Exits(cli[c], ExitCode(call[c].result)))
     \/ call[c].result = "ok" /\ Becomes(c, Exits(cli[c], codeError))

Process(c) == \/ Help(c) \/ BadUsage(c) \/ ParseFlags(c) \/ ReadSources(c)
              \/ NoSources(c) \/ ResolveSettings(c) \/ CallClient(c) \/ Report(c)

CliNext ==
  \/ \E c \in Calls : Process(c)
  \/ (\E c \in Calls : Loop(c)) /\ UNCHANGED cli
  \/ Outside /\ UNCHANGED cli

\* Besides the client's fairness: a process that can report does.  Nothing is
\* assumed of the steps before the call: stdin may stay open for ever.
CliSpec == /\ CliInit /\ [][CliNext]_cliVars
           /\ Fairness /\ \A c \in Calls : WF_cliVars(Report(c))

-----------------------------------------------------------------------------
(* Properties                                                              *)

\* The stage and the exit code of a process agree with those of its call.
CliTypeOK ==
  /\ TypeOK
  /\ \A c \in Calls :
       /\ cli[c].cmd \in Commands
       /\ cli[c].exit \in IF cli[c].stage = "exited" THEN codeOK..codeServer ELSE {NoExit}
       /\ cli[c].stage = "calling" => call[c].op = Op(cli[c].cmd)
       /\ cli[c].given \subseteq FlagsOf(cli[c].cmd)
       /\ cli[c].setup \in IF cli[c].stage = "ready" THEN Setups ELSE {NoSetup}
       /\ cli[c].stage \in {"flags", "sources", "config", "ready"} => call[c].stage = "idle"

\* A script may go by the exit code (README, "exit codes"): 0 after a write means
\* that the wiki has it; 2 that nothing was sent at all; 3 or 4 to the first
\* request that nothing was written, nor will be.  5 and 1 leave it open.
ExitCodeTells ==
  \A c \in Calls :
    /\ cli[c].exit = codeOK /\ cli[c].cmd # "help" /\ Writes(call[c].op)
         => CommitsOf(c) # {}
    /\ cli[c].exit = codeUsage => call[c].stage = "idle"
    /\ cli[c].exit \in {codeAuth, codeForbidden} /\ call[c].attempt = 0
         => CommitsOf(c) = {} /\ \A r \in wire : r.call # c

\* What is sent is whole: a page has one body at most, never an empty one, although
\* both body sources may name the one stdin (pages.go:66-84; input.go:14 takes that
\* for impossible); a new page has a body and one parent; an update has something
\* to change.
RequestSound ==
  \A c \in Calls : call[c].stage # "idle" =>
    LET bodies  == {i \in 1..2 : cli[c].body[i] # Blank}
        parents == {"book", "chapter"} \cap cli[c].given
    IN  /\ Cardinality(bodies) <= 1
        /\ cli[c].cmd = "pageCreate" => bodies # {} /\ Cardinality(parents) = 1
        /\ Op(cli[c].cmd) = "update" => bodies # {} \/ cli[c].given \ {"id"} # {}

\* The settings a call is made with (config.go:19-24): each is the one of its first
\* source that has it; no file that holds a token is readable for others, used or
\* not; no number is garbled, used or not.  With the environment alone the command
\* line is configured as a program that uses the library's Load would be, except
\* for WIKI_RETRY_BASE_DELAY, which it does not look at; and it accepts what Load
\* refuses only if that is garbled or the URL lacks a host (config.go:65-77).
SettingsSound ==
  \A c \in Calls : cli[c].stage = "ready" =>
    LET s   == cli[c].setup
        cfg == resolved(s)
        alone == {s.flags[f] : f \in DOMAIN s.flags} = {NotGiven} /\ ~Found(s)
        First(values) == values[CHOOSE i \in DOMAIN values :
                                  /\ values[i] \notin {NotGiven, Blank}
                                  /\ \A j \in 1..(i - 1) : values[j] \in {NotGiven, Blank}]
    IN  /\ cfg.url = First(<<s.flags.url, s.env.url, FileValues(s).url>>)
        /\ cfg.token = First(<<s.env.token, FileValues(s).token>>)
        /\ cfg.retries = "set" /\ cfg.timeout = "set"
        /\ FileValues(s).token # Blank => s.file.private
        /\ ~Garbled(s.env)
        /\ alone => /\ [Loaded(s.env) EXCEPT !.delay = cfg.delay]
                         = [cfg EXCEPT !.url = Trimmed(@)]
                    /\ LoadAccepts(s.env) <=> s.env.delay # "garbage" /\ cfg.url # "hostless"

\* Every command that has called the client ends, also when BookStack stays
\* silent, as long as a timeout is set (validate does not ask for one).
EveryCommandExits ==
  HttpTimeout > 0 =>
    \A c \in Calls : cli[c].stage = "calling" ~> cli[c].stage = "exited"
=============================================================================
