# A verification project for the CCC internal documentation platform

TLA+ models, TLC runs and TLAPS proofs for the programs in this repository: the contact service
(`services/contact`), the wiki client library (`services/wiki-client`) and its command line
(`services/wiki-cli`). The repository also deploys BookStack, a third-party wiki, with scripts,
compose files and Terraform; those appear here as the surroundings of the three programs.

1. [The system](#1-the-system) — parts, state, interactions, what is hard
2. [The modules](#2-the-modules) — which models what, and how it corresponds to the code
3. [The runs](#3-the-runs) — what TLC checks, with which bounds
4. [The proofs](#4-the-proofs) — what TLAPS establishes for every value of the constants
5. [Disagreements between code and documentation](#5-disagreements-between-code-and-documentation)
6. [What is not modelled](#6-what-is-not-modelled)
7. [Plan](#7-plan)

## 1. The system

### Parts

| Part | State it keeps | Operations | Talks to |
|---|---|---|---|
| rate limiter (`contact/ratelimit.go`) | a map from key to timestamps, the time of the last sweep, a mutex | `allow`, with `sweep` and `evictBatch` inside | called by the submit handler, three instances |
| submit handler (`contact/server.go`) | none of its own; one goroutine per POST | `handleSubmit`; form, thanks and health pages | the limiters, a mail transport, GitHub |
| process life (`contact/main.go`) | the listener, the shutdown goroutine | start, serve, SIGTERM, drain, exit | Docker restarts it |
| mail transports (`contact/mailer.go`) | none | `Send` over SMTP, Graph or AgentMail | a relay |
| GitHub client (`contact/github.go`) | none | `CreateIssue` | GitHub |
| CSRF form session (`contact/server.go`) | a cookie in the browser | issued with every form, compared on submit | the browser's tabs |
| wiki client (`wiki-client/client.go` and entity files) | none between calls; a call has an attempt counter and a backoff timer | list, get, create, update, upload | BookStack, through a load balancer |
| CLI (`wiki-cli`) | one process, one call | 14 commands, `help`, `version` | the wiki client; the shell sees the exit code |
| deploy scripts (`deploy/local`, `.github/workflows/deploy.yml`) | files, volumes and backups on one server | sync, snapshot, bring up, verify | Docker, BookStack |
| config as code (`apply-agent-role.sh`, `apply-brand.sh`) | settings and the role's permissions in BookStack's database | converge to the repository | BookStack |
| infrastructure (`terraform/`) | cloud resources | declarative | — |

### Interactions

A submission passes through the handler in a fixed order: body, per-address limiter, origin, CSRF,
honeypot, validation, is mail set up, global limiter, mail, GitHub limiter, issue, answer. Handlers
share nothing but the three limiters, and each limiter is protected by its own mutex. The relay and
GitHub act on what they have received whether or not the handler still waits. The process may be
told to stop, may crash, and comes back with empty limiters.

The CLI makes one call of the wiki client. The client sends a request, waits, and retries after a
5xx or a transport error. Requests may reach BookStack late, responses may be lost, and the load
balancer may answer 502 or 504 for a request that BookStack still carries out.

### What is hard to test here

* Handlers interleave between any two uses of a limiter, and between reading the clock and taking
  the limiter's lock.
* What a failed call has done is unknown: a mail may have been taken by the relay and the
  confirmation lost; a page may have been created and the response lost.
* Time limits of different layers (connection, send, GitHub, shutdown; attempt, backoff, context)
  overlap.
* The hard cap of the limiter and the overflow of the backoff are at sizes no test reaches.
* A process may end between any two steps.
* The tabs of a browser share one cookie, and responses overtake each other.
* Two people may deploy to the one server at once, while others upload and delete.
* Three sources of settings, two ways to name a file, and four flags with their variables make more
  combinations than anybody writes tests for.

A few more things met while modelling are as hard to test; no property is about them: two snapshots
begun in the same second write into the same two files (`snapshot.sh:16`); a body whose lines end in
CRLF leaves `rfc822` with two carriage returns per line (`mailer.go:117`, against the comment at
`mailer.go:92`); length limits count bytes where the form's `maxlength` counts characters
(`submission.go:118`); with a failing template the e-mail is sent half-rendered (`server.go:512`),
though `newServer` parses it at the start.

### What makes each part correct

* **Rate limiter** — no client gets more than the limit in a window; nobody is refused who has not
  used it up; the map stays bounded and recent.
* **Submit handler** — what the client is told about its mail is true; no issue without its mail;
  no interleaving exceeds a budget; junk cannot use up the budget of real submissions; every handler
  ends, in time for its answer to be written.
* **Process life** — a graceful shutdown finishes what is in flight.
* **Wiki client** — success means written; writes are at-least-once within the retry budget; a
  call cancelled while it backs off says so; an update is not overtaken by an older one.
* **Mail transports** — a nil error means that the relay has the mail; no secret in clear; no
  exchange outlives its deadline.
* **Configuration and form** — a ready service can send (it cannot, if its SMTP login is
  incomplete); the limiter's key is the client's address;
  what was typed stays inside its fence and its header; the verdict on an address is the policy.
* **CSRF form session** — a reload never mails; another site never mails; the freshest form is
  always accepted.
* **CLI** — the exit code tells what happened; nothing incomplete is sent; the settings follow the
  documented precedence; every command ends.
* **Deploy** — a rollback point from before every bring-up, which a restore can use; a
  deploy that nobody disturbs runs its own tree and no mixture (two that overlap may leave one); the
  role is the repository's, and enforced (it need not be).

The hazards behind these properties are listed with their lines in `PROJECT.json`.

## 2. The modules

```
SlidingWindow          operators: the map of a limiter and allow()
  ├── RateLimiter      one limiter, concurrent callers          ── refines ──> WindowLimit
  │     ├── MCRateLimiter
  │     └── RateLimiterProofs
  └── Contact          three limiters, handlers, relay, GitHub, process
        ├── MCContact
        ├── ContactProofs  (instantiates RateLimiterProofs, once per limiter)
        └── ContactMail  the transports, exchange by exchange   ── refines ──> Contact
              ├── MCContactMail
              └── ContactMailProofs  (with ContactProofs)
Settings               operators: the environment and what hangs on it
  └── Submission       operators: the form, the issue, the mail
        └── Intake     one container, one submission
              ├── MCIntake
              └── IntakeProofs
FormSession            tabs, the cookie, requests and responses
  ├── MCFormSession
  └── FormSessionProofs
WikiConfig             operators: where the CLI's settings come from
WikiClient             calls, retries, BookStack                ── refines ──> AtLeastOnce
  ├── MCWikiClient
  ├── WikiClientProofs
  └── WikiCli          processes around the calls (with WikiConfig)
        ├── MCWikiCli
        └── WikiCliProofs  (with WikiClientProofs)
Deploy                 deployers, the server's files, the wiki, the role
  ├── MCDeploy
  └── DeployProofs
```

The contact service is modelled three times, each time with what one kind of question needs.
`Contact` has many POSTs and no data: a POST comes with a set of flaws. `Intake` has all the data
and one POST: it computes what `Contact` takes for granted, namely which POST is `invalid` and which
`ip` it is charged to. `FormSession` has the browser: it computes which POST is `csrf` or
`cross_site`. They meet in these four words and in the order of the checks, which is `handleSubmit`'s
in all three.

A definition under a comment that begins with "Bug:" is a variant of the one below it, with the kind
of mistake that the properties are meant to catch. No specification uses it.

### SlidingWindow, RateLimiter, WindowLimit

`SlidingWindow` translates `ratelimit.go` into operators on a limiter's state
`[hits, lastSweep]`; `Allow(rl, key, now, n)` is the set of possible results of one `allow` call,
a set because `evictBatch` sorts a map with ties. A slice of timestamps is a set of hits, each with
the number of the call that stored it; the last element of the slice, which is all that `sweep`
looks at, is the hit with the largest number. Being operators, they serve both the limiter alone
and the three limiters of the handler.

`RateLimiter` adds what runs concurrently. Every use in `server.go` has the form
`limiter.allow(key, s.now())`: the clock is read before `allow` takes the mutex. A call is therefore
two steps, `ReadClock` and `Enter`, and others may enter in between. `MaxDelay` bounds how far the
clock runs between the two. `log` and `answer` are history variables: the admissions (but for those
of keys the hard cap made the limiter forget) and the last answer.

`WindowLimit` is the abstract specification: no map, no sweep, no lock; an attempt is admitted or
refused by counting the admissions of its key over the trailing window, with a `Slack` by which the
window may be misjudged in favour of the client. `RateLimiter` implements it with
`Slack = 2 * MaxDelay`: one `MaxDelay` for the call that waits, one for the hit that a sweep takes
for the youngest of its slice.

### Contact

One record per POST (`post`), with the stage of its handler, the flaws it came with, what it was
answered and when things happened; the three limiters; the process; and what is on the wire to or
has been accepted by the relay and GitHub. The stages are the points where something else can come
in between:

| Stage | The handler waits for | Left by |
|---|---|---|
| `reading` | the body | `BodyFails`, `ParseForm` (charges the address) |
| `admitted` | its turn | `Screen` (the refusals between the limiters), `HandToMailer` (charges the global limiter) |
| `sending` | the relay | `SendSucceeds`, `SendFails` |
| `mailed` | its turn | `FileIssue` (charges the GitHub limiter) |
| `filing` | GitHub | `IssueFiled`, `IssueFails` |

A limiter is charged in one step; the step is taken apart in `RateLimiter`. `RelayDecides` and
`GithubDecides` take or drop what was sent, at any time, also after the handler has given up or the
process has died. `SendFails` may happen after the relay took the mail: `smtpMailer.Send` ends with
`cl.Quit()`, whose error is returned like any other. `Sigterm`, `DrainEnds`, `Crash` and `Restart`
are `main.go` and Docker; a restart reads the configuration afresh and has empty limiters.

Time advances in ticks to `Horizon`, where it stops and stands for any later time. A handler that
can compute does so before the clock ticks; the clock never ticks past a deadline whose handler has
not yet reacted, which is how a context or socket deadline works.

### ContactMail

`Contact` takes a mailer for one wait with two outcomes. `ContactMail` is the same service with
`mailer.go` taken apart. `send` holds, for each POST, the exchanges its `Send` still has before it,
whether the connection is encrypted yet, and how long the current exchange may take: the dialer's
own limit, the HTTP client's own limit, and never longer than the context (`mailer.go:156` pins the
SMTP connection to the context's deadline). `Reply` goes on to the next exchange, `SendReturns` is
the last good reply, `GiveUp` everything that makes `Send` return an error. The rules of `net/smtp`
that matter are guards: no AUTH in clear except to this host, no way round a missing STARTTLS.
`transmitted` is what the relay has received in full and may take at any later time; `exposed` is a
history variable, what crossed the network in clear.

`ContactMail` extends `Contact` and reuses its actions, so that the refinement (`ImplementsContact`)
needs no substitution: the variables of `Contact` are still there, and the new actions either
stutter on them or are one of its steps.

### Settings, Submission, Intake

`Settings` is `config.go` (`Load`, `validate`, `mailConfigured`, `githubConfigured`,
`senderAllowed`) and what hangs on the configuration alone (`Ready`, `clientIP`, and what the chosen
mailer needs: `MailerUses`, with the SMTP login, and `MayLogIn`, the rule of `net/smtp` that no
password goes out in clear but to the own host). `Submission` is
`newSubmission`, `validEmail`, the subject, the markdown of the issue with its fences, and the
header of the mail. Texts are sequences of characters; where no property looks inside a word, one
character stands for it. Only the characters that something tells apart are there: blanks, line
breaks, `@`, angle brackets, the backtick, capitals, and one letter of two bytes. The alphabet of
the specification is open (`Chars`), the one of the run is small.

`Intake` runs them: a container starts with an environment, a request comes along a route of
proxies, a form is submitted, and a mail and an issue are made of it. It has few steps and many
initial states; its point is that the functions are applied one to another as the code does it, so
that a property can relate what goes in at one end (an address, a line break in a setting) to what
comes out at the other (a limiter's key, a header). `Lines`, `Prose` and `Permitted` say how others
read that: a mail server, GitHub, and the policy in `config.md`.

### FormSession

The server of `server.go` keeps no session: `issueCSRF` draws a token for every form it renders and
sets the cookie to it; `verifyCSRF` compares. The state is therefore the browser's: the cookie jar,
what each tab shows and what a reload of it would repeat, the navigation each tab waits for and one
that it has turned away from, whose response may still set the cookie. `Open`, `Submit`, `Reload`,
`Back` are the user's. Another site makes the browser post with no token or with any that it has
drawn from the service for itself (`DrawElsewhere`, `PostFromElsewhere`); what it cannot do is read
the browser's jar or write into it. `HandleForm`, `Refuse`,
`Process` and `HandleThanks` are the handlers; `Arrives`, `ArrivesStale` and `Lose` are the way
back. A site may set `CONTACT_SECURE_COOKIE` without HTTPS, in which case the cookie never comes
back; a browser may or may not heed `SameSite` and `Referrer-Policy`; the random source may fail.

### WikiClient, AtLeastOnce

One record per call (`call`): its operation, attempt, timer, time spent and result. `wire` holds the
requests BookStack has not decided, which outlive the attempt that sent them; `replies` the
responses on their way; `commits` the writes carried out, in order. `Begin`/`BeginFails` are the
methods of the client up to the first request; `TransportFails`, `ReadReply`, `BackoffEnds` and
`BackoffAborts` are the branches of `doRaw` and `backoff`. Where the timer has fired and the context
is done, the `select` takes either branch; with the timer's, the loop goes on to `Do`, which
`net/http` refuses (`Send` then puts nothing on the wire, as with a URL without a host). Delays are computed as the code computes
them, in signed machine words (`Shifted`), capped (`Delay`) and jittered (`Jitter`).

A 2xx with a body cut short is a decode error, or, when nothing of the body came, a success with an
empty entity: the code ignores the read error and does not decode an empty body. `FollowRedirect` is
the load balancer's port-80 listener together with `net/http`, which turns any method into GET on a
301; only `wiki_client_redirect` uses it.

`AtLeastOnce` is the abstract specification: how often a call has been carried out, and what its
caller may conclude — exactly once, at least once, never, or unknown but no more often than the
budget. `Conclusion` maps a returned call to that vocabulary: a success at the first attempt means
exactly once, a later one at least once; a 4xx at the first attempt means never.

### WikiCli, WikiConfig

One process per call (`cli`). Its stages are the points where it can end: `flags` → `sources` →
`config` → `ready` → `calling` → `exited`. `Demanded` and `Optional` are the flags each handler asks
for before it does anything (`FlagsSuffice`); `ReadSources` reads the two body sources of a page one
after the other, from files, literals or the one stdin, which is empty for the second reader. Book
update and chapter update behave alike and are one command.

`WikiConfig` is where the settings come from: `configPath`, `parseConfigFile`, `loadFails` and
`resolved` are the CLI's `config.go`, `validate`, `Loaded` and `LoadAccepts` the library's, which
reads one variable more, `WIKI_RETRY_BASE_DELAY`, and trims the URL before it is judged. `Fault` follows an error
to its exit code: `loadConfigFile` and `wikiclient.New` give usage errors, what `resolveConfig`
itself finds wrong gives 1. Values are told apart by what the code asks of them, not by their text.

### Deploy

Deployers (`job`) go through `sync`, the two parts of the snapshot, the bring-up, the role and the
verification; `Fail` may end them after any step. They share the live directory (`tree`, file by
file, as `rsync` replaces it), the running stack (`stack`, the version of each file it was made
from) and the backup directory (`pairs`, by the second in their names). The concurrency group of
`deploy.yml` keeps two runner deploys apart, so there is one runner; nothing keeps a laptop and the
runner apart.

`Upload`, `Refer`, `DeleteFile` and `DeleteRow` are BookStack's users, who go on during a snapshot.
The dump has the rows of its first instant (`--single-transaction`); `tar` has what was there all the
time and any part of what came or went. `Converge`, `ConvergeFails` and `Regenerate` are
`apply-agent-role.sh`: the grant, and what the app enforces, which follows only after a regeneration
whose failure nobody sees. An answer lost after the grant was written (`ConvergeFails`) leaves it
without a regeneration as well. `EditRole` is an administrator in the app.

## 3. The runs

| Run | Question | Expected |
|---|---|---|
| `rate_limiter` | does the limiter keep its promise when calls wait for the lock and the map is full; is it exact when nobody waits? | passes |
| `contact_answers` | are clients told the truth about their mail, through crashes and restarts; does any interleaving get past a budget, or does junk trip the breaker? | passes |
| `contact_progress` | over each transport: does every handler end, in time; is anything exposed; is `Contact` a fair picture of it? | passes |
| `contact_shutdown` | does a graceful shutdown finish what is in flight? | violated |
| `contact_session` | do tabs, reloads, Back, lost responses and other sites ever mail by mistake, or lock the user out? | passes |
| `contact_origin` | is the form's own submission ever refused as cross-site? | violated |
| `contact_intake` | for every small environment, route and text: right key, whole header, closed fence, right verdict; what may a ready service lack? | passes |
| `wiki_client_calls` | does success mean written, are writes at-least-once, does order hold? | passes |
| `wiki_client_redirect` | … also through a redirecting listener? | violated |
| `wiki_cli_commands` | does the exit code tell what happened, is what is sent whole, are the settings the documented ones, does every command end? | passes |
| `deploy` | with two deployers, failures and busy users: is there a usable rollback point, does one tree run? | passes |
| `deploy_role` | does the app enforce the grant that a deploy converged to? | violated |

The type invariants of `RateLimiter`, `Contact` and `WikiClient` are conjuncts of `Inv`,
`HonestInv` and `CliTypeOK` and checked with them.

### Bounds, and why they are enough

* **rate_limiter** — three keys, two callers, a window of three ticks, six ticks of time, four calls.
  `MCRateLimiter` lets half of the behaviours be prompt: no call of theirs waits while the clock ticks,
  so that they are the behaviours of `MaxDelay = 0` (`ExactIfPrompt`). Three keys against `MaxKeys = 2` reach the hard cap with all
  keys live; `EvictShare = 2` makes the low-water mark differ from the cap. Six ticks are two windows
  of three, so a hit is stored, pruned, swept and outlived. A limit of two gives slices whose last
  hit hides another one, which is what a sweep can misjudge; with it the slack of `WithinLimit` is
  tight (with `MaxDelay` once instead of twice the run ends in a counterexample). Two callers are
  enough to enter in the wrong order. `clock` and `calls` would grow for ever and are cut off by the
  constraint `Bounded`.
* **contact_answers** — two POSTs with every flaw and one combination for each pair whose order
  matters, every configuration, two boots. All limits are one, so that the second POST is the one too
  many for each of them; windows of two and three ticks in a horizon of three let a budget be used
  up, run out and be renewed, and let a restart forget it.
* **contact_progress** — one POST, because what is asked is about one handler and its transport;
  two boots. Eight transports: the hosted relays (STARTTLS or TLS, with a password), a relay that
  goes by addresses, the test sink, a sink asked for a password, a relay on this host, Graph and
  AgentMail. A tick stands for ten seconds: body 30, send 30 (25 in the code), GitHub 10, answer 60,
  dial 10, HTTP 20 (15), each rounded up to a tick, so that the order of the deadlines and the
  relation 30 + 25 + 10 > 60 are the code's. The horizon is beyond all deadlines.
* **contact_shutdown** — the code's own durations in units of five seconds.
* **contact_session** — two tabs of one browser, three tokens, two navigations under way, one fault:
  a form in each tab and one that overtakes them, or one that another site draws; a fault is a lost message or a failed draw. Two
  sites and two browsers, the extremes of what they may heed. About 2.8 million states.
* **contact_intake** — seven families of cases, each of which takes one or two dimensions through every
  value and leaves the others plain: what the transports need; the SMTP login, with and without encryption, to
  this host and another; hops, trust and routes of up to three
  proxies with up to two forged entries; the numbers; addresses of up to four characters under three
  policies; texts of up to four characters in every field; settings of up to three characters that go
  into headers. Four backticks are one more than the shortest fence. About 69 000 states.
* **wiki_client_calls** — two calls with a retry each: a stale request of one can meet the other in
  any order, and a call may be cancelled in any state. `BaseDelay = 2` exceeds the cap of 1. About
  730 000 states.
* **wiki_cli_commands** — one process of each command with every set of its flags, two retries; a
  `BaseDelay` of 3 in a word of four bits is beyond the cap without the cap (6 at the second retry,
  which the sign test alone would let through). Setups: every way to name a URL, a token and a file,
  with good numbers, and every way to give the numbers (the delay between retries among them), with a
  good URL and token. About 180 000 states.
* **deploy** — a laptop and the runner, two deploys, so that they overlap or follow each other, or
  one machine deploys twice; two files, so that a tree can be half synced; two versions; one medium
  uploaded or deleted during the snapshot; one edit of the role; two seconds, so that snapshots share
  one or do not. About 6 million states.

Symmetry is used only where no liveness is checked (to TLC `CancelledIsTold` counts as such). `contact_session`, `contact_intake` and
`deploy` (with `deploy_role`) say `CHECK_DEADLOCK FALSE`: they end because a bound is used up or because the one submission has
been answered. In the other runs a deadlock is an error.

### Fairness, and why the code justifies it

`Contact` assumes that time passes, that a handler that can compute does (the Go scheduler), and
that a handler whose deadline has passed is told so: `ReadTimeout` sets a deadline on the
connection, `mailer.go:156` pins the SMTP connection to the deadline of its context, and `net/http`
honours the context of `CreateIssue`. Nothing is assumed of clients, the relay or GitHub.
`ContactMail` assumes the same (`MailFairness`); that an exchange gives up is asked only from the
moment its own deadline has passed. `WikiClient` assumes that time passes and that timers and
cancellations are noticed; nothing of BookStack or the network. `WikiCli` assumes in addition that a
process reports what its call returned; nothing before the call, since a stdin may stay open for
ever. `EveryCommandExits` and `CallTimeBounded` ask for a timeout to be set: `wikiclient`'s
`validate` does not, and with 0 a silent server holds a call for ever. `FormSession` and `Deploy`
state no liveness: users and deployers may walk away at any point.

## 4. The proofs

Each theorem is about every value of the constants that satisfies the named assumptions of its
module. TLC evaluates them on the runs.

| Assumption | What it asks | Why the code has it |
|---|---|---|
| `LimiterConfig`, `CallerConfig` | limits, windows and shares of at least one; `MaxKeys >= EvictShare`; `MaxDelay` below a window | `Config.validate`; 50 000 keys and a share of 10; a lock is not waited for as long as an hour |
| `ContactConfig` | the same of the three limiters; positive time limits; what a configuration is | `Config.validate`, the constants of `main.go` and `server.go` |
| `TransportConfig` | what a transport is; the dialer's and the HTTP client's limits are positive | `newMailer` and `mailer.go:136` |
| `IntakeConfig` | addresses are texts; length limits are numbers; a case is an environment, a route and a form, of any texts and numbers | variables, headers and form values are strings; the limits are constants of `submission.go` |
| `SessionConfig` | what a site and a browser are; the bounds are numbers | — |
| `ClientConfig` | a number of retries, a timeout (0 for none, which is what `net/http` takes a negative one for), a cap, a word; any integer as `BaseDelay` | `validate` refuses negative retries only; the cap is `client.go:214` |
| `CliConfig` | commands have their flags and, but for `help`, a call of the client's; a setup is of `SetupType` | the table of commands in `main.go`; flags, variables and lines are strings |
| `DeployConfig` | laptops are deployers; the permissions wanted exist; the bounds are numbers | — |

Three further hypotheses stand in the theorems that need them, because the code does not ensure
them: that the wiki's URL is not redirected (`"redirected" \notin Urls`), that there are no more
addresses than the limiter's map may track (`FewAddresses`), and, inside `CallTimeBounded`, that a
timeout is set.

### RateLimiter

`Invariance` proves `Spec => []Inv`; the other theorems follow from it. The properties are not
inductive: that a call counts too few hits depends on what earlier sweeps have dropped. What `Inv`
adds is the relation between the map and the log of admissions:

* `HitsLogged` — a hit in the map is an admission, so a refusal counts real admissions
  (`Justified`);
* `Remembered` — an admission that some call may still ask for is in the map, so an admission has
  counted all of them (`Limited`);
* `LogOrdered` — of two admissions the later one is at most `MaxDelay` older, so the last hit of a
  slice stands for the whole slice up to `MaxDelay`. Without it `Remembered` does not survive a
  sweep.

`MapBounded` needs `ShareFreesOne`: `maxKeys - maxKeys/10` is less than `maxKeys` only if `maxKeys`
is at least 10. `Exact` is the corollary for `MaxDelay = 0`. `NoneOutlives` is an action property.
`Refinement` maps the initial states and every step: `Enter` to an admission or a refusal of
`WindowLimit`, `ReadClock` to a stutter, `Tick` to a tick; that keys are forgotten only when the
capacity is used up is the lemma `KeysLogged`.

### Contact: the truth about mails

`HonestInvariance` proves `Spec => []HonestInv`. `AnswersHonest` and `IssuesFollowMail` are not
inductive: from an arbitrary state with a handler in stage `filing` and no mail in the mailbox the
next answer would be a lie. `MailFollowsStage` excludes those states: up to `admitted` there is no
mail anywhere, from `mailed` on the relay has it. The proof has one lemma per action; crashes,
restarts and shutdowns are among them, and so is every limiter result, whose content the argument
does not need.

### Contact: the budgets

The limiters' content is what the second half of `ContactProofs` is about. A handler charges a limiter in one
step at the time the clock shows, so each of the three is a limiter whose calls never wait, and the
module instantiates `RateLimiterProofs` three times with `MaxDelay` 0. On top of the facts about
`allow` stands a ledger: the charges of a limiter are the POSTs whose `parsed` (`handed`, `filed`)
is set, and `Ledger` says that for every moment not older than a window the limiter holds one hit for
each charge of this boot after that moment, and that no window of any boot has more charges than the
limit. The second half is what the budgets say; the first half makes it inductive, since it is what
ties the limiter's count, and so its answer, to real charges. `ChargesFollowStage` adds that a POST
is charged when it leaves a stage and never before, so that no step charges it twice. A restart
empties the limiters and begins a new boot, of which there are no charges yet.

* `SharedBudgetsHold` and `BreakerIsJustified` have no hypothesis. The two global limiters have one
  key each, so the hard cap never forgets it.
* `BudgetsHold` adds the budget of each address and assumes `FewAddresses`. Without it the statement
  is false, as the code intends: with more than `maxKeys` addresses at work `evictBatch` forgets
  live counts to bound the map (`KeepsPromise` of the limiter says when).
* `AnswerInTime` is about time alone (`Timely`): a handler past its form has `SendTimeout` to leave
  `sending` and `GithubTimeout` after that. It uses that the clock cannot pass a deadline whose
  handler has not reacted.

### ContactMail

What a `Send` has yet to say is a suffix of its transport's conversation. `MailInv` says so
(`Talking`), and the place in the conversation carries the rest: past STARTTLS, or past the dial of a
TLS connection, the connection is secure (`Safe`); before QUIT the relay has received the mail in
full; the current exchange ends before the context of `Send` does. All that is used of the
conversations is `Shape`, proved once for every transport. `SecretsKept` follows because AUTH and
the content come after the place where the connection was secured.

`MailRefinement` proves `MailSpec => Spec` with the invariant: `SendReturns` is a `SendSucceeds` of
`Contact` because at the last reply the relay has the mail, `GiveUp` a `SendFails`, `RelayTakes` a
`RelayDecides`, an exchange in between a stutter. `MailHonest` is then a corollary of `Honest` and
`MailFirst`.

### Intake

`IntakeInvariance` proves `Spec => []IntakeInv`: the configuration is what was loaded and validated,
and the key, the complaints, the mail and the issue are what `Submit` made of the case. The rest is
about the operators on texts, for texts of every length over every alphabet: what a recursive
function or a fold computes. That is induction, and the rules of the library, which take a predicate
as a parameter, cannot be instantiated here. The module therefore proves rules that take a *set*
(`SetInduction` on numbers, `TextInduction` on texts), and that a function defined by recursion over
an interval exists (`RecursionExists`), without which nothing can be said of its `CHOOSE`.

* `TrueAddress`: the entry that a chain of proxies puts at the place of the client is the client's,
  at `hops` from the right, whatever stands before it.
* `ReadyMeansFilled` is a case split over the transports: what `mailConfigured` asks for is all that a
  mailer uses, but for the login of SMTP.
* `SoundVerdict`: `validEmail` and `senderAllowed`, which look at suffixes, agree with the policy,
  which looks for an at sign (`AddressIs`, `SuffixIs`); to lower and to trim twice is to do it once.
* `HeadersKept`: a text cut at a line break has the lines of its pieces (`LinesJoin`). `Makes(A, ls)`
  says that a text `A` has become the lines `ls` whatever follows; one header adds one line, because
  `stripCRLF` and the encoding leave no break in a value (`HeaderMakes`).
* `EveryFenceHolds`: a fence is longer than every run of backticks in what it fences (`FenceLonger`,
  by induction along a run), each line of a text is a stretch of it (`LinesWithin`), so no line of it
  ends the fence (`NoneEnds`). `Writes(A, W)` says that a text has told `W` outside all fences and has
  none open; a heading adds its word, a text in fences nothing, and `BodySays` puts the body together.

### FormSession

`SessionInvariance` proves `Spec => []SessionInv` for any number of tabs, slots, draws and faults.
`ReloadNeverMails` is not inductive: it depends on which cookie a repeated request will meet. Two
ideas make it so. A token on its way in a response is *novel* (`Novel`): no page, request or cookie
has it, because it was drawn for that response. So when the response arrives and the cookie becomes
that token, the request it answers no longer matches the cookie: it is *spent* (`Spent`). It stays
so, since the cookie only moves on to tokens that are novel. Where a draw has failed there is no
token to move on to, and the statements say so (`drawFailed`), as the code logs it.
`FreshFormAccepted` uses the converse: the freshest form's token is the cookie.
`NoMailFromElsewhere` cannot rest on a list of tokens, since the service keeps none and its own are
all valid: what it uses is that a token another site has drawn is nowhere in the browser, neither in
its jar nor in a response that has yet to set it, and stays so whatever overtakes what.

### WikiClient

`ClientInvariance` rests on `OneFate`: an attempt's request is on the wire once, or carried out once,
or gone, never two of these. `RepliesSettle` and `ResultsSettle` say that an answer of BookStack's
own settles its attempt, unlike a 502 or 504 of the load balancer or a transport error, after which
the request may still arrive. A returned call keeps its attempt, so a result that was true stays true
whatever older requests do later. From there:

* `SuccessTold` and `ClientRefinement` assume that the URL is not redirected;
  `wiki_client_redirect` is the counterexample without that. `EditsOrdered` needs no such hypothesis:
  what a redirect turns into a read is not in the order at all.
* `ClientRefinement` maps every step: a commit to a carrying-out of `AtLeastOnce`, a return to its
  conclusion, the rest to stutters. It counts the commits of a call (`Told`, `Count`) by their
  attempts, of which there are no more than the budget.
* `CancellationTold` is about whole behaviours: a call that backs off with its context done is *sunk*
  (`Sunk`): it has no request on the wire and no reply to come, and every step keeps it so
  (`StaysSunk`) until it returns the context's error, however many branches of the `select` it takes.
* `CallsInTime` has an invariant of its own (`InTime`): what is spent and what the timer still holds
  is within the attempts and waits so far. It covers shifts of `BaseDelay` that overflow the word,
  negative ones among them, since `Delay` caps them all.

### WikiCli

`CliInvariance` says that a process and its call *fit* (`Fits`): the call has not begun before the
process is through with its flags, sources and settings; what is sent is whole; the exit code is one
that the call's result explains. `CliUsesClient` proves `CliSpec => Spec` of `WikiClient`, so that
the client's theorems hold of the CLI's calls; `ExitCodesTell` combines the two and inherits the
hypothesis about redirects. `SettingsAreSound` is about every setup of the type `SetupType`, files of
any number of lines among them: that the last line of a key exists is a minimal-element argument over
its positions (`LastExists`). Its half about the library says where the two agree (the environment
alone, every setting but the delay) and what `Load` refuses that the CLI does not (a garbled delay, a
URL of a scheme and slashes).

### Deploy

A snapshot pair belongs to the second in its name, and deploys of one second share it. `made` counts
who began it, and as long as that is one deploy, the pair's two parts follow that deploy's stage
(`HeldOK`); `TwiceMade` says that two deploys of one second have counted two. `PairsRestore` needs
in addition that the dump is the older part: all that it refers to is on the volume when `tar`
begins, but for what somebody is deleting (`PairOK`). A deploy that is alone has been so since it
began, so nobody else writes the directory or the stack (`Mine`), whatever earlier deploys left half
synced.

### Model-checked only

* `EveryPostAnswered` and `EveryCommandExits`: liveness under fairness needs `ENABLED`, which the
  proof system does not handle. Of the promise of `ContactMail` and `WikiCli` it is the safety part
  that the refinement theorems carry over; their fairness is checked with the runs;
* the four properties of the violated runs, which do not hold.

`Inv` and `HonestInv` are also invariants of a run. `ClientInv`, `SessionInv`, `DeployInv`, `MailInv`,
`CliInv` and `IntakeInv` hold on the instances of the runs, which TLC confirmed before they were proved; they are
no runs of their own, since they would ask nothing new of the system. The ledger of `BudgetInv`
quantifies over all moments, which TLC cannot enumerate; that one rests on its proof alone.

## 5. Disagreements between code and documentation

Four statements of the repository are not what the code does; each has a run that ends in a
counterexample.

* `main.go:58` says that a shutdown finishes what is in flight. The grace period is 10 seconds, a
  handler may take 35 after its body was read. In `contact_shutdown` a submission whose mail is with
  the relay is killed when the grace period ends, before its own deadline; its mail is still on its
  way, and the relay may deliver it to a mailbox whose sender never got an answer.
* `apply-agent-role.sh:71` says that the permissions are regenerated so that the grant takes effect
  immediately, and the runbook (`agent-api.md:40`) that every deploy makes the role what the
  repository says. The failure of the regeneration goes to `/dev/null`, the script goes on (it has no
  `-e`), and since the grant itself is as it should be, every later deploy says `NOCHANGE` and never
  repeats it (`deploy_role`): an added permission is not granted, and a removed one stays in force,
  until somebody saves the role in the app. Regenerating on every deploy would do.
* `pages.go:26` and the client's README say that a returned page carries what was written. With an
  `http://` URL and a listener that redirects, the write becomes a read (`wiki_client_redirect`).
  The LAN deployment has no such listener; the production load balancer does.
* `server.go:384` says that the origin check never blocks a same-origin submission, and
  `server_test.go:636` tests that a same-origin `Origin` passes. Every page of the service carries
  `Referrer-Policy: no-referrer` (`server.go:57`), and under that policy the Fetch standard makes the
  form's own POST carry `Origin: null`, in which `sameOrigin` finds no host (`contact_origin`). No
  test sends that value. Changing the policy to `same-origin` would do.

Three more have no run of their own; the models are written so that what does hold is what they
check:

* `config.go:167` says that `mailConfigured` asks for everything that the transport needs to actually
  deliver, and `/readyz` hangs on it. It does not ask for `MAIL_PASSWORD`, though `Send` logs in
  whenever there is a user name (`mailer.go:174`); nor does it ask about `MAIL_ENCRYPTION=none`, with
  which `net/smtp` logs in to no host but the own one. Either way the service is ready and every
  `Send` fails. `OnlyLoginUnasked` says, and `ReadyMeansFilled` proves, that nothing else is missing.
* `ratelimit.go:17` calls the limiter exact. Calls that wait for the lock can enter with their times
  in the wrong order: a call with a later reading sweeps away a hit that is still in the window of a
  call that waits. Proved bound: the window is shortened by at most twice the wait (`Limited`), which
  is microseconds in practice; without a wait the limiter is exact (`Exact`).
* `flags.go:102` and the CLI's README (line 71) give exit code 2 for configuration problems. Those
  found by `resolveConfig` itself give 1 (`Fault`). A script can rely on the converse, that 2 means
  nothing was sent (`ExitCodeTells`).

## 6. What is not modelled

* The HTML pages, the wording of the e-mail and its template, tables and JSON output: pure functions
  without a decision that a property is about. Ports, base URLs and the other settings that only
  become text.
* Time-outs of idle connections and headers; HTTP keep-alive; TLS.
* A restart changes nothing about the clock. Clock jumps (NTP) are not modelled; the code uses
  Go's monotonic readings where it subtracts times.
* `MaxRetries` is a constant: every call of a run has the same budget. The library's `Load` is
  modelled because the CLI's settings are compared with it, but no program of the repository calls it.
  It reads `WIKI_RETRY_BASE_DELAY`, which the CLI ignores in favour of a fixed 200 ms
  (`wiki-cli/config.go:80`); no document promises otherwise. `New` validates the URL before it trims
  it, so that a URL of a scheme and slashes passes and every request to it fails (`"hostless"`).
* What another site could do with a cookie of its own making in the browser's jar (from a sibling
  domain, or over plain HTTP): the token is compared with the cookie and nothing else.
* A remote script of a deploy whose connection broke: `Fail` stops it at once, whereas `dev-up.sh` or
  `snapshot.sh` may run on for a while. `AloneMeansMine` relies on that: a deploy begun meanwhile
  would not really be alone.
* The checks of `verify.sh`, the health poll of the bring-up, `--fresh`, the bootstrap of `.env`, and
  `apply-brand.sh`, which sets a few settings when they differ.
* BookStack beyond carrying out or refusing requests and storing files and rows; MariaDB.
* The branding head (scripts in the browser without shared state), Terraform (declarative, with tests
  of its plans), CI (independent jobs), the repository's tests and documentation.

## 7. Plan

In order of what matters most to the system's users:

1. *(done)* `SlidingWindow`, `RateLimiter`, `WindowLimit` with their runs and proofs.
2. *(done)* `Contact` with its runs; the proof that clients are told the truth.
3. *(done)* `WikiClient`, `AtLeastOnce`, `WikiCli` with their runs.
4. *(done)* `ContactMail` and its refinement; `Settings`, `Submission`, `Intake`; `FormSession`;
   `WikiConfig`; `Deploy`.
5. *(done)* `ContactProofs` (the budgets among it), `ContactMailProofs`, `FormSessionProofs`,
   `WikiClientProofs`, `WikiCliProofs`, `DeployProofs`: the safety properties of the runs and the
   refinements.
6. *(done)* `IntakeProofs`: the five properties of `Intake`, by induction over texts. With it every
   safety property that a run checks is a theorem.
7. *(left)* The budget of an address without `FewAddresses`: for the addresses that the hard cap did
   not forget, as `Limited` has it for one limiter. `Contact` would need a history variable that tells
   which addresses those are.

Parameters are constants with named assumptions, an operation is an action, and recursion is written
as recursive functions throughout, so that the modules can be proved about.
