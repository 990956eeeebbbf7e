--------------------------------- MODULE Deploy ---------------------------------
(***************************************************************************)
(* Deploys to the one server, from a laptop (deploy-remote.sh) and by the   *)
(* runner (deploy.yml): both mirror a tree into the same directory, take a *)
(* snapshot of the database and the media, and bring up what the directory  *)
(* holds (dev-up.sh), while people use the wiki.  A deploy may end after    *)
(* any step.  The workflow's concurrency group keeps two runner deploys     *)
(* apart; nothing keeps a laptop and the runner apart.                     *)
(***************************************************************************)
EXTENDS Integers, FiniteSets

CONSTANTS
  Deployers,       \* machines that deploy, one deploy at a time each
  Laptops,         \* those that may skip the snapshot
  Files,           \* what a tree consists of
  Versions, Live,  \* trees that may be deployed, and the one that is
  Media,           \* attachments and images that may be uploaded
  Slugs, Want,     \* permissions, and those in the repository's allowlist
  MaxDeploys, MaxClock, MaxEdits     \* bounds

ASSUME DeployConfig ==
  /\ Laptops \subseteq Deployers /\ Live \in Versions /\ Want \subseteq Slugs
  /\ MaxDeploys \in Nat /\ MaxClock \in Nat /\ MaxEdits \in Nat

VARIABLES
  tree,            \* the version of each file in the live directory
  stack,           \* the version of each file that the running stack was made from
  rows, files,     \* media the database refers to, and media on the volume
  deleted,         \* media whose deletion has begun
  pairs,           \* the snapshot pairs, by the second of their names
  clock,
  job,             \* what each deployer is doing
  deploys,
  pivot, effective,    \* the role as granted, and as the app enforces it
  edits

wiki  == <<rows, files, deleted>>
role  == <<pivot, effective, edits>>
vars  == <<tree, stack, wiki, pairs, clock, job, deploys, role>>

Tree(v) == [f \in Files |-> v]

NoJob == [at |-> "none", version |-> Live, left |-> {}, skip |-> FALSE,
          ts |-> 0, seen |-> {}, alone |-> TRUE, over |-> Tree(Live),
          healed |-> FALSE]

\* A part is "none", "partial" or "whole", and holds media.
NoPart == [is |-> "none", media |-> {}]

NoPair == [db |-> NoPart, media |-> NoPart, of |-> Tree(Live),
           made |-> 0]

Init ==
  /\ tree = Tree(Live) /\ stack = Tree(Live)
  /\ rows = {} /\ files = {} /\ deleted = {}
  /\ pairs = [s \in 0..MaxClock |-> NoPair]
  /\ clock = 0 /\ deploys = 0
  /\ job = [d \in Deployers |-> NoJob]
  /\ pivot = {} /\ effective = {} /\ edits = 0

Active(d) == job[d].at \notin {"none", "done", "failed"}

At(d, step) == job[d].at = step

-----------------------------------------------------------------------------
(* The steps of a deploy                                                   *)

\* The preflight has passed, or the job has been picked up.
Begin(d) ==
  /\ ~Active(d) /\ deploys < MaxDeploys
  /\ deploys' = deploys + 1
  /\ \E v \in Versions, skip \in IF d \in Laptops THEN BOOLEAN ELSE {FALSE} :
       job' = [e \in Deployers |->
                 IF e = d THEN [NoJob EXCEPT !.at = "sync", !.version = v, !.left = Files,
                                             !.skip = skip,
                                             !.alone = \A o \in Deployers : ~Active(o)]
                 ELSE [job[e] EXCEPT !.alone = FALSE]]
  /\ UNCHANGED <<tree, stack, wiki, pairs, clock, role>>

\* rsync replaces one file.
SyncFile(d, f) ==
  /\ At(d, "sync") /\ f \in job[d].left
  /\ tree' = [tree EXCEPT ![f] = job[d].version]
  /\ job' = [job EXCEPT ![d].left = @ \ {f}]
  /\ UNCHANGED <<stack, wiki, pairs, clock, deploys, role>>

\* Bug: a sync that ends early does not end the deploy.
SyncedLoosely(j) == TRUE

Synced(j) == j.left = {}

SyncDone(d) ==
  /\ At(d, "sync") /\ Synced(job[d])
  /\ job' = [job EXCEPT ![d].at = IF job[d].skip THEN "bringup" ELSE "dump"]
  /\ UNCHANGED <<tree, stack, wiki, pairs, clock, deploys, role>>

\* Bug: the archive is made first.
ArchiveFirst == "media"

\* What snapshot.sh begins with; the other part comes second.
First == "db"

Second == IF First = "db" THEN "media" ELSE "db"

\* A dump sees the database as of its first instant (--single-transaction); the
\* shell has truncated the file by then.
OpenPart(d, part) ==
  LET ts == IF part = First THEN clock ELSE job[d].ts
  IN  /\ pairs' = [pairs EXCEPT
                     ![ts][part] = [is |-> "partial", media |-> IF part = "db" THEN rows ELSE {}],
                     ![ts].of = IF part = "db" THEN stack ELSE @,
                     ![ts].made = IF part = First THEN @ + 1 ELSE @]
      /\ job' = [job EXCEPT ![d].ts = ts, ![d].seen = IF part = "db" THEN {} ELSE files,
                            ![d].at = IF part = First THEN "dumping" ELSE "archiving"]

\* Bug: a part that is not finished does not end the deploy.
ClosePartUnchecked(d, part) ==
  /\ job' = [job EXCEPT ![d].at = IF part = First THEN "archive" ELSE "bringup", ![d].seen = {}]
  /\ UNCHANGED pairs

\* tar holds what was there all the time, and of the rest what it came across.
ClosePart(d, part) ==
  LET ts == job[d].ts
  IN  \E media \in IF part = "db" THEN {pairs[ts].db.media}
                   ELSE {(job[d].seen \cap files) \cup some :
                           some \in SUBSET ((job[d].seen \ files) \cup (files \ job[d].seen))} :
        /\ pairs' = [pairs EXCEPT ![ts][part] = [is |-> "whole", media |-> media]]
        /\ job' = [job EXCEPT ![d].at = IF part = First THEN "archive" ELSE "bringup",
                              ![d].seen = {}]

Snapshot(d) ==
  /\ \/ At(d, "dump") /\ OpenPart(d, First)
     \/ At(d, "dumping") /\ ClosePart(d, First)
     \/ At(d, "archive") /\ OpenPart(d, Second)
     \/ At(d, "archiving") /\ ClosePart(d, Second)
  /\ UNCHANGED <<tree, stack, wiki, clock, deploys, role>>

\* docker compose up --build: from what the directory holds by now.
BringUp(d) ==
  /\ At(d, "bringup")
  /\ stack' = tree
  /\ job' = [job EXCEPT ![d].at = "role", ![d].over = stack]
  /\ UNCHANGED <<tree, wiki, pairs, clock, deploys, role>>

\* apply-agent-role.sh: the grant is made equal to the allowlist.
Converge(d) ==
  /\ At(d, "role")
  /\ pivot' = Want
  /\ job' = [job EXCEPT ![d].at = IF pivot = Want THEN "verify" ELSE "regenerate",
                        ![d].healed = TRUE]
  /\ UNCHANGED <<tree, stack, wiki, pairs, clock, deploys, effective, edits>>

\* The script reports a failure, and the deploy goes on without it: a slug is
\* missing in this BookStack and nothing is granted, or its answer makes no sense,
\* from before the grant or from after it.
ConvergeFails(d) ==
  /\ At(d, "role")
  /\ pivot' \in {pivot, Want}
  /\ job' = [job EXCEPT ![d].at = "verify"]
  /\ UNCHANGED <<tree, stack, wiki, pairs, clock, deploys, effective, edits>>

\* The app enforces the grant once bookstack:regenerate-permissions has run; its
\* failure goes to /dev/null.
Regenerate(d) ==
  /\ At(d, "regenerate")
  /\ effective' \in {effective, pivot}
  /\ job' = [job EXCEPT ![d].at = "verify"]
  /\ UNCHANGED <<tree, stack, wiki, pairs, clock, deploys, pivot, edits>>

Verify(d) ==
  /\ At(d, "verify")
  /\ job' = [job EXCEPT ![d].at = "done"]
  /\ UNCHANGED <<tree, stack, wiki, pairs, clock, deploys, role>>

\* A step fails, the connection breaks, the job times out; the stack may have
\* been brought up or not.
Fail(d) ==
  /\ Active(d)
  /\ job' = [job EXCEPT ![d].at = "failed"]
  /\ stack' \in IF At(d, "bringup") THEN {stack, tree} ELSE {stack}
  /\ UNCHANGED <<tree, wiki, pairs, clock, deploys, role>>

-----------------------------------------------------------------------------
(* The wiki and its users                                                  *)

\* BookStack stores a file, then the row that refers to it.
Upload(m) ==
  /\ m \notin files \cup deleted
  /\ files' = files \cup {m}
  /\ UNCHANGED <<tree, stack, rows, deleted, pairs, clock, job, deploys, role>>

Refer(m) ==
  /\ m \in files \ (rows \cup deleted)
  /\ rows' = rows \cup {m}
  /\ UNCHANGED <<tree, stack, files, deleted, pairs, clock, job, deploys, role>>

DeleteFile(m) ==
  /\ m \in files \cap rows
  /\ files' = files \ {m} /\ deleted' = deleted \cup {m}
  /\ UNCHANGED <<tree, stack, rows, pairs, clock, job, deploys, role>>

DeleteRow(m) ==
  /\ m \in rows \ files
  /\ rows' = rows \ {m}
  /\ UNCHANGED <<tree, stack, files, deleted, pairs, clock, job, deploys, role>>

\* An administrator changes the role in the app, which enforces it at once.
EditRole ==
  /\ edits < MaxEdits /\ edits' = edits + 1
  /\ \E slug \in Slugs :
       pivot' \in {pivot \cup {slug}, pivot \ {slug}} \ {pivot}
  /\ effective' = pivot'
  /\ job' = [d \in Deployers |-> [job[d] EXCEPT !.healed = FALSE]]
  /\ UNCHANGED <<tree, stack, wiki, pairs, clock, deploys>>

Tick ==
  /\ clock < MaxClock /\ clock' = clock + 1
  /\ UNCHANGED <<tree, stack, wiki, pairs, job, deploys, role>>

Next ==
  \/ \E d \in Deployers :
       \/ Begin(d) \/ SyncDone(d) \/ Snapshot(d) \/ BringUp(d)
       \/ Converge(d) \/ ConvergeFails(d) \/ Regenerate(d) \/ Verify(d) \/ Fail(d)
       \/ \E f \in Files : SyncFile(d, f)
  \/ \E m \in Media : Upload(m) \/ Refer(m) \/ DeleteFile(m) \/ DeleteRow(m)
  \/ EditRole \/ Tick

Spec == Init /\ [][Next]_vars

-----------------------------------------------------------------------------
(* Properties                                                              *)

\* Another snapshot of the same second writes into the same two files.
Unshared(ts) == pairs[ts].made = 1

Whole(ts) == pairs[ts].db.is = "whole" /\ pairs[ts].media.is = "whole"

PastBringUp(d) == job[d].at \in {"role", "regenerate", "verify", "done"}

\* "Each run snapshots the DB+media first (a rollback point)"
\* (deploy-remote.sh:8): a deploy that brought the stack up has a whole pair of
\* its own, and if it was the only deploy under way, the pair is of the stack
\* that it replaced.
RollbackPoint ==
  \A d \in Deployers :
    PastBringUp(d) /\ ~job[d].skip /\ Unshared(job[d].ts) =>
      /\ Whole(job[d].ts)
      /\ job[d].alone => pairs[job[d].ts].of = job[d].over

\* "referential integrity spans both" (snapshot.sh:2): whatever is uploaded or
\* deleted meanwhile, a restored pair misses no medium that its database refers
\* to, but for those that somebody was deleting.
PairsRestore ==
  \A s \in 0..MaxClock :
    Whole(s) /\ Unshared(s) => pairs[s].db.media \ pairs[s].media.media \subseteq deleted

\* A deploy that was the only one under way has its own tree running until the
\* next one begins, and so no mixture, whatever earlier deploys left half synced.
AloneMeansMine ==
  \A d \in Deployers :
    PastBringUp(d) /\ job[d].alone => stack = Tree(job[d].version)

\* "rebuild BookStack's denormalized effective-permissions and bust the cache so
\* the grant takes effect immediately" (apply-agent-role.sh:71-72): once a deploy has
\* converged the role and no script is still at it, the app enforces the grant of
\* the repository, until somebody edits the role in the app.
GrantInForce ==
  \A d \in Deployers :
    job[d].healed /\ ~(\E e \in Deployers : At(e, "regenerate")) => effective = Want
=============================================================================
