------------------------------ MODULE DeployProofs ------------------------------
(***************************************************************************)
(* Proofs about Deploy, for every number of deployers, files, media and     *)
(* permissions, and for every bound.                                       *)
(*                                                                         *)
(* The argument.  Every file that snapshot.sh writes into belongs to the    *)
(* pair of one second, and the pair counts who began it: as long as that is *)
(* one deploy, the pair's state follows the stage of that deploy (Held).    *)
(* The dump is the older part, so what it refers to is on the volume when   *)
(* the archive begins, unless somebody has begun to delete it.  A deploy     *)
(* that is alone is so from its beginning to the next one's, so nobody else *)
(* touches the tree and the stack (Mine).                                   *)
(***************************************************************************)
EXTENDS Deploy, TLAPS

PartType == [is : {"none", "partial", "whole"}, media : SUBSET Media]

Trees == [Files -> Versions]

PairType == [db : PartType, media : PartType, of : Trees, made : Nat]

Stages == {"none", "sync", "dump", "dumping", "archive", "archiving", "bringup", "role",
           "regenerate", "verify", "done", "failed"}

JobType ==
  [at : Stages, version : Versions, left : SUBSET Files, skip : BOOLEAN, ts : 0..MaxClock,
   seen : SUBSET Media, alone : BOOLEAN, over : Trees, healed : BOOLEAN]

Types ==
  /\ tree \in Trees /\ stack \in Trees
  /\ rows \subseteq Media /\ files \subseteq Media /\ deleted \subseteq Media
  /\ pairs \in [0..MaxClock -> PairType] /\ clock \in 0..MaxClock
  /\ job \in [Deployers -> JobType]

\* The parts of the invariant say what they say of given values: j is a job, p
\* the pair of its second.
Past(j)   == j.at \in {"role", "regenerate", "verify", "done"}
Opened(j) ==
  j.at \in {"dumping", "archive", "archiving"} \/ (~j.skip /\ (j.at = "bringup" \/ Past(j)))
Busy(j)   == j.at \notin {"none", "done", "failed"}

\* A pair that one deploy began: what the deploy has done to it.
Held(j, p, gone) ==
  /\ p.made >= 1
  /\ p.made = 1 =>
       /\ j.at # "dumping" => p.db.is = "whole"
       /\ j.at \in {"dumping", "archive"} => p.media.is = "none"
       /\ j.at = "archiving" => p.media.is = "partial" /\ p.db.media \subseteq j.seen \cup gone
       /\ j.at = "bringup" \/ Past(j) => p.media.is = "whole"

\* Every pair: what its dump refers to is on the volume, unless somebody has
\* begun to delete it; and the archive has it too, once both are whole.
PairOK(p, volume, gone) ==
  /\ p.made = 0 => p.db.is = "none" /\ p.media.is = "none"
  /\ p.db.media \subseteq volume \cup gone
  /\ p.db.is = "whole" /\ p.media.is = "whole" /\ p.made = 1 =>
       p.db.media \ p.media.media \subseteq gone

\* A deploy that is alone: how far the directory and the stack are its own.
Mine(j, dir, running, p) ==
  /\ j.at = "sync" => \A f \in Files \ j.left : dir[f] = j.version
  /\ j.at \in {"dump", "dumping", "archive", "archiving", "bringup"} => dir = Tree(j.version)
  /\ Past(j) => running = Tree(j.version)
  /\ Opened(j) /\ p.made = 1 => p.of = IF Past(j) THEN j.over ELSE running

WikiOK == rows \subseteq files \cup deleted

PairsOK == \A s \in 0..MaxClock : PairOK(pairs[s], files, deleted)

HeldOK == \A d \in Deployers : Opened(job[d]) => Held(job[d], pairs[job[d].ts], deleted)

\* Two deploys whose snapshots are of one second began it twice.
TwiceMade ==
  \A d, e \in Deployers :
    d # e /\ Opened(job[d]) /\ Opened(job[e]) /\ job[d].ts = job[e].ts =>
      pairs[job[d].ts].made >= 2

AloneOK ==
  \A d \in Deployers : job[d].alone /\ job[d].at # "none" =>
    /\ \A e \in Deployers \ {d} : ~Busy(job[e])
    /\ Mine(job[d], tree, stack, pairs[job[d].ts])

DeployInv == Types /\ WikiOK /\ PairsOK /\ HeldOK /\ TwiceMade /\ AloneOK

-----------------------------------------------------------------------------
(* A step of one deploy                                                    *)

\* What a step of a busy deploy must do to its own job, to the pair of its second
\* and to the tree and the stack for the invariant to be preserved: the deploys
\* that are not busy are not alone any more, and those that began the same pair
\* have no claim to it.
LEMMA JobStep ==
  ASSUME DeployInv, NEW d \in Deployers, Busy(job[d]), NEW k \in JobType, NEW p \in PairType,
         job' = [job EXCEPT ![d] = k], pairs' = [pairs EXCEPT ![k.ts] = p],
         UNCHANGED <<rows, files, deleted, clock>>,
         tree' \in Trees, stack' \in Trees,
         PairOK(p, files, deleted),
         Opened(k) => Held(k, p, deleted),
         \/ p = pairs[k.ts] /\ (Opened(k) => Opened(job[d]) /\ job[d].ts = k.ts)
         \/ p.made = pairs[k.ts].made /\ Opened(job[d]) /\ job[d].ts = k.ts
         \/ p.made = pairs[k.ts].made + 1,
         k.alone => job[d].alone /\ Mine(k, tree', stack', p)
  PROVE  DeployInv'
<1>1. /\ job \in [Deployers -> JobType] /\ pairs \in [0..MaxClock -> PairType]
      /\ k.ts \in 0..MaxClock /\ clock \in 0..MaxClock
  BY DEF DeployInv, Types, JobType
<1>2. /\ job'[d] = k /\ job' \in [Deployers -> JobType]
      /\ \A e \in Deployers \ {d} : job'[e] = job[e]
  BY <1>1
<1>3. /\ pairs'[k.ts] = p /\ pairs' \in [0..MaxClock -> PairType]
      /\ \A s \in 0..MaxClock \ {k.ts} : pairs'[s] = pairs[s]
  BY <1>1
<1>4. p.made \in Nat /\ pairs[k.ts].made \in Nat
  BY <1>1 DEF PairType
<1>5. \A e \in Deployers : job[e].ts \in 0..MaxClock
  BY <1>1 DEF JobType
<1>6. p.made >= pairs[k.ts].made
  BY <1>4
\* Whoever else began the pair has made it shared.
<1>7. ASSUME NEW e \in Deployers \ {d}, Opened(job[e]), job[e].ts = k.ts, p # pairs[k.ts]
      PROVE  p.made >= 2
  <2>1. pairs[k.ts].made >= 1
    BY <1>7 DEF DeployInv, HeldOK, Held
  <2>2. CASE p.made = pairs[k.ts].made /\ Opened(job[d]) /\ job[d].ts = k.ts
    BY <1>7, <2>2 DEF DeployInv, TwiceMade
  <2>3. CASE p.made = pairs[k.ts].made + 1
    BY <1>4, <2>1, <2>3
  <2> QED BY <1>7, <2>2, <2>3
<1>8. Types'
  BY <1>1, <1>2, <1>3 DEF DeployInv, Types
<1>9. WikiOK'
  BY DEF DeployInv, WikiOK
<1>10. PairsOK'
  <2> SUFFICES ASSUME NEW s \in 0..MaxClock
               PROVE  PairOK(pairs'[s], files, deleted)
    BY DEF PairsOK
  <2> QED BY <1>3 DEF DeployInv, PairsOK
<1>11. HeldOK'
  <2> SUFFICES ASSUME NEW e \in Deployers, Opened(job'[e])
               PROVE  Held(job'[e], pairs'[job'[e].ts], deleted)
    BY DEF HeldOK
  <2>1. CASE e = d
    BY <1>2, <1>3, <2>1
  <2>2. CASE e # d
    <3>1. job'[e] = job[e] /\ Opened(job[e]) /\ Held(job[e], pairs[job[e].ts], deleted)
      BY <1>2, <2>2 DEF DeployInv, HeldOK
    <3>2. CASE pairs'[job[e].ts] = pairs[job[e].ts]
      BY <3>1, <3>2
    <3>3. CASE pairs'[job[e].ts] # pairs[job[e].ts]
      <4>1. job[e].ts = k.ts /\ p # pairs[k.ts]
        BY <1>3, <1>5, <3>3
      <4>2. p.made >= 2
        BY <1>7, <2>2, <3>1, <4>1
      <4> QED BY <1>3, <1>4, <3>1, <4>1, <4>2 DEF Held
    <3> QED BY <3>2, <3>3
  <2> QED BY <2>1, <2>2
<1>12. TwiceMade'
  <2>1. ASSUME NEW e \in Deployers \ {d}, Opened(k), Opened(job[e]), job[e].ts = k.ts
        PROVE  p.made >= 2
    <3>1. CASE p # pairs[k.ts]
      BY <1>7, <2>1, <3>1
    <3>2. CASE p = pairs[k.ts]
      <4>1. Opened(job[d]) /\ job[d].ts = k.ts
        BY <1>4, <2>1, <3>2
      <4> QED BY <2>1, <3>2, <4>1 DEF DeployInv, TwiceMade
    <3> QED BY <3>1, <3>2
  <2>2. ASSUME NEW e \in Deployers \ {d}, NEW c \in Deployers \ {d}, e # c,
               Opened(job[e]), Opened(job[c]), job[e].ts = job[c].ts
        PROVE  pairs'[job[e].ts].made >= 2
    <3>1. pairs[job[e].ts].made >= 2
      BY <2>2 DEF DeployInv, TwiceMade
    <3> QED BY <1>3, <1>4, <1>5, <1>6, <3>1
  <2> SUFFICES ASSUME NEW e \in Deployers, NEW c \in Deployers, e # c, Opened(job'[e]),
                      Opened(job'[c]), job'[e].ts = job'[c].ts
               PROVE  pairs'[job'[e].ts].made >= 2
    BY DEF TwiceMade
  <2>3. CASE e = d
    BY <1>2, <1>3, <2>1, <2>3
  <2>4. CASE c = d
    BY <1>2, <1>3, <2>1, <2>4
  <2>5. CASE e # d /\ c # d
    BY <1>2, <2>2, <2>5
  <2> QED BY <2>3, <2>4, <2>5
<1>13. AloneOK'
  <2> SUFFICES ASSUME NEW e \in Deployers, job'[e].alone, job'[e].at # "none"
               PROVE  /\ \A o \in Deployers \ {e} : ~Busy(job'[o])
                      /\ Mine(job'[e], tree', stack', pairs'[job'[e].ts])
    BY DEF AloneOK
  <2>1. CASE e = d
    <3>1. job[d].alone /\ job[d].at # "none"
      BY <1>2, <2>1 DEF Busy
    <3>2. \A o \in Deployers \ {d} : ~Busy(job[o])
      BY <3>1 DEF DeployInv, AloneOK
    <3> QED BY <1>2, <1>3, <2>1, <3>2
  <2>2. CASE e # d
    <3>1. job[e].alone /\ job[e].at # "none"
      BY <1>2, <2>2
    <3>2. ~Busy(job[d])
      BY <2>2, <3>1 DEF DeployInv, AloneOK
    <3> QED BY <3>2
  <2> QED BY <2>1, <2>2
<1> QED BY <1>8, <1>9, <1>10, <1>11, <1>12, <1>13 DEF DeployInv

\* The same of a step that leaves the pairs alone.
LEMMA QuietStep ==
  ASSUME DeployInv, NEW d \in Deployers, Busy(job[d]), NEW k \in JobType,
         job' = [job EXCEPT ![d] = k], UNCHANGED <<pairs, rows, files, deleted, clock>>,
         tree' \in Trees, stack' \in Trees, k.ts = job[d].ts,
         Opened(k) => Opened(job[d]) /\ Held(k, pairs[k.ts], deleted),
         k.alone => job[d].alone /\ Mine(k, tree', stack', pairs[k.ts])
  PROVE  DeployInv'
<1>1. /\ pairs \in [0..MaxClock -> PairType] /\ k.ts \in 0..MaxClock
      /\ pairs[k.ts] \in PairType
  BY DEF DeployInv, Types, JobType
<1>2. pairs' = [pairs EXCEPT ![k.ts] = pairs[k.ts]]
  BY <1>1
<1>3. PairOK(pairs[k.ts], files, deleted)
  BY <1>1 DEF DeployInv, PairsOK
<1> QED BY <1>1, <1>2, <1>3, JobStep

-----------------------------------------------------------------------------
(* The snapshot                                                            *)

\* What snapshot.sh does to the pair as it begins the dump.
LEMMA DumpOpens ==
  ASSUME Types, NEW d \in Deployers, OpenPart(d, First)
  PROVE  /\ pairs' = [pairs EXCEPT ![clock] =
                        [db |-> [is |-> "partial", media |-> rows], media |-> pairs[clock].media,
                         of |-> stack, made |-> pairs[clock].made + 1]]
         /\ job' = [job EXCEPT ![d] = [job[d] EXCEPT !.ts = clock, !.seen = {},
                                                     !.at = "dumping"]]
<1>1. /\ pairs \in [0..MaxClock -> PairType] /\ clock \in 0..MaxClock
      /\ job \in [Deployers -> JobType] /\ pairs[clock] \in PairType
  BY DEF Types
<1>2. First = "db"
  BY DEF First
<1> DEFINE db == [is |-> "partial", media |-> rows]
           Db(s)   == [s EXCEPT ![clock].db = db]
           Of(s)   == [s EXCEPT ![clock].of = stack]
           Made(s) == [s EXCEPT ![clock].made = @ + 1]
           p1 == [pairs[clock] EXCEPT !.db = db]
           p2 == [p1 EXCEPT !.of = stack]
           p3 == [p2 EXCEPT !.made = @ + 1]
           With(p) == [pairs EXCEPT ![clock] = p]
<1>3. pairs' = Made(Of(Db(pairs)))
  BY <1>1, <1>2 DEF OpenPart
<1>4. p3 = [db |-> db, media |-> pairs[clock].media, of |-> stack,
            made |-> pairs[clock].made + 1]
  <2> DEFINE c == pairs[clock]
  <2>1. p1 = [db |-> db, media |-> c.media, of |-> c.of, made |-> c.made]
    BY <1>1 DEF PairType
  <2> HIDE DEF p1
  <2>2. p2 = [db |-> db, media |-> c.media, of |-> stack, made |-> c.made]
    BY <2>1
  <2> HIDE DEF p2
  <2> QED BY <2>2
<1>5. Db(pairs) = With(p1)
  OBVIOUS
<1> HIDE DEF p1, p2, p3, Db, Of, Made
<1>6. ASSUME NEW p, NEW q
      PROVE  With(p)[clock] = p /\ [With(p) EXCEPT ![clock] = q] = With(q)
  BY <1>1
<1> HIDE DEF With
<1>7. Of(With(p1)) = With(p2)
  <2>1. Of(With(p1)) = [With(p1) EXCEPT ![clock] = [With(p1)[clock] EXCEPT !.of = stack]]
    BY DEF Of
  <2> QED BY <2>1, <1>6 DEF p2
<1>8. Made(With(p2)) = With(p3)
  <2>1. Made(With(p2)) = [With(p2) EXCEPT ![clock] = [With(p2)[clock] EXCEPT !.made = @ + 1]]
    BY DEF Made
  <2>2. p3 = [p2 EXCEPT !.made = @ + 1]
    BY DEF p3
  <2>3. With(p2)[clock] = p2 /\ [With(p2) EXCEPT ![clock] = p3] = With(p3)
    BY <1>6
  <2> QED BY <2>1, <2>2, <2>3
<1>9. pairs' = With(p3)
  BY <1>3, <1>5, <1>7, <1>8
<1>10. job' = [job EXCEPT ![d] = [job[d] EXCEPT !.ts = clock, !.seen = {}, !.at = "dumping"]]
  BY <1>1, <1>2 DEF OpenPart
<1> QED BY <1>4, <1>9, <1>10 DEF With

\* The dump begins: the pair is as new, or it is shared from now on.
LEMMA DumpStep ==
  ASSUME DeployInv, NEW d \in Deployers, At(d, "dump"), OpenPart(d, First),
         UNCHANGED <<tree, stack, wiki, clock, deploys, role>>
  PROVE  DeployInv'
<1> DEFINE j == job[d]
           k == [j EXCEPT !.ts = clock, !.seen = {}, !.at = "dumping"]
           p == [db |-> [is |-> "partial", media |-> rows], media |-> pairs[clock].media,
                 of |-> stack, made |-> pairs[clock].made + 1]
<1>1. /\ job \in [Deployers -> JobType] /\ j \in JobType /\ j.at = "dump"
      /\ pairs \in [0..MaxClock -> PairType] /\ clock \in 0..MaxClock
      /\ pairs[clock] \in PairType /\ tree \in Trees /\ stack \in Trees
      /\ rows \subseteq Media
  BY DEF DeployInv, Types, At
<1>2. pairs' = [pairs EXCEPT ![clock] = p] /\ job' = [job EXCEPT ![d] = k]
  BY DumpOpens DEF DeployInv
<1>3. /\ k \in JobType /\ k.at = "dumping" /\ k.ts = clock /\ k.alone = j.alone
      /\ k.skip = j.skip /\ k.version = j.version
  BY <1>1 DEF JobType, Stages
<1>4. p \in PairType /\ p.made = pairs[clock].made + 1 /\ p.media = pairs[clock].media
      /\ p.db.media = rows /\ p.db.is = "partial" /\ p.of = stack
  BY <1>1 DEF PairType, PartType
<1>5. pairs[clock].made \in Nat
  BY <1>1 DEF PairType
<1>6. Busy(j) /\ j.at # "regenerate"
  BY <1>1 DEF Busy
<1> HIDE DEF k, p, j
<1>7. PairOK(p, files, deleted)
  BY <1>4, <1>5 DEF PairOK, DeployInv, WikiOK
<1>8. Held(k, p, deleted)
  <2>1. p.made = 1 => p.media.is = "none"
    BY <1>1, <1>4, <1>5 DEF DeployInv, PairsOK, PairOK
  <2> QED BY <1>3, <1>4, <1>5, <2>1 DEF Held, Past
<1>9. k.alone => Mine(k, tree, stack, p)
  <2>1. k.alone => Mine(j, tree, stack, pairs[j.ts])
    BY <1>1, <1>3 DEF DeployInv, AloneOK, j
  <2> QED BY <1>1, <1>3, <1>4, <2>1 DEF Mine, Past
<1> QED BY <1>1, <1>2, <1>3, <1>4, <1>6, <1>7, <1>8, <1>9, JobStep DEF wiki, j

\* A snapshot's later steps write into its own pair.
LEMMA OwnPairStep ==
  ASSUME DeployInv, NEW d \in Deployers, NEW k \in JobType, NEW p \in PairType,
         job[d].at \in {"dumping", "archive", "archiving"},
         job' = [job EXCEPT ![d] = k], pairs' = [pairs EXCEPT ![job[d].ts] = p],
         UNCHANGED <<tree, stack, wiki, clock, deploys, role>>,
         k.ts = job[d].ts, k.alone = job[d].alone, k.version = job[d].version,
         k.at \in {"archive", "archiving", "bringup"},
         p.made = pairs[k.ts].made, p.of = pairs[k.ts].of,
         PairOK(p, files, deleted), Held(k, p, deleted)
  PROVE  DeployInv'
<1>1. tree \in Trees /\ stack \in Trees
  BY DEF DeployInv, Types
<1>2. k.alone => Mine(k, tree, stack, p)
  <2>1. k.alone => Mine(job[d], tree, stack, pairs[job[d].ts])
    BY DEF DeployInv, AloneOK
  <2> QED BY <2>1 DEF Mine, Past, Opened
<1>3. Busy(job[d]) /\ Opened(job[d])
  BY DEF Busy, Opened
<1> QED BY <1>1, <1>2, <1>3, JobStep DEF wiki

\* The dump is complete: the archive comes next.
LEMMA DumpedStep ==
  ASSUME DeployInv, NEW d \in Deployers, At(d, "dumping"), ClosePart(d, First),
         UNCHANGED <<tree, stack, wiki, clock, deploys, role>>
  PROVE  DeployInv'
<1> DEFINE j == job[d]
           c == pairs[j.ts]
           whole == [is |-> "whole", media |-> c.db.media]
           k == [j EXCEPT !.at = "archive", !.seen = {}]
           p == [c EXCEPT !.db = whole]
<1>1. /\ job \in [Deployers -> JobType] /\ j \in JobType /\ j.at = "dumping"
      /\ pairs \in [0..MaxClock -> PairType] /\ j.ts \in 0..MaxClock /\ c \in PairType
  BY DEF DeployInv, Types, At, JobType
<1>2. First = "db"
  BY DEF First
<1>3. pairs' = [pairs EXCEPT ![j.ts].db = whole] /\ job' = [job EXCEPT ![d] = k]
  BY <1>1, <1>2 DEF ClosePart
<1>4. pairs' = [pairs EXCEPT ![j.ts] = p]
  BY <1>3
<1>5. whole \in PartType
  BY <1>1 DEF PairType, PartType
<1>6. /\ p \in PairType /\ p.db = whole /\ p.media = c.media /\ p.of = c.of
      /\ p.made = c.made
  BY <1>1, <1>5 DEF PairType
<1>7. /\ k \in JobType /\ k.at = "archive" /\ k.ts = j.ts /\ k.alone = j.alone
      /\ k.version = j.version
  BY <1>1 DEF JobType, Stages
<1>8. Held(j, c, deleted) /\ PairOK(c, files, deleted)
  BY <1>1 DEF DeployInv, HeldOK, Opened, PairsOK
<1>9. c.made \in Nat
  BY <1>1 DEF PairType
<1> HIDE DEF p, k
<1>10. Held(k, p, deleted) /\ PairOK(p, files, deleted)
  BY <1>1, <1>6, <1>7, <1>8, <1>9 DEF Held, PairOK, Past
<1> QED BY <1>1, <1>3, <1>4, <1>6, <1>7, <1>10, OwnPairStep

\* What snapshot.sh does to the pair as it begins the archive.
LEMMA ArchiveOpens ==
  ASSUME Types, NEW d \in Deployers, OpenPart(d, Second)
  PROVE  /\ pairs' = [pairs EXCEPT ![job[d].ts] =
                        [pairs[job[d].ts] EXCEPT !.media = [is |-> "partial", media |-> {}]]]
         /\ job' = [job EXCEPT ![d] = [job[d] EXCEPT !.seen = files, !.at = "archiving"]]
<1> DEFINE ts == job[d].ts
<1>1. /\ pairs \in [0..MaxClock -> PairType] /\ ts \in 0..MaxClock
      /\ job \in [Deployers -> JobType] /\ job[d] \in JobType /\ pairs[ts] \in PairType
  BY DEF Types, JobType
<1>2. First = "db" /\ Second = "media"
  BY DEF First, Second
<1> DEFINE part == [is |-> "partial", media |-> {}]
           p == [pairs[ts] EXCEPT !.media = part]
           Media1(s) == [s EXCEPT ![ts].media = part]
           Of(s)     == [s EXCEPT ![ts].of = pairs[ts].of]
           Made(s)   == [s EXCEPT ![ts].made = pairs[ts].made]
           With(q) == [pairs EXCEPT ![ts] = q]
<1> HIDE DEF ts, part
<1>3. pairs' = Made(Of(Media1(pairs)))
  BY <1>1, <1>2 DEF OpenPart, ts, part
<1>4. Media1(pairs) = With(p)
  OBVIOUS
<1>5. With(p)[ts] = p /\ With(p) \in [0..MaxClock -> PairType \cup {p}]
  BY <1>1
<1>6. p = [db |-> pairs[ts].db, media |-> part, of |-> pairs[ts].of, made |-> pairs[ts].made]
  BY <1>1 DEF PairType
<1> HIDE DEF p, With, Media1
<1>7. Of(With(p)) = With(p)
  <2>1. [p EXCEPT !.of = pairs[ts].of] = p
    BY <1>6
  <2>2. Of(With(p)) = [With(p) EXCEPT ![ts] = [With(p)[ts] EXCEPT !.of = pairs[ts].of]]
    OBVIOUS
  <2> QED BY <1>1, <1>5, <2>1, <2>2
<1>8. Made(With(p)) = With(p)
  <2>1. [p EXCEPT !.made = pairs[ts].made] = p
    BY <1>6
  <2>2. Made(With(p)) = [With(p) EXCEPT ![ts] = [With(p)[ts] EXCEPT !.made = pairs[ts].made]]
    OBVIOUS
  <2> QED BY <1>1, <1>5, <2>1, <2>2
<1> HIDE DEF Of, Made
<1>9. pairs' = With(p)
  BY <1>3, <1>4, <1>7, <1>8
<1>10. job' = [job EXCEPT ![d] = [job[d] EXCEPT !.seen = files, !.at = "archiving"]]
  <2>1. job' = [job EXCEPT ![d].ts = job[d].ts, ![d].seen = files, ![d].at = "archiving"]
    BY <1>2 DEF OpenPart
  <2>2. [job[d] EXCEPT !.ts = job[d].ts, !.seen = files, !.at = "archiving"]
          = [job[d] EXCEPT !.seen = files, !.at = "archiving"]
    BY <1>1 DEF JobType
  <2>3. job' = [job EXCEPT ![d] = [job[d] EXCEPT !.ts = job[d].ts, !.seen = files,
                                                 !.at = "archiving"]]
    BY <1>1, <2>1
  <2> QED BY <2>2, <2>3
<1> QED BY <1>9, <1>10 DEF With, p, ts, part

\* The archive begins: everything the dump refers to is there to be seen, but for
\* what somebody has begun to delete.
LEMMA ArchiveStep ==
  ASSUME DeployInv, NEW d \in Deployers, At(d, "archive"), OpenPart(d, Second),
         UNCHANGED <<tree, stack, wiki, clock, deploys, role>>
  PROVE  DeployInv'
<1> DEFINE j == job[d]
           c == pairs[j.ts]
           part == [is |-> "partial", media |-> {}]
           k == [j EXCEPT !.seen = files, !.at = "archiving"]
           p == [c EXCEPT !.media = part]
<1>1. /\ job \in [Deployers -> JobType] /\ j \in JobType /\ j.at = "archive"
      /\ pairs \in [0..MaxClock -> PairType] /\ j.ts \in 0..MaxClock /\ c \in PairType
      /\ files \subseteq Media
  BY DEF DeployInv, Types, At, JobType
<1>2. pairs' = [pairs EXCEPT ![j.ts] = p] /\ job' = [job EXCEPT ![d] = k]
  BY ArchiveOpens DEF DeployInv
<1>3. part \in PartType
  BY DEF PartType
<1>4. /\ p \in PairType /\ p.db = c.db /\ p.media = part /\ p.of = c.of
      /\ p.made = c.made
  BY <1>1, <1>3 DEF PairType
<1>5. /\ k \in JobType /\ k.at = "archiving" /\ k.ts = j.ts /\ k.alone = j.alone
      /\ k.version = j.version /\ k.seen = files
  BY <1>1 DEF JobType, Stages
<1>6. Held(j, c, deleted) /\ PairOK(c, files, deleted)
  BY <1>1 DEF DeployInv, HeldOK, Opened, PairsOK
<1>7. c.made \in Nat
  BY <1>1 DEF PairType
<1> HIDE DEF p, k
<1>8. Held(k, p, deleted) /\ PairOK(p, files, deleted)
  BY <1>1, <1>4, <1>5, <1>6, <1>7 DEF Held, PairOK, Past
<1> QED BY <1>1, <1>2, <1>4, <1>5, <1>8, OwnPairStep

\* The archive is complete: it has what it has seen and what is still there.
LEMMA ArchivedStep ==
  ASSUME DeployInv, NEW d \in Deployers, At(d, "archiving"),
         ClosePart(d, Second), UNCHANGED <<tree, stack, wiki, clock, deploys, role>>
  PROVE  DeployInv'
<1> DEFINE j == job[d]
           c == pairs[j.ts]
           k == [j EXCEPT !.at = "bringup", !.seen = {}]
<1>1. /\ job \in [Deployers -> JobType] /\ j \in JobType /\ j.at = "archiving"
      /\ pairs \in [0..MaxClock -> PairType] /\ j.ts \in 0..MaxClock /\ c \in PairType
      /\ files \subseteq Media /\ j.seen \subseteq Media
  BY DEF DeployInv, Types, At, JobType
<1>2. First = "db" /\ Second = "media"
  BY DEF First, Second
<1>3. PICK some \in SUBSET ((j.seen \ files) \cup (files \ j.seen)) :
        /\ pairs' = [pairs EXCEPT ![j.ts].media =
                       [is |-> "whole", media |-> (j.seen \cap files) \cup some]]
        /\ job' = [job EXCEPT ![d] = k]
  BY <1>1, <1>2 DEF ClosePart
<1> DEFINE part == [is |-> "whole", media |-> (j.seen \cap files) \cup some]
           p == [c EXCEPT !.media = part]
<1>4. pairs' = [pairs EXCEPT ![j.ts] = p]
  BY <1>3
<1>5. part \in PartType
  BY <1>1 DEF PartType
<1>6. /\ p \in PairType /\ p.db = c.db /\ p.media = part /\ p.of = c.of
      /\ p.made = c.made
  BY <1>1, <1>5 DEF PairType
<1>7. /\ k \in JobType /\ k.at = "bringup" /\ k.ts = j.ts /\ k.alone = j.alone
      /\ k.version = j.version
  BY <1>1 DEF JobType, Stages
<1>8. Held(j, c, deleted) /\ PairOK(c, files, deleted)
  BY <1>1 DEF DeployInv, HeldOK, Opened, PairsOK
<1>9. c.made \in Nat
  BY <1>1 DEF PairType
<1> HIDE DEF p, k
<1>10. c.made = 1 => c.db.media \ part.media \subseteq deleted
  BY <1>1, <1>8 DEF Held, PairOK
<1>11. Held(k, p, deleted) /\ PairOK(p, files, deleted)
  BY <1>1, <1>6, <1>7, <1>8, <1>9, <1>10 DEF Held, PairOK, Past
<1> QED BY <1>1, <1>3, <1>4, <1>6, <1>7, <1>11, OwnPairStep

\* Every step of a snapshot preserves the invariant.
LEMMA SnapshotStep ==
  ASSUME DeployInv, NEW d \in Deployers, Snapshot(d)
  PROVE  DeployInv'
BY DumpStep, DumpedStep, ArchiveStep, ArchivedStep DEF Snapshot

-----------------------------------------------------------------------------
(* The other steps of a deploy                                             *)

\* What the invariant says of a deploy that is busy.
LEMMA BusyFacts ==
  ASSUME DeployInv, NEW d \in Deployers
  PROVE  /\ job \in [Deployers -> JobType] /\ job[d] \in JobType
         /\ tree \in Trees /\ stack \in Trees
         /\ pairs \in [0..MaxClock -> PairType] /\ job[d].ts \in 0..MaxClock
         /\ Opened(job[d]) => Held(job[d], pairs[job[d].ts], deleted)
         /\ job[d].alone /\ job[d].at # "none" =>
              Mine(job[d], tree, stack, pairs[job[d].ts])
  BY DEF DeployInv, Types, JobType, HeldOK, AloneOK

\* Mirroring preserves the invariant.
LEMMA SyncFileStep ==
  ASSUME DeployInv, NEW d \in Deployers, NEW f \in Files, SyncFile(d, f)
  PROVE  DeployInv'
<1> DEFINE j == job[d]
           k == [j EXCEPT !.left = @ \ {f}]
<1>1. /\ j.at = "sync" /\ tree' = [tree EXCEPT ![f] = j.version] /\ job' = [job EXCEPT ![d] = k]
      /\ UNCHANGED <<stack, wiki, pairs, clock, deploys, role>>
  BY BusyFacts DEF SyncFile, At
<1>2. k \in JobType /\ k.at = "sync" /\ k.ts = j.ts /\ k.alone = j.alone
      /\ k.version = j.version /\ k.left = j.left \ {f}
  BY <1>1, BusyFacts DEF JobType
<1>3. tree' \in Trees
  BY <1>1, BusyFacts DEF JobType, Trees
<1> HIDE DEF k
<1>4. ~Opened(k) /\ Busy(j) /\ j.at # "regenerate"
  BY <1>1, <1>2 DEF Opened, Past, Busy
<1>5. k.alone => Mine(k, tree', stack', pairs[k.ts])
  <2>1. k.alone => \A g \in Files \ j.left : tree[g] = j.version
    BY <1>1, <1>2, BusyFacts DEF Mine
  <2>2. k.alone => \A g \in Files \ k.left : tree'[g] = k.version
    BY <1>1, <1>2, <2>1, BusyFacts DEF Trees
  <2> QED BY <1>2, <1>4, <2>2 DEF Mine, Past
<1> QED BY <1>1, <1>2, <1>3, <1>4, <1>5, BusyFacts, QuietStep DEF wiki

\* The end of mirroring preserves the invariant: the tree is all of one version,
\* if nobody else wrote into it.
LEMMA SyncDoneStep ==
  ASSUME DeployInv, NEW d \in Deployers, SyncDone(d)
  PROVE  DeployInv'
<1> DEFINE j == job[d]
           k == [j EXCEPT !.at = IF j.skip THEN "bringup" ELSE "dump"]
<1>1. /\ j.at = "sync" /\ j.left = {} /\ job' = [job EXCEPT ![d] = k]
      /\ UNCHANGED <<tree, stack, wiki, pairs, clock, deploys, role>>
  BY BusyFacts DEF SyncDone, Synced, At
<1>2. k \in JobType /\ k.ts = j.ts /\ k.alone = j.alone /\ k.skip = j.skip
      /\ k.version = j.version
      /\ k.at = IF j.skip THEN "bringup" ELSE "dump"
  BY <1>1, BusyFacts DEF JobType, Stages
<1> HIDE DEF k
<1>3. ~Opened(k) /\ ~Past(k) /\ Busy(j) /\ j.at # "regenerate"
  BY <1>1, <1>2 DEF Opened, Past, Busy
<1>4. k.alone => Mine(k, tree', stack', pairs[k.ts])
  <2>1. k.alone => \A g \in Files : tree[g] = j.version
    BY <1>1, <1>2, BusyFacts DEF Mine
  <2>2. k.alone => tree = Tree(k.version)
    BY <1>2, <2>1, BusyFacts DEF Trees, Tree
  <2> QED BY <1>1, <1>2, <1>3, <2>2 DEF Mine
<1> QED BY <1>1, <1>2, <1>3, <1>4, BusyFacts, QuietStep DEF wiki

\* Bringing up preserves the invariant: the stack is made from the tree, and the
\* pair is of the stack that it replaces.
LEMMA BringUpStep ==
  ASSUME DeployInv, NEW d \in Deployers, BringUp(d)
  PROVE  DeployInv'
<1> DEFINE j == job[d]
           k == [j EXCEPT !.at = "role", !.over = stack]
<1>1. /\ j.at = "bringup" /\ stack' = tree /\ job' = [job EXCEPT ![d] = k]
      /\ UNCHANGED <<tree, wiki, pairs, clock, deploys, role>>
  BY BusyFacts DEF BringUp, At
<1>2. k \in JobType /\ k.ts = j.ts /\ k.alone = j.alone /\ k.skip = j.skip
      /\ k.version = j.version /\ k.over = stack /\ k.at = "role"
  BY <1>1, BusyFacts DEF JobType, Stages
<1> HIDE DEF k
<1>3. Past(k) /\ ~Past(j) /\ Busy(j) /\ j.at # "regenerate" /\ (Opened(k) => Opened(j))
  BY <1>1, <1>2 DEF Opened, Past, Busy
<1>4. k.alone => Mine(k, tree', stack', pairs[k.ts])
  <2>1. k.alone => Mine(j, tree, stack, pairs[j.ts])
    BY <1>1, <1>2, BusyFacts
  <2> QED BY <1>1, <1>2, <1>3, <2>1 DEF Mine
<1>5. Opened(k) => Held(k, pairs[k.ts], deleted)
  BY <1>1, <1>2, <1>3, BusyFacts DEF Held
<1> QED BY <1>1, <1>2, <1>3, <1>4, <1>5, BusyFacts, QuietStep DEF wiki

\* After the stack is up, a deploy no longer touches it, nor its pair.
LEMMA LateStep ==
  ASSUME DeployInv, NEW d \in Deployers, job[d].at \in {"role", "regenerate", "verify"},
         NEW k \in JobType, job' = [job EXCEPT ![d] = k],
         k.at \in {"regenerate", "verify", "done"}, k.ts = job[d].ts,
         k.alone = job[d].alone, k.skip = job[d].skip, k.version = job[d].version,
         k.over = job[d].over,
         UNCHANGED <<tree, stack, wiki, pairs, clock>>
  PROVE  DeployInv'
<1>1. Past(k) /\ Past(job[d]) /\ Busy(job[d]) /\ (Opened(k) => Opened(job[d]))
  BY DEF Opened, Past, Busy
<1>2. k.alone => Mine(k, tree', stack', pairs[k.ts])
  <2>1. k.alone => Mine(job[d], tree, stack, pairs[job[d].ts])
    BY BusyFacts
  <2> QED BY <1>1, <2>1 DEF Mine
<1>3. Opened(k) => Held(k, pairs[k.ts], deleted)
  BY <1>1, BusyFacts DEF Held
<1> QED BY <1>1, <1>2, <1>3, BusyFacts, QuietStep DEF wiki

\* Whatever a deploy does about the role preserves the invariant, and so does its
\* end.
LEMMA RoleStep ==
  ASSUME DeployInv, NEW d \in Deployers,
         Converge(d) \/ ConvergeFails(d) \/ Regenerate(d) \/ Verify(d)
  PROVE  DeployInv'
<1> DEFINE j == job[d]
<1>1. PICK at \in {"regenerate", "verify", "done"}, healed \in BOOLEAN :
        job' = [job EXCEPT ![d] = [j EXCEPT !.at = at, !.healed = healed]]
  <2>1. CASE Converge(d)
    <3> DEFINE at == IF pivot = Want THEN "verify" ELSE "regenerate"
    <3>1. at \in {"verify", "regenerate"}
      OBVIOUS
    <3>2. job' = [job EXCEPT ![d] = [j EXCEPT !.at = at, !.healed = TRUE]]
      BY <2>1, BusyFacts DEF Converge
    <3> HIDE DEF at
    <3> QED BY <3>1, <3>2
  <2>2. CASE ConvergeFails(d) \/ Regenerate(d) \/ Verify(d)
    <3>1. PICK at \in {"verify", "done"} : job' = [job EXCEPT ![d].at = at]
      BY <2>2 DEF ConvergeFails, Regenerate, Verify
    <3>2. j.healed \in BOOLEAN /\ [j EXCEPT !.at = at, !.healed = j.healed] = [j EXCEPT !.at = at]
      BY BusyFacts DEF JobType
    <3>3. job' = [job EXCEPT ![d] = [j EXCEPT !.at = at, !.healed = j.healed]]
      BY <3>1, <3>2, BusyFacts
    <3> QED BY <3>1, <3>2, <3>3
  <2> QED BY <2>1, <2>2
<1> DEFINE k == [j EXCEPT !.at = at, !.healed = healed]
<1>2. /\ j.at \in {"role", "regenerate", "verify"} /\ job' = [job EXCEPT ![d] = k]
      /\ UNCHANGED <<tree, stack, wiki, pairs, clock>>
  BY <1>1 DEF Converge, ConvergeFails, Regenerate, Verify, At
<1>3. /\ k \in JobType /\ k.ts = j.ts /\ k.alone = j.alone /\ k.skip = j.skip
      /\ k.version = j.version /\ k.over = j.over /\ k.at = at
  BY <1>1, <1>2, BusyFacts DEF JobType, Stages
<1> HIDE DEF k
<1> QED BY <1>1, <1>2, <1>3, LateStep

\* A deploy that fails preserves the invariant, wherever it does.
LEMMA FailStep ==
  ASSUME DeployInv, NEW d \in Deployers, Fail(d)
  PROVE  DeployInv'
<1> DEFINE j == job[d]
           k == [j EXCEPT !.at = "failed"]
<1>1. /\ Busy(j) /\ job' = [job EXCEPT ![d] = k] /\ stack' \in {stack, tree}
      /\ UNCHANGED <<tree, wiki, pairs, clock>>
  BY BusyFacts DEF Fail, Active, Busy, At
<1>2. /\ k \in JobType /\ k.ts = j.ts /\ k.alone = j.alone /\ k.at = "failed"
  BY <1>1, BusyFacts DEF JobType, Stages
<1> HIDE DEF k
<1>3. ~Opened(k) /\ Mine(k, tree', stack', pairs[k.ts])
  BY <1>2 DEF Opened, Past, Mine
<1> QED BY <1>1, <1>2, <1>3, BusyFacts, QuietStep DEF wiki

\* The beginning of a deploy preserves the invariant: nobody is alone any more but
\* perhaps the one that begins.
LEMMA BeginStep ==
  ASSUME DeployInv, NEW d \in Deployers, Begin(d)
  PROVE  DeployInv'
<1>1. ~Busy(job[d]) /\ UNCHANGED <<tree, stack, wiki, pairs, clock, role>>
  BY DEF Begin, Active, Busy
<1>2. PICK v \in Versions, skip \in BOOLEAN :
        job' = [e \in Deployers |->
                  IF e = d THEN [NoJob EXCEPT !.at = "sync", !.version = v, !.left = Files,
                                              !.skip = skip,
                                              !.alone = \A o \in Deployers : ~Active(o)]
                  ELSE [job[e] EXCEPT !.alone = FALSE]]
  BY DEF Begin
<1>3. NoJob \in JobType
  BY DeployConfig DEF NoJob, JobType, Stages, Trees, Tree
<1> DEFINE alone == \A o \in Deployers : ~Active(o)
           k == [NoJob EXCEPT !.at = "sync", !.version = v, !.left = Files, !.skip = skip,
                              !.alone = alone]
<1>4. alone \in BOOLEAN /\ (alone => \A o \in Deployers : ~Busy(job[o]))
  BY DEF Active, Busy
<1> HIDE DEF alone
<1>5. /\ k \in JobType /\ k.at = "sync" /\ k.left = Files /\ k.alone = alone
  BY <1>3, <1>4 DEF JobType, Stages
<1>6. job' = [e \in Deployers |-> IF e = d THEN k ELSE [job[e] EXCEPT !.alone = FALSE]]
  BY <1>2 DEF alone
<1> HIDE DEF k
<1>7. job'[d] = k
  BY <1>6
<1>8. ASSUME NEW e \in Deployers \ {d}
      PROVE  /\ job'[e] \in JobType /\ job'[e].alone = FALSE
             /\ job'[e].at = job[e].at /\ job'[e].skip = job[e].skip
             /\ job'[e].ts = job[e].ts /\ job'[e].seen = job[e].seen
  <2>1. job'[e] = [job[e] EXCEPT !.alone = FALSE] /\ job[e] \in JobType
    BY <1>6 DEF DeployInv, Types
  <2> QED BY <2>1 DEF JobType
<1>9. ~Opened(k) /\ ~Past(k) /\ \A dir, running, p : Mine(k, dir, running, p)
  BY <1>5 DEF Opened, Past, Mine
<1>10. ASSUME NEW e \in Deployers \ {d}
       PROVE  /\ Opened(job'[e]) => Opened(job[e])
              /\ \A p, gone : Held(job[e], p, gone) => Held(job'[e], p, gone)
  <2>1. Opened(job'[e]) => Opened(job[e])
    BY <1>8 DEF Opened, Past
  <2>2. ASSUME NEW p, NEW gone, Held(job[e], p, gone)
        PROVE  Held(job'[e], p, gone)
    BY <1>8, <2>2 DEF Held, Past
  <2> QED BY <2>1, <2>2
<1>11. Types'
  <2>1. job' \in [Deployers -> JobType]
    BY <1>5, <1>6, <1>7, <1>8
  <2> QED BY <1>1, <2>1 DEF DeployInv, Types, wiki
<1>12. WikiOK' /\ PairsOK'
  BY <1>1 DEF DeployInv, WikiOK, PairsOK, wiki
<1>13. HeldOK'
  BY <1>1, <1>7, <1>8, <1>9, <1>10 DEF DeployInv, HeldOK, wiki
<1>14. TwiceMade'
  BY <1>1, <1>7, <1>8, <1>9, <1>10 DEF DeployInv, TwiceMade
<1>15. AloneOK'
  <2> SUFFICES ASSUME NEW e \in Deployers, job'[e].alone
               PROVE  /\ \A o \in Deployers \ {e} : ~Busy(job'[o])
                      /\ Mine(job'[e], tree', stack', pairs'[job'[e].ts])
    BY DEF AloneOK
  <2>1. e = d /\ alone
    BY <1>5, <1>7, <1>8
  <2>2. \A o \in Deployers \ {d} : ~Busy(job'[o])
    BY <1>4, <1>8, <2>1 DEF Busy
  <2> QED BY <1>7, <1>9, <2>1, <2>2
<1> QED BY <1>11, <1>12, <1>13, <1>14, <1>15 DEF DeployInv

-----------------------------------------------------------------------------
(* The users' steps, and the theorems                                      *)

\* What people upload and delete meanwhile preserves the invariant: what a dump
\* refers to is on the volume or its deletion has begun, now as before.
LEMMA UserStep ==
  ASSUME DeployInv, NEW m \in Media, Upload(m) \/ Refer(m) \/ DeleteFile(m) \/ DeleteRow(m)
  PROVE  DeployInv'
<1>1. /\ UNCHANGED <<tree, stack, pairs, clock, job, deploys, role>>
      /\ deleted \subseteq deleted' /\ files \cup deleted \subseteq files' \cup deleted'
      /\ rows' \subseteq files' \cup deleted'
      /\ rows' \subseteq Media /\ files' \subseteq Media /\ deleted' \subseteq Media
  <2>1. rows \subseteq files \cup deleted /\ rows \subseteq Media /\ files \subseteq Media
        /\ deleted \subseteq Media
    BY DEF DeployInv, WikiOK, Types
  <2>2. CASE Upload(m)
    BY <2>1, <2>2 DEF Upload
  <2>3. CASE Refer(m)
    BY <2>1, <2>3 DEF Refer
  <2>4. CASE DeleteFile(m)
    BY <2>1, <2>4 DEF DeleteFile
  <2>5. CASE DeleteRow(m)
    BY <2>1, <2>5 DEF DeleteRow
  <2> QED BY <2>2, <2>3, <2>4, <2>5
<1>2. Types' /\ WikiOK'
  BY <1>1 DEF DeployInv, Types, WikiOK
<1>3. PairsOK'
  <2> SUFFICES ASSUME NEW s \in 0..MaxClock PROVE PairOK(pairs[s], files', deleted')
    BY <1>1 DEF PairsOK
  <2>1. PairOK(pairs[s], files, deleted)
    BY DEF DeployInv, PairsOK
  <2> QED BY <1>1, <2>1 DEF PairOK
<1>4. HeldOK'
  <2> SUFFICES ASSUME NEW d \in Deployers, Opened(job[d])
               PROVE  Held(job[d], pairs[job[d].ts], deleted')
    BY <1>1 DEF HeldOK
  <2>1. Held(job[d], pairs[job[d].ts], deleted)
    BY DEF DeployInv, HeldOK
  <2> QED BY <1>1, <2>1 DEF Held
<1>5. TwiceMade' /\ AloneOK'
  BY <1>1 DEF DeployInv, TwiceMade, AloneOK
<1> QED BY <1>2, <1>3, <1>4, <1>5 DEF DeployInv

\* An edit of the role preserves the invariant: no deploy moves.
LEMMA EditRoleStep == DeployInv /\ EditRole => DeployInv'
<1> SUFFICES ASSUME DeployInv, EditRole PROVE DeployInv'
  OBVIOUS
<1>1. /\ UNCHANGED <<tree, stack, wiki, pairs, clock>>
      /\ job' = [d \in Deployers |-> [job[d] EXCEPT !.healed = FALSE]]
  BY DEF EditRole
<1>2. ASSUME NEW d \in Deployers
      PROVE  /\ job'[d] \in JobType
             /\ job'[d].at = job[d].at /\ job'[d].skip = job[d].skip
             /\ job'[d].ts = job[d].ts /\ job'[d].seen = job[d].seen
             /\ job'[d].alone = job[d].alone /\ job'[d].left = job[d].left
             /\ job'[d].version = job[d].version /\ job'[d].over = job[d].over
  <2>1. job'[d] = [job[d] EXCEPT !.healed = FALSE] /\ job[d] \in JobType
    BY <1>1 DEF DeployInv, Types
  <2> QED BY <2>1 DEF JobType
<1>3. ASSUME NEW d \in Deployers
      PROVE  /\ Opened(job'[d]) => Opened(job[d])
             /\ Busy(job'[d]) => Busy(job[d])
             /\ \A p, gone : Held(job[d], p, gone) => Held(job'[d], p, gone)
             /\ \A dir, up, p : Mine(job[d], dir, up, p) => Mine(job'[d], dir, up, p)
  <2>1. Opened(job'[d]) = Opened(job[d]) /\ (Busy(job'[d]) => Busy(job[d]))
    BY <1>2 DEF Opened, Past, Busy
  <2>2. ASSUME NEW p, NEW gone, Held(job[d], p, gone)
        PROVE  Held(job'[d], p, gone)
    BY <1>2, <2>2 DEF Held, Past
  <2>3. ASSUME NEW dir, NEW up, NEW p, Mine(job[d], dir, up, p)
        PROVE  Mine(job'[d], dir, up, p)
    BY <1>2, <2>1, <2>3 DEF Mine, Past
  <2> QED BY <2>1, <2>2, <2>3
<1>4. Types'
  <2>1. job' \in [Deployers -> JobType]
    BY <1>1, <1>2
  <2> QED BY <1>1, <2>1 DEF DeployInv, Types, wiki
<1>5. WikiOK' /\ PairsOK'
  BY <1>1 DEF DeployInv, WikiOK, PairsOK, wiki
<1>6. HeldOK' /\ TwiceMade'
  <2>1. /\ HeldOK /\ TwiceMade
        /\ pairs' = pairs /\ deleted' = deleted
    BY <1>1 DEF DeployInv, wiki
  <2>2. HeldOK'
    <3> SUFFICES ASSUME NEW d \in Deployers, Opened(job'[d])
                 PROVE  Held(job'[d], pairs[job'[d].ts], deleted)
      BY <2>1 DEF HeldOK
    <3>1. Opened(job[d]) /\ job'[d].ts = job[d].ts
      BY <1>2, <1>3
    <3>2. Held(job[d], pairs[job[d].ts], deleted)
      BY <2>1, <3>1 DEF HeldOK
    <3> QED BY <1>3, <3>1, <3>2
  <2>3. TwiceMade'
    <3> SUFFICES ASSUME NEW d \in Deployers, NEW e \in Deployers, d # e,
                        Opened(job'[d]), Opened(job'[e]), job'[d].ts = job'[e].ts
                 PROVE  pairs[job'[d].ts].made >= 2
      BY <2>1 DEF TwiceMade
    <3>1. Opened(job[d]) /\ job'[d].ts = job[d].ts
      BY <1>2, <1>3
    <3>2. Opened(job[e]) /\ job'[e].ts = job[e].ts
      BY <1>2, <1>3
    <3> QED BY <2>1, <3>1, <3>2 DEF TwiceMade
  <2> QED BY <2>2, <2>3
<1>7. AloneOK'
  <2>1. AloneOK /\ tree' = tree /\ stack' = stack /\ pairs' = pairs
    BY <1>1 DEF DeployInv
  <2> SUFFICES ASSUME NEW d \in Deployers, job'[d].alone, job'[d].at # "none"
               PROVE  /\ \A e \in Deployers \ {d} : ~Busy(job'[e])
                      /\ Mine(job'[d], tree, stack, pairs[job'[d].ts])
    BY <2>1 DEF AloneOK
  <2>2. job[d].alone /\ job[d].at # "none" /\ job'[d].ts = job[d].ts
    BY <1>2
  <2>3. /\ \A e \in Deployers \ {d} : ~Busy(job[e])
        /\ Mine(job[d], tree, stack, pairs[job[d].ts])
    BY <2>1, <2>2 DEF AloneOK
  <2>4. \A e \in Deployers \ {d} : ~Busy(job'[e])
    BY <1>3, <2>3
  <2>5. Mine(job'[d], tree, stack, pairs[job'[d].ts])
    BY <1>3, <2>2, <2>3
  <2> QED BY <2>4, <2>5
<1> QED BY <1>4, <1>5, <1>6, <1>7 DEF DeployInv

\* The invariant holds at first.
LEMMA InitInv == Init => DeployInv
<1> SUFFICES ASSUME Init PROVE DeployInv
  OBVIOUS
<1>1. Tree(Live) \in Trees
  BY DeployConfig DEF Tree, Trees
<1>2. NoPart \in PartType /\ NoPart.is = "none" /\ NoPart.media = {}
  BY DEF NoPart, PartType
<1>3. NoPair \in PairType /\ NoPair.db = NoPart /\ NoPair.media = NoPart /\ NoPair.made = 0
  BY <1>1, <1>2 DEF NoPair, PairType
<1>4. NoJob \in JobType /\ NoJob.at = "none"
  BY <1>1, DeployConfig DEF NoJob, JobType, Stages
<1>5. /\ \A s \in 0..MaxClock : pairs[s] = NoPair
      /\ \A d \in Deployers : job[d] = NoJob
      /\ pairs \in [0..MaxClock -> PairType] /\ job \in [Deployers -> JobType]
  BY <1>3, <1>4 DEF Init
<1>6. ~Opened(NoJob) /\ PairOK(NoPair, {}, {})
  BY <1>2, <1>3, <1>4 DEF Opened, Past, PairOK
<1>7. Types
  BY <1>1, <1>5, DeployConfig DEF Init, Types
<1>8. WikiOK /\ PairsOK
  BY <1>5, <1>6 DEF Init, WikiOK, PairsOK
<1>9. HeldOK /\ TwiceMade /\ AloneOK
  BY <1>4, <1>5, <1>6 DEF HeldOK, TwiceMade, AloneOK
<1> QED BY <1>7, <1>8, <1>9 DEF DeployInv

\* Every step preserves the invariant.
LEMMA NextInv == DeployInv /\ [Next]_vars => DeployInv'
<1> SUFFICES ASSUME DeployInv, [Next]_vars PROVE DeployInv'
  OBVIOUS
<1>1. ASSUME NEW d \in Deployers,
             \/ Begin(d) \/ SyncDone(d) \/ Snapshot(d) \/ BringUp(d)
             \/ Converge(d) \/ ConvergeFails(d) \/ Regenerate(d) \/ Verify(d) \/ Fail(d)
             \/ \E f \in Files : SyncFile(d, f)
      PROVE  DeployInv'
  BY <1>1, BeginStep, SyncDoneStep, SnapshotStep, BringUpStep, RoleStep, FailStep,
     SyncFileStep
<1>2. CASE Tick
  <2>1. /\ clock' \in 0..MaxClock
        /\ UNCHANGED <<tree, stack, wiki, pairs, job, deploys, role>>
    BY <1>2, DeployConfig DEF DeployInv, Types, Tick
  <2> QED BY <2>1 DEF DeployInv, Types, WikiOK, PairsOK, HeldOK, TwiceMade, AloneOK, wiki
<1>3. CASE UNCHANGED vars
  BY <1>3 DEF DeployInv, Types, WikiOK, PairsOK, HeldOK, TwiceMade, AloneOK,
              vars, wiki
<1> QED BY <1>1, <1>2, <1>3, UserStep, EditRoleStep DEF Next

\* The inductive invariant of the deploys: whose the pairs, the tree and the stack
\* are.
THEOREM DeployInvariance == Spec => []DeployInv
<1> QED BY InitInv, NextInv, PTL DEF Spec

\* deploy-remote.sh:8: a deploy that brought the stack up has a whole snapshot pair
\* of its own, and if it was alone, of the stack that it replaced.
THEOREM RollbackHolds == Spec => []RollbackPoint
<1>1. DeployInv => RollbackPoint
  <2> SUFFICES ASSUME DeployInv, NEW d \in Deployers, PastBringUp(d), ~job[d].skip,
                      Unshared(job[d].ts)
               PROVE  /\ Whole(job[d].ts)
                      /\ job[d].alone => pairs[job[d].ts].of = job[d].over
    BY DEF RollbackPoint
  <2>1. Past(job[d]) /\ Opened(job[d]) /\ job[d].at # "none"
    BY DEF PastBringUp, Past, Opened
  <2>2. Held(job[d], pairs[job[d].ts], deleted) /\ pairs[job[d].ts].made = 1
    BY <2>1 DEF DeployInv, HeldOK, Unshared
  <2>3. Whole(job[d].ts)
    BY <2>1, <2>2 DEF Held, Whole, Past
  <2>4. job[d].alone => pairs[job[d].ts].of = job[d].over
    BY <2>1, <2>2 DEF DeployInv, AloneOK, Mine
  <2> QED BY <2>3, <2>4
<1> QED BY <1>1, DeployInvariance, PTL

\* snapshot.sh:2: a pair that is whole and of one deploy misses no medium that its
\* dump refers to, but for those that somebody was deleting.
THEOREM PairsAreWhole == Spec => []PairsRestore
<1>1. DeployInv => PairsRestore
  BY DEF DeployInv, PairsOK, PairOK, PairsRestore, Whole, Unshared
<1> QED BY <1>1, DeployInvariance, PTL

\* deploy-remote.sh and dev-up.sh: a deploy that was alone has its own tree running
\* until the next one begins, whatever earlier ones left behind.
THEOREM AloneRunsItsTree == Spec => []AloneMeansMine
<1>1. DeployInv => AloneMeansMine
  BY DEF DeployInv, AloneOK, Mine, Past, AloneMeansMine, PastBringUp
<1> QED BY <1>1, DeployInvariance, PTL
===============================================================================
