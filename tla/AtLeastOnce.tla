----------------------------- MODULE AtLeastOnce -----------------------------
(***************************************************************************)
(* What the wiki client promises about its calls ("Writes are              *)
(* at-least-once", services/wiki-cli/README.md), without attempts, timers,  *)
(* requests or responses: how often a call has been carried out, and what   *)
(* its caller may conclude from the way it returned.                        *)
(*                                                                         *)
(*   once      carried out exactly once, and never again                   *)
(*   again     carried out, perhaps more than once, perhaps again later    *)
(*   read      a read, which carries out nothing                           *)
(*   refused   never carried out                                           *)
(*   unknown   any number of times that the retry budget allows            *)
(***************************************************************************)
EXTENDS Integers

CONSTANTS Calls, Budget

VARIABLES committed, outcome

vars == <<committed, outcome>>

Init ==
  /\ committed = [c \in Calls |-> 0]
  /\ outcome = [c \in Calls |-> "open"]

Commit(c) ==
  /\ outcome[c] \in {"open", "again", "unknown"}
  /\ committed[c] < Budget
  /\ committed' = [committed EXCEPT ![c] = @ + 1]
  /\ UNCHANGED outcome

Conclude(c, o) ==
  /\ outcome[c] = "open"
  /\ outcome' = [outcome EXCEPT ![c] = o]
  /\ UNCHANGED committed

Next ==
  \E c \in Calls :
    \/ Commit(c)
    \/ committed[c] = 1 /\ Conclude(c, "once")
    \/ committed[c] >= 1 /\ Conclude(c, "again")
    \/ committed[c] = 0 /\ (Conclude(c, "read") \/ Conclude(c, "refused"))
    \/ Conclude(c, "unknown")

Spec == Init /\ [][Next]_vars
=============================================================================
