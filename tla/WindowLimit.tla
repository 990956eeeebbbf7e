----------------------------- MODULE WindowLimit -----------------------------
(***************************************************************************)
(* What a rate limiter promises, without the map, the sweeps or the lock:  *)
(* each attempt is answered from the admissions of its key over the        *)
(* trailing window (ratelimit.go:37-38).                                   *)
(*                                                                         *)
(* Slack is how much of the window the limiter may misjudge in favour of   *)
(* the client.  With Slack = 0 the answer is determined: admit exactly the *)
(* attempts that find fewer than Limit admissions in the window.           *)
(***************************************************************************)
EXTENDS Integers, FiniteSets

CONSTANTS Keys, Limit, Win, MaxDelay, Slack, Capacity

VARIABLES clock, calls, log, answer

vars == <<clock, calls, log, answer>>

Init ==
  /\ clock = 0
  /\ calls = 0
  /\ log = {}
  /\ \E k \in Keys : answer = [key |-> k, now |-> 0, ok |-> TRUE]

\* The admissions of key in the `span' ticks that end at now.
Recent(key, now, span) == {a \in log : a.key = key /\ a.at > now - span}

Tick == clock' = clock + 1 /\ UNCHANGED <<calls, log, answer>>

\* Only when Capacity keys have admissions may some of them be forgotten.
MayForget(gone) ==
  gone = {} \/ Cardinality({a.key : a \in log}) >= Capacity

Admit(key, now) ==
  /\ Cardinality(Recent(key, now, Win - Slack)) < Limit
  /\ \E gone \in SUBSET (Keys \ {key}) :
       /\ MayForget(gone)
       /\ log' = {a \in log : a.key \notin gone}
                   \cup {[key |-> key, at |-> now, n |-> calls]}
  /\ answer' = [key |-> key, now |-> now, ok |-> TRUE]
  /\ calls' = calls + 1
  /\ UNCHANGED clock

Refuse(key, now) ==
  /\ Cardinality(Recent(key, now, Win)) >= Limit
  /\ answer' = [key |-> key, now |-> now, ok |-> FALSE]
  /\ calls' = calls + 1
  /\ UNCHANGED <<clock, log>>

\* An attempt is dated by a clock reading at most MaxDelay old.
Next ==
  \/ Tick
  \/ \E key \in Keys, now \in (clock - MaxDelay)..clock :
       Admit(key, now) \/ Refuse(key, now)

Spec == Init /\ [][Next]_vars
=============================================================================
