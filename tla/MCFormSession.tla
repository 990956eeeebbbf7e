----------------------------- MODULE MCFormSession -----------------------------
(***************************************************************************)
(* One browser with two tabs.                                              *)
(***************************************************************************)
EXTENDS FormSession, TLC

CONSTANTS t1, t2

TwoTabs == {t1, t2}

\* On plain HTTP, as the local stack is meant to be, and with a Secure cookie that
\* never comes back.  Over HTTPS the jar does what it does in the first case.
AllSites == {[secure |-> FALSE, https |-> FALSE], [secure |-> TRUE, https |-> FALSE]}

Heeding   == [strict |-> TRUE, policy |-> TRUE]
Unheeding == [strict |-> FALSE, policy |-> FALSE]
AllBrowsers == {Heeding, Unheeding}

Symmetry == Permutations({t1, t2})
=============================================================================
