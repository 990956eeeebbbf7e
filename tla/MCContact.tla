------------------------------ MODULE MCContact ------------------------------
(***************************************************************************)
(* The contact service with two POSTs from two addresses.                  *)
(***************************************************************************)
EXTENDS Contact, TLC

CONSTANTS p1, p2, ip1, ip2

OnePost    == {p1}
TwoPosts   == {p1, p2}
OneIp      == {ip1}
TwoIps     == {ip1, ip2}

\* A good submission, and one of each kind of bad one that matters to a run.
Good     == {{}}
AllFlaws == {{}, {"too_large", "unreadable"}, {"unreadable"},
             {"cross_site", "csrf"}, {"csrf", "honeypot"},
             {"honeypot", "invalid"}, {"invalid"}}

\* The environment: complete, without a GitHub token, or without mail.
Complete   == {[mail |-> TRUE, github |-> TRUE]}
AnyConfig  == {[mail |-> TRUE, github |-> TRUE], [mail |-> TRUE, github |-> FALSE],
               [mail |-> FALSE, github |-> TRUE]}

Symmetry2 == Permutations(TwoPosts) \cup Permutations(TwoIps)
=============================================================================
