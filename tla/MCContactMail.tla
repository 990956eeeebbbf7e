----------------------------- MODULE MCContactMail -----------------------------
(***************************************************************************)
(* The contact service with each of its mail transports.                   *)
(***************************************************************************)
EXTENDS ContactMail, TLC

CONSTANTS p1, ip1

OnePost  == {p1}
OneIp    == {ip1}
GoodOrBot == {{}, {"honeypot"}}
Complete == {[mail |-> TRUE, github |-> TRUE]}

Smtp(encryption, username) ==
  [kind |-> "smtp", encryption |-> encryption, username |-> username, local |-> FALSE]

\* The hosted relays, one that goes by addresses, the test sink, a sink that is
\* asked for a password, a relay on this host, and the two HTTP services.
EveryTransport ==
  {Smtp("starttls", TRUE), Smtp("tls", TRUE), Smtp("starttls", FALSE),
   Smtp("none", FALSE), Smtp("none", TRUE), [Smtp("none", TRUE) EXCEPT !.local = TRUE],
   [Smtp("starttls", FALSE) EXCEPT !.kind = "graph"],
   [Smtp("starttls", FALSE) EXCEPT !.kind = "agentmail"]}
=============================================================================
