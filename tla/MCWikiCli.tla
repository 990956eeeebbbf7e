----------------------------- MODULE MCWikiCli -----------------------------
(***************************************************************************)
(* One run of every command of ccc-wiki, with up to two retries, and the    *)
(* settings it may find: every way to name a URL, a token and a file, with  *)
(* good numbers; and every way to give the numbers, with a good URL and     *)
(* token in the environment.                                               *)
(***************************************************************************)
EXTENDS WikiCli, Sequences

CONSTANT x

OneCall     == {x}
AllOps      == {"get", "create", "update"}
AllCommands == DOMAIN Demanded
DirectOrHostless == {"direct", "hostless"}
AnyRefusal  == {"unauthorized", "denied", "rejected"}
AnyStdin    == {"text", ""}

Line(k, v) == [key |-> k, value |-> v]

\* No line, a comment and a URL, a token, a token below another one or taken back.
Contents ==
  {<<>>, <<Line("none", "x"), Line("url", "direct")>>,
   <<Line("url", "no scheme"), Line("token", "filed")>>,
   <<Line("token", "one part"), Line("url", "direct"), Line("token", "filed")>>,
   <<Line("token", "filed"), Line("token", "")>>}

Files == [state: {"present"}, private: BOOLEAN, lines: Contents]
           \cup {[state |-> st, private |-> FALSE, lines |-> <<>>] :
                   st \in {"absent", "unreadable"}}

NoFile == [state |-> "absent", private |-> FALSE, lines |-> <<>>]

Sourced ==
  [flags: [url: {NotGiven, "", "direct", "no scheme", "hostless"},
           config: {NotGiven, "", "named"}, timeout: {NotGiven}, retries: {NotGiven}],
   env: [url: {"", "direct", "no scheme", "hostless"}, token: {"", "one part", "exported"},
         config: {"", "named"}, home: {"", "home"}, timeout: {""}, retries: {""},
         delay: {""}],
   file: Files]

Numbered ==
  [flags: [url: {NotGiven}, config: {NotGiven},
           timeout: {NotGiven, "set"}, retries: {NotGiven, "set", "negative"}],
   env: [url: {"direct"}, token: {"exported"}, config: {""}, home: {""},
         timeout: {"", "set", "garbage"}, retries: {"", "set", "negative", "garbage"},
         delay: {"", "set", "garbage"}],
   file: {NoFile}]

SomeSetups == Sourced \cup Numbered
=============================================================================
