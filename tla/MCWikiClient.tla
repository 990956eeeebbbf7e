---------------------------- MODULE MCWikiClient ----------------------------
(***************************************************************************)
(* The wiki client with two calls and one retry.                           *)
(***************************************************************************)
EXTENDS WikiClient

CONSTANTS x, y

OneCall  == {x}
TwoCalls == {x, y}

AllOps     == {"get", "create", "update"}
ReadOrUpdate == {"get", "update"}
Direct     == {"direct"}
Anywhere   == {"direct", "redirected"}
=============================================================================
