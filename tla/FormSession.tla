------------------------------ MODULE FormSession ------------------------------
(***************************************************************************)
(* The contact form in a browser: tabs that share one CSRF cookie, requests *)
(* and responses on their way, and the pages of server.go that answer them. *)
(* The server keeps nothing between requests: a token is drawn for every   *)
(* form it renders, put into the form and into the cookie, and compared    *)
(* when the form comes back.                                               *)
(*                                                                         *)
(* A tab waits for one navigation at a time.  One it has turned away from   *)
(* (a second click, a reload) may still reach the server and may still set  *)
(* the cookie.  The tokens are numbered as they are drawn.                  *)
(***************************************************************************)
EXTENDS Integers, FiniteSets

CONSTANTS
  Tabs,
  MaxDraws,      \* bound: tokens ever drawn
  Sites,         \* how the form is served: [secure, https]
  Browsers,      \* [strict, policy]: heeds SameSite, heeds Referrer-Policy
  MaxFlights,    \* bound: navigations under way at once
  MaxFaults      \* bound: lost messages and failed draws

ASSUME SessionConfig ==
  /\ Sites \subseteq [secure: BOOLEAN, https: BOOLEAN]
  /\ Browsers \subseteq [strict: BOOLEAN, policy: BOOLEAN]
  /\ MaxDraws \in Nat /\ MaxFlights \in Nat /\ MaxFaults \in Nat

NoToken  == 0      \* the empty text
NoCookie == -1

VARIABLES
  site, browser,
  cookie,      \* ccc_csrf in the browser's jar
  page,        \* what each tab shows, and what a reload of it repeats
  nav,         \* the navigation each tab waits for, and one it turned away from
  fresh,       \* the tab, if any, whose form was the last to arrive in the browser
  draws,       \* tokens drawn so far
  drawFailed, faults,
  theirs       \* tokens that another site has got hold of for itself

vars == <<site, browser, cookie, page, nav, fresh, draws, drawFailed, faults, theirs>>

\* What a navigation asks for, and in whose interest.
Ask(what, posted, cause) == [what |-> what, posted |-> posted, cause |-> cause]

NoPage == [shows |-> "nothing", token |-> NoToken, again |-> Ask("form", NoToken, "visit"),
           typed |-> NoToken]

Idle == [stage |-> "idle", ask |-> Ask("form", NoToken, "visit"), cookie |-> NoCookie,
         origin |-> "absent", fresh |-> FALSE, reply |-> "none", token |-> NoToken,
         outcome |-> "none"]

Slots == {"now", "stale"}

Init ==
  /\ site \in Sites /\ browser \in Browsers
  /\ cookie = NoCookie
  /\ page = [t \in Tabs |-> NoPage]
  /\ nav = [t \in Tabs |-> [s \in Slots |-> Idle]]
  /\ fresh = {} /\ draws = 0 /\ drawFailed = FALSE /\ faults = 0
  /\ theirs = {}

-----------------------------------------------------------------------------
(* The browser                                                             *)

\* The jar keeps a Secure cookie only if it came over HTTPS.
Keeps == site.secure => site.https

\* The headers Origin and Referer of a POST: a page with the policy no-referrer
\* (securityHeaders) makes browsers that heed it send the origin "null".
OriginsOf(cause) ==
  IF cause = "foreign" THEN {"theirs", "absent"}
  ELSE IF browser.policy THEN {"null"} ELSE {"ours", "absent"}

\* SameSite=Strict: not with a POST from elsewhere.
CookieSent(cause) == IF cause = "foreign" /\ browser.strict THEN NoCookie ELSE cookie

Navigate(t, ask) ==
  /\ \/ nav[t]["now"].stage = "idle" \/ nav[t]["stale"].stage = "idle"
  /\ Cardinality({f \in Tabs \X Slots : nav[f[1]][f[2]].stage # "idle"}) < MaxFlights
  /\ \E origin \in IF ask.what = "submit" THEN OriginsOf(ask.cause) ELSE {"absent"} :
       nav' = [nav EXCEPT
                 ![t]["now"] = [Idle EXCEPT !.stage = "asked", !.ask = ask, !.origin = origin,
                                            !.cookie = CookieSent(ask.cause),
                                            !.fresh = t \in fresh],
                 ![t]["stale"] = IF nav[t]["now"].stage = "idle" THEN @ ELSE nav[t]["now"]]
  /\ UNCHANGED <<site, browser, cookie, fresh, draws, drawFailed, faults, theirs>>

Open(t) == Navigate(t, Ask("form", NoToken, "visit")) /\ UNCHANGED page

Submit(t) ==
  /\ page[t].shows = "form"
  /\ Navigate(t, Ask("submit", page[t].token, "click"))
  /\ page' = [page EXCEPT ![t].typed = page[t].token]

\* A reload repeats the request that led to the page.  After a network error it
\* is the user's retry; after a page of ours it is not meant as one.
Reload(t) ==
  /\ page[t].shows # "nothing"
  /\ LET a == page[t].again
     IN  Navigate(t, [a EXCEPT !.cause =
           CASE a.cause = "click" -> IF page[t].shows = "neterror" THEN "retry" ELSE "reload"
             [] a.cause = "retry" -> IF page[t].shows = "neterror" THEN "retry" ELSE "reload"
             [] OTHER -> a.cause])
  /\ UNCHANGED page

\* Back to the form as it was submitted.
Back(t) ==
  /\ page[t].typed # NoToken /\ nav[t]["now"].stage = "idle"
  /\ page' = [page EXCEPT ![t].shows = "form", ![t].token = page[t].typed,
                          ![t].again = Ask("form", NoToken, "visit")]
  /\ fresh' = fresh \ {t}
  /\ UNCHANGED <<site, browser, cookie, nav, draws, drawFailed, faults, theirs>>

\* A page of another site posts a form of its own to the service, with no token
\* or with one that its site has got hold of.  What it cannot do is read the
\* browser's jar or the pages of the service in it.
PostFromElsewhere(t) ==
  /\ \E token \in {NoToken} \cup theirs : Navigate(t, Ask("submit", token, "foreign"))
  /\ UNCHANGED page

\* That site asks the service for a form from a machine of its own, and keeps the
\* token.  (One that it makes up comes to the same: the service keeps no list.)
DrawElsewhere ==
  /\ draws < MaxDraws
  /\ draws' = draws + 1
  /\ theirs' = theirs \cup {draws'}
  /\ UNCHANGED <<site, browser, cookie, page, nav, fresh, drawFailed, faults>>

-----------------------------------------------------------------------------
(* The server                                                              *)

\* issueCSRF: what goes into the form; the cookie is set to it unless the draw
\* fails, which leaves the form without a token and the cookie as it was.
Drawn == (IF draws < MaxDraws THEN {draws + 1} ELSE {})
           \cup (IF faults < MaxFaults THEN {NoToken} ELSE {})

Count(token) ==
  /\ draws' = IF token = NoToken THEN draws ELSE token
  /\ drawFailed' = (drawFailed \/ token = NoToken)
  /\ faults' = IF token = NoToken THEN faults + 1 ELSE faults

\* The request's headers are spent.
Respond(t, s, reply, token, outcome) ==
  nav' = [nav EXCEPT ![t][s].stage = "answered", ![t][s].reply = reply,
                     ![t][s].token = token, ![t][s].outcome = outcome,
                     ![t][s].cookie = NoCookie, ![t][s].origin = "absent"]

\* renderForm: every form has a token of its own, that of an error page too.
RenderForm(t, s, outcome) ==
  \E token \in Drawn : Respond(t, s, "form", token, outcome) /\ Count(token)

Answer(t, s, reply, outcome) ==
  /\ Respond(t, s, reply, NoToken, outcome)
  /\ UNCHANGED <<draws, drawFailed, faults>>

\* An origin that does not parse to a host, "null" among them, is not ours.
sameOrigin(r) == r.origin \in {"absent", "ours"}

\* Bug: any token that the service has given out will do, whoever got it.
verifyCSRFIssued(r) == r.cookie # NoCookie /\ r.ask.posted \in 1..draws

verifyCSRF(r) == r.cookie # NoCookie /\ r.ask.posted # NoToken /\ r.cookie = r.ask.posted

HandleForm(t, s) ==
  /\ nav[t][s].stage = "asked" /\ nav[t][s].ask.what = "form"
  /\ RenderForm(t, s, "none")
  /\ UNCHANGED <<site, browser, cookie, page, fresh, theirs>>

HandleThanks(t, s) ==
  /\ nav[t][s].stage = "asked" /\ nav[t][s].ask.what = "thanks"
  /\ Answer(t, s, "thanks", "none")
  /\ UNCHANGED <<site, browser, cookie, page, fresh, theirs>>

\* handleSubmit up to the checks of the session: the body and the limit of the
\* address may refuse any POST.
Refuse(t, s) ==
  /\ nav[t][s].stage = "asked" /\ nav[t][s].ask.what = "submit"
  /\ \/ RenderForm(t, s, "turned_away")
     \/ /\ ~sameOrigin(nav[t][s])
        /\ RenderForm(t, s, "origin_mismatch")
     \/ /\ sameOrigin(nav[t][s]) /\ ~verifyCSRF(nav[t][s])
        /\ RenderForm(t, s, "csrf_fail")
  /\ UNCHANGED <<site, browser, cookie, page, fresh, theirs>>

\* How a submission that was taken is answered.  Bug: with the page of thanks
\* itself, as the answer to the POST.
ThanksInPlace == "thanks"

AfterSubmit == "redirect"

\* The rest of handleSubmit, for a POST that the checks let through: a mail
\* (which may have gone out although Send failed) or none, and the form again
\* (invalid, unconfigured, breaker, send failed) or a redirection to the thanks
\* (sent, or the honeypot's pretence).
Process(t, s) ==
  /\ nav[t][s].stage = "asked" /\ nav[t][s].ask.what = "submit"
  /\ sameOrigin(nav[t][s]) /\ verifyCSRF(nav[t][s])
  /\ \E outcome \in {"mailed", "no_mail"} :
       RenderForm(t, s, outcome) \/ Answer(t, s, AfterSubmit, outcome)
  /\ UNCHANGED <<site, browser, cookie, page, fresh, theirs>>

-----------------------------------------------------------------------------
(* The way back                                                            *)

\* Bug: the cookie is set for a browser that has none.
SetCookieOnce(t, token, shown) ==
  /\ cookie' = IF token # NoToken /\ Keeps /\ cookie = NoCookie THEN token ELSE cookie
  /\ fresh' = IF shown THEN {t} ELSE {}

\* A form that arrives sets the cookie and is then the freshest of all.
SetCookie(t, token, shown) ==
  IF token # NoToken /\ Keeps
  THEN /\ cookie' = token
       /\ fresh' = IF shown THEN {t} ELSE {}
  ELSE /\ UNCHANGED cookie
       /\ fresh' = fresh \ {t}

Arrives(t) ==
  LET r == nav[t]["now"]
  IN  /\ r.stage = "answered"
      /\ IF r.reply = "redirect"
         THEN /\ nav' = [nav EXCEPT ![t]["now"] =
                           [Idle EXCEPT !.stage = "asked",
                                        !.ask = Ask("thanks", NoToken, "visit")]]
              /\ UNCHANGED <<cookie, page, fresh>>
         ELSE /\ nav' = [nav EXCEPT ![t]["now"] = Idle]
              /\ page' = [page EXCEPT ![t].shows = r.reply, ![t].token = r.token,
                                      ![t].again = r.ask]
              /\ SetCookie(t, r.token, TRUE)
  /\ UNCHANGED <<site, browser, draws, drawFailed, faults, theirs>>

\* The answer to a navigation that nobody waits for: the browser may or may not
\* have read its headers.
ArrivesStale(t) ==
  LET r == nav[t]["stale"]
  IN  /\ r.stage = "answered"
      /\ nav' = [nav EXCEPT ![t]["stale"] = Idle]
      /\ \/ UNCHANGED <<cookie, fresh>>
         \/ r.reply = "form" /\ SetCookie(t, r.token, FALSE)
  /\ UNCHANGED <<site, browser, page, draws, drawFailed, faults, theirs>>

\* The request or its response is lost; the tab that waits shows an error.
Lose(t, s) ==
  /\ nav[t][s].stage # "idle" /\ faults < MaxFaults
  /\ nav' = [nav EXCEPT ![t][s] = Idle]
  /\ faults' = faults + 1
  /\ IF s = "now" THEN /\ page' = [page EXCEPT ![t].shows = "neterror", ![t].token = NoToken,
                                               ![t].again = nav[t][s].ask]
                       /\ fresh' = fresh \ {t}
     ELSE UNCHANGED <<page, fresh>>
  /\ UNCHANGED <<site, browser, cookie, draws, drawFailed, theirs>>

Next ==
  \/ DrawElsewhere
  \/ \E t \in Tabs :
      \/ Open(t) \/ Submit(t) \/ Reload(t) \/ Back(t) \/ PostFromElsewhere(t)
      \/ \E s \in Slots : HandleForm(t, s) \/ HandleThanks(t, s) \/ Refuse(t, s)
                          \/ Process(t, s) \/ Lose(t, s)
      \/ Arrives(t) \/ ArrivesStale(t)

Spec == Init /\ [][Next]_vars

-----------------------------------------------------------------------------
(* Properties                                                              *)

\* A mail has a click behind it, or the user's retry after a network error: a
\* reload of any page the service sent, thanks or error, never mails again
\* (server.go:38-39, CHANGELOG.md:15), as long as tokens can be drawn.
ReloadNeverMails ==
  \A t \in Tabs, s \in Slots :
    nav[t][s].outcome = "mailed" /\ nav[t][s].ask.cause = "reload" => drawFailed

\* A POST made by a page of another site never mails, though that site holds
\* tokens of the service's own making, whatever the browser sends or tells with
\* it and however the browser's own forms overtake each other (server.go:349-399).
ElsewhereNeverMails ==
  \A t \in Tabs, s \in Slots :
    ~(nav[t][s].outcome = "mailed" /\ nav[t][s].ask.cause = "foreign")

\* However many tabs share the cookie: a click on the form that was the last to
\* arrive in the browser is never refused for its token.
FreshFormAccepted ==
  \A t \in Tabs, s \in Slots :
    ~(nav[t][s].outcome = "csrf_fail" /\ nav[t][s].ask.cause = "click" /\ nav[t][s].fresh)

\* "this never blocks a same-origin submit from a client that omits the header"
\* (server.go:384): only what another site posts is refused as cross-site.
OwnFormNeverForeign ==
  \A t \in Tabs, s \in Slots :
    nav[t][s].outcome = "origin_mismatch" => nav[t][s].ask.cause = "foreign"
=============================================================================
