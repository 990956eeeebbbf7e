--------------------------- MODULE FormSessionProofs ---------------------------
(***************************************************************************)
(* Proofs about FormSession, for every number of tabs, of tokens, of        *)
(* navigations under way and of faults.                                     *)
(*                                                                         *)
(* The argument.  A token that is on its way in a response is new: no page, *)
(* no request and no cookie knows it (Novel), for it was drawn for that     *)
(* response alone.  When a response arrives, its token becomes the cookie,  *)
(* and so from then on differs from what the request that it answers had    *)
(* posted: that request is spent, and a reload that repeats it is refused.  *)
(* It stays spent, for the cookie only ever moves on to tokens that are new.*)
(* Nor is such a token one that another site has drawn for itself, so the   *)
(* cookie never becomes one of theirs, and verifyCSRF tells them apart.     *)
(***************************************************************************)
EXTENDS FormSession, TLAPS

\* The parts of the invariant say what they say of given values: n is a
\* navigation, g a page, c the cookie, d the tokens drawn, f tells of a failed
\* draw.
AskType(d) ==
  [what: {"form", "submit", "thanks"}, posted: 0..d,
   cause: {"visit", "click", "reload", "retry", "foreign"}]

NavType(d) ==
  [stage: {"idle", "asked", "answered"}, ask: AskType(d), cookie: {NoCookie} \cup 0..d,
   origin: {"absent", "ours", "theirs", "null"}, fresh: BOOLEAN,
   reply: {"none", "form", "thanks", "redirect"}, token: 0..d,
   outcome: {"none", "turned_away", "origin_mismatch", "csrf_fail", "mailed", "no_mail"}]

PageType(d) ==
  [shows: {"nothing", "none", "form", "thanks", "redirect", "neterror"}, token: 0..d,
   again: AskType(d), typed: 0..d]

\* A request that the jar's cookie would not let through, as long as tokens can
\* be drawn.
Spent(ask, c, f) == ask.posted # c \/ f

\* What is true of every navigation.
NavOK(n, c, d, f) ==
  /\ n \in NavType(d)
  /\ n.stage # "answered" => n.token = NoToken /\ n.outcome = "none"
  /\ n.outcome = "mailed" =>
       n.ask.posted # NoToken /\ (n.ask.cause = "reload" => f)
  /\ n.stage = "asked" /\ n.ask.cause = "click" /\ n.fresh => verifyCSRF(n)
  /\ n.outcome = "csrf_fail" /\ n.ask.cause = "click" => ~n.fresh
  /\ n.ask.what = "submit" /\ n.ask.cause = "reload" =>
       /\ Spent(n.ask, c, f)
       /\ n.stage = "asked" => Spent(n.ask, n.cookie, f)
  /\ n.stage = "answered" /\ n.reply = "form" /\ n.token = NoToken => f
  /\ n.stage = "answered" /\ n.reply # "form" => n.reply = "redirect" \/ n.ask.what = "thanks"

\* What is true of every page: if it is one of ours, its request is spent.
PageOK(g, c, d, f) ==
  /\ g \in PageType(d)
  /\ g.again.what = "submit" /\ (g.shows # "neterror" \/ g.again.cause = "reload") =>
       Spent(g.again, c, f)

\* The jar holds a token that was drawn, if it keeps any; the freshest form is
\* the one whose token it holds.
JarOK ==
  /\ draws \in Nat /\ drawFailed \in BOOLEAN
  /\ cookie \in {NoCookie} \cup 1..draws
  /\ ~Keeps => cookie = NoCookie
  /\ fresh \subseteq Tabs /\ theirs \subseteq 1..draws
  /\ \A t \in fresh : page[t].token = cookie /\ cookie # NoCookie

NavsOK ==
  /\ nav \in [Tabs -> [Slots -> NavType(draws)]]
  /\ \A t \in Tabs, s \in Slots : NavOK(nav[t][s], cookie, draws, drawFailed)

PagesOK ==
  /\ page \in [Tabs -> PageType(draws)]
  /\ \A t \in Tabs : PageOK(page[t], cookie, draws, drawFailed)

\* Nobody has seen the token; h are the other site's.
Novel(token, c, pages, navs, h) ==
  /\ c # token /\ token \notin h
  /\ \A x \in Tabs : /\ pages[x].token # token /\ pages[x].typed # token
                     /\ pages[x].again.posted # token
                     /\ \A y \in Slots : navs[x][y].ask.posted # token

\* No two responses carry the same token, and nobody has seen one's.
TokensNovel ==
  \A t \in Tabs, s \in Slots : nav[t][s].token # NoToken =>
    /\ Novel(nav[t][s].token, cookie, page, nav, theirs)
    /\ \A x \in Tabs, y \in Slots :
         nav[x][y].token = nav[t][s].token => x = t /\ y = s

SessionInv == JarOK /\ NavsOK /\ PagesOK /\ TokensNovel

-----------------------------------------------------------------------------
(* What a step may do to the parts it does not touch                       *)

\* A type stays one as more tokens are drawn.
LEMMA TypesGrow ==
  ASSUME NEW d \in Nat, NEW e \in Nat, d <= e
  PROVE  /\ AskType(d) \subseteq AskType(e) /\ NavType(d) \subseteq NavType(e)
         /\ PageType(d) \subseteq PageType(e)
<1>1. AskType(d) \subseteq AskType(e)
  BY DEF AskType
<1>2. NavType(d) \subseteq NavType(e)
  BY <1>1 DEF NavType
<1>3. PageType(d) \subseteq PageType(e)
  BY <1>1 DEF PageType
<1> QED BY <1>1, <1>2, <1>3

\* What is true of a navigation stays true while its request stays spent.
LEMMA NavStays ==
  ASSUME NEW d \in Nat, NEW e \in Nat, d <= e, NEW c, NEW b, NEW f, NEW g, f => g,
         NEW n, NavOK(n, c, d, f), Spent(n.ask, c, f) => Spent(n.ask, b, g)
  PROVE  NavOK(n, b, e, g)
<1>1. n \in NavType(e)
  BY TypesGrow DEF NavOK
<1> QED BY <1>1 DEF NavOK, Spent

\* The same of a page.
LEMMA PageStays ==
  ASSUME NEW d \in Nat, NEW e \in Nat, d <= e, NEW c, NEW b, NEW f, NEW g, f => g,
         NEW p, PageOK(p, c, d, f), Spent(p.again, c, f) => Spent(p.again, b, g)
  PROVE  PageOK(p, b, e, g)
<1>1. p \in PageType(e)
  BY TypesGrow DEF PageOK
<1> QED BY <1>1 DEF PageOK, Spent

\* One navigation is replaced.
LEMMA SlotStep ==
  ASSUME NEW d \in Nat, NEW e \in Nat, d <= e, NEW navs \in [Tabs -> [Slots -> NavType(d)]],
         NEW t \in Tabs, NEW s \in Slots, NEW n \in NavType(e)
  PROVE  LET new == [navs EXCEPT ![t][s] = n]
         IN  /\ new \in [Tabs -> [Slots -> NavType(e)]]
             /\ new[t][s] = n
             /\ \A x \in Tabs, y \in Slots : (x = t /\ y = s) \/ new[x][y] = navs[x][y]
<1>1. NavType(d) \subseteq NavType(e)
  BY TypesGrow
<1>2. navs \in [Tabs -> [Slots -> NavType(e)]]
  BY <1>1
<1> QED BY <1>2

\* An idle navigation.
LEMMA IdleOK ==
  ASSUME NEW d \in Nat, NEW c, NEW f
  PROVE  /\ Idle \in NavType(d) /\ NavOK(Idle, c, d, f)
         /\ Idle.token = NoToken /\ Idle.ask.posted = NoToken
  BY DEF Idle, NavOK, NavType, AskType, Ask, NoToken, NoCookie, verifyCSRF

-----------------------------------------------------------------------------
(* The server's steps                                                      *)

\* A navigation with the service's response to it.
Replied(n, reply, token, outcome) ==
  [n EXCEPT !.stage = "answered", !.reply = reply, !.token = token, !.outcome = outcome,
            !.cookie = NoCookie, !.origin = "absent"]

\* Respond replaces one navigation.
LEMMA RespondReplaces ==
  ASSUME NavsOK, draws \in Nat, NEW t \in Tabs, NEW s \in Slots, NEW reply, NEW token,
         NEW outcome, Respond(t, s, reply, token, outcome)
  PROVE  nav' = [nav EXCEPT ![t][s] = Replied(nav[t][s], reply, token, outcome)]
<1> DEFINE n1 == [nav[t][s] EXCEPT !.stage = "answered"]
           n2 == [n1 EXCEPT !.reply = reply]
           n3 == [n2 EXCEPT !.token = token]
           n4 == [n3 EXCEPT !.outcome = outcome]
           n5 == [n4 EXCEPT !.cookie = NoCookie]
           n6 == [n5 EXCEPT !.origin = "absent"]
           With(n) == [nav EXCEPT ![t][s] = n]
           Set1(navs) == [navs EXCEPT ![t][s].stage = "answered"]
           Set2(navs) == [navs EXCEPT ![t][s].reply = reply]
           Set3(navs) == [navs EXCEPT ![t][s].token = token]
           Set4(navs) == [navs EXCEPT ![t][s].outcome = outcome]
           Set5(navs) == [navs EXCEPT ![t][s].cookie = NoCookie]
           Set6(navs) == [navs EXCEPT ![t][s].origin = "absent"]
<1>1. nav \in [Tabs -> [Slots -> NavType(draws)]]
  BY DEF NavsOK
<1>2. n6 = Replied(nav[t][s], reply, token, outcome)
  BY DEF Replied
<1>3. nav' = Set6(Set5(Set4(Set3(Set2(Set1(nav))))))
  BY DEF Respond
<1>4. Set1(nav) = With(n1)
  OBVIOUS
<1> HIDE DEF n1, n2, n3, n4, n5, n6, Set1, Set2, Set3, Set4, Set5, Set6
<1>5. ASSUME NEW n, NEW m
      PROVE  With(n)[t][s] = n /\ [With(n) EXCEPT ![t][s] = m] = With(m)
  <2>1. With(n) \in [Tabs -> [Slots -> NavType(draws) \cup {n}]]
    BY <1>1
  <2> QED BY <1>1, <2>1
<1> HIDE DEF With
<1>6. Set2(With(n1)) = With(n2)
  <2>1. Set2(With(n1)) = [With(n1) EXCEPT ![t][s] = [With(n1)[t][s] EXCEPT !.reply = reply]]
    BY DEF Set2
  <2> QED BY <2>1, <1>5 DEF n2
<1>7. Set3(With(n2)) = With(n3)
  <2>1. Set3(With(n2)) = [With(n2) EXCEPT ![t][s] = [With(n2)[t][s] EXCEPT !.token = token]]
    BY DEF Set3
  <2> QED BY <2>1, <1>5 DEF n3
<1>8. Set4(With(n3)) = With(n4)
  <2>1. Set4(With(n3)) = [With(n3) EXCEPT ![t][s] = [With(n3)[t][s] EXCEPT !.outcome = outcome]]
    BY DEF Set4
  <2> QED BY <2>1, <1>5 DEF n4
<1>9. Set5(With(n4)) = With(n5)
  <2>1. Set5(With(n4)) = [With(n4) EXCEPT ![t][s] = [With(n4)[t][s] EXCEPT !.cookie = NoCookie]]
    BY DEF Set5
  <2> QED BY <2>1, <1>5 DEF n5
<1>10. Set6(With(n5)) = With(n6)
  <2>1. Set6(With(n5)) = [With(n5) EXCEPT ![t][s] = [With(n5)[t][s] EXCEPT !.origin = "absent"]]
    BY DEF Set6
  <2> QED BY <2>1, <1>5 DEF n6
<1>11. nav' = With(n6)
  BY <1>3, <1>4, <1>6, <1>7, <1>8, <1>9, <1>10
<1> QED BY <1>2, <1>11 DEF With

\* What a response does to the invariant: its token, if any, is drawn for it.
LEMMA Answered ==
  ASSUME SessionInv, NEW t \in Tabs, NEW s \in Slots, nav[t][s].stage = "asked",
         NEW reply \in {"form", "thanks", "redirect"},
         NEW token \in {NoToken, draws + 1},
         NEW outcome \in {"none", "turned_away", "origin_mismatch", "csrf_fail", "mailed",
                          "no_mail"},
         Respond(t, s, reply, token, outcome),
         draws' = IF token = NoToken THEN draws ELSE token,
         drawFailed' \in BOOLEAN, drawFailed => drawFailed',
         reply = "form" /\ token = NoToken => drawFailed',
         reply = "thanks" => nav[t][s].ask.what = "thanks",
         outcome = "mailed" => nav[t][s].ask.what = "submit" /\ verifyCSRF(nav[t][s]),
         outcome = "csrf_fail" => ~verifyCSRF(nav[t][s]),
         UNCHANGED <<site, browser, cookie, page, fresh, theirs>>
  PROVE  SessionInv'
<1> DEFINE n == Replied(nav[t][s], reply, token, outcome)
<1>1. draws \in Nat /\ draws' \in Nat /\ draws <= draws' /\ token \in 0..draws'
  BY DEF SessionInv, JarOK, NoToken
<1>2. NavOK(nav[t][s], cookie, draws, drawFailed)
  BY DEF SessionInv, NavsOK
<1>3. /\ n.ask = nav[t][s].ask /\ n.fresh = nav[t][s].fresh /\ n.stage = "answered"
      /\ n.reply = reply /\ n.token = token /\ n.outcome = outcome
  BY <1>2 DEF NavOK, NavType, Replied
<1>4. n \in NavType(draws')
  <2>1. nav[t][s] \in NavType(draws')
    BY <1>1, <1>2, TypesGrow DEF NavOK
  <2> DEFINE q == [nav[t][s] EXCEPT !.stage = "answered", !.reply = reply, !.token = token]
  <2>2. q \in NavType(draws')
    BY <2>1, <1>1 DEF NavType
  <2>3. n = [q EXCEPT !.outcome = outcome, !.cookie = NoCookie, !.origin = "absent"]
    BY DEF Replied
  <2> HIDE DEF q, n
  <2> QED BY <2>2, <2>3 DEF NavType
<1>5. nav' = [nav EXCEPT ![t][s] = n]
  BY <1>1, RespondReplaces DEF SessionInv
<1> HIDE DEF n
<1>6. /\ nav' \in [Tabs -> [Slots -> NavType(draws')]] /\ nav'[t][s] = n
      /\ \A x \in Tabs, y \in Slots : (x = t /\ y = s) \/ nav'[x][y] = nav[x][y]
  <2>1. nav \in [Tabs -> [Slots -> NavType(draws)]]
    BY DEF SessionInv, NavsOK
  <2> QED BY <2>1, <1>1, <1>4, <1>5, SlotStep
<1>7. NavOK(n, cookie, draws', drawFailed')
  <2>2. n.outcome = "mailed" =>
          n.ask.posted # NoToken /\ (n.ask.cause = "reload" => drawFailed')
    <3>1. CASE outcome = "mailed"
      <4>1. nav[t][s].ask.posted # NoToken /\ nav[t][s].cookie = nav[t][s].ask.posted
        BY <3>1 DEF verifyCSRF
      <4>2. nav[t][s].ask.what = "submit"
        BY <3>1
      <4> QED BY <1>2, <1>3, <4>1, <4>2 DEF NavOK, Spent
    <3> QED BY <1>3, <3>1
  <2>3. n.outcome = "csrf_fail" /\ n.ask.cause = "click" => ~n.fresh
    BY <1>2, <1>3 DEF NavOK
  <2>4. n.ask.what = "submit" /\ n.ask.cause = "reload" => Spent(n.ask, cookie, drawFailed')
    BY <1>2, <1>3 DEF NavOK, Spent
  <2> QED BY <1>3, <1>4, <2>2, <2>3, <2>4 DEF NavOK
<1>8. NavsOK'
  <2> SUFFICES ASSUME NEW x \in Tabs, NEW y \in Slots
               PROVE  NavOK(nav'[x][y], cookie, draws', drawFailed')
    BY <1>6 DEF NavsOK
  <2>1. CASE x = t /\ y = s
    BY <2>1, <1>6, <1>7
  <2>2. CASE nav'[x][y] = nav[x][y]
    <3>1. NavOK(nav[x][y], cookie, draws, drawFailed)
      BY DEF SessionInv, NavsOK
    <3>2. NavOK(nav[x][y], cookie, draws', drawFailed')
      BY <1>1, <3>1, NavStays DEF Spent
    <3> QED BY <2>2, <3>2
  <2> QED BY <1>6, <2>1, <2>2
<1>9. PagesOK'
  <2>1. page' \in [Tabs -> PageType(draws')]
    BY <1>1, TypesGrow DEF SessionInv, PagesOK
  <2>2. ASSUME NEW x \in Tabs
        PROVE  PageOK(page[x], cookie, draws', drawFailed')
    <3>1. PageOK(page[x], cookie, draws, drawFailed)
      BY DEF SessionInv, PagesOK
    <3> QED BY <1>1, <3>1, PageStays DEF Spent
  <2> QED BY <2>1, <2>2 DEF PagesOK
<1>10. JarOK'
  BY <1>1 DEF SessionInv, JarOK, Keeps
<1>11. TokensNovel'
  <2>1. ASSUME NEW x \in Tabs, NEW y \in Slots
        PROVE  nav'[x][y].ask = nav[x][y].ask
    BY <1>3, <1>6
  <2>2. ASSUME NEW u, Novel(u, cookie, page, nav, theirs)
        PROVE  Novel(u, cookie', page', nav', theirs')
    BY <2>1, <2>2 DEF Novel
  <2>3. token # NoToken => Novel(token, cookie, page, nav, theirs)
    <3> SUFFICES ASSUME token # NoToken PROVE Novel(token, cookie, page, nav, theirs)
      OBVIOUS
    <3>1. token > draws
      BY <1>1
    <3>2. cookie # token /\ token \notin theirs
      BY <1>1, <3>1 DEF SessionInv, JarOK, NoCookie
    <3>3. ASSUME NEW x \in Tabs
          PROVE  /\ page[x].token # token /\ page[x].typed # token
                 /\ page[x].again.posted # token
      <4>1. page[x] \in PageType(draws)
        BY DEF SessionInv, PagesOK
      <4> QED BY <1>1, <3>1, <4>1 DEF PageType, AskType
    <3>4. ASSUME NEW x \in Tabs, NEW y \in Slots
          PROVE  nav[x][y].ask.posted # token
      <4>1. nav[x][y] \in NavType(draws)
        BY DEF SessionInv, NavsOK
      <4> QED BY <1>1, <3>1, <4>1 DEF NavType, AskType
    <3> QED BY <3>2, <3>3, <3>4 DEF Novel
  <2>4. ASSUME NEW x \in Tabs, NEW y \in Slots, token # NoToken
        PROVE  nav[x][y].token # token
    <3>1. nav[x][y] \in NavType(draws)
      BY DEF SessionInv, NavsOK
    <3> QED BY <1>1, <2>4, <3>1 DEF NavType
  <2>5. TokensNovel
    BY DEF SessionInv
  <2> SUFFICES ASSUME NEW x \in Tabs, NEW y \in Slots, nav'[x][y].token # NoToken
               PROVE  /\ Novel(nav'[x][y].token, cookie', page', nav', theirs')
                      /\ \A v \in Tabs, w \in Slots :
                           nav'[v][w].token = nav'[x][y].token => v = x /\ w = y
    BY DEF TokensNovel
  <2>6. CASE x = t /\ y = s
    BY <1>3, <1>6, <2>2, <2>3, <2>4, <2>6
  <2>7. CASE ~(x = t /\ y = s)
    <3>1. nav'[x][y] = nav[x][y]
      BY <1>6, <2>7
    <3>2. /\ Novel(nav[x][y].token, cookie, page, nav, theirs)
          /\ \A v \in Tabs, w \in Slots :
               nav[v][w].token = nav[x][y].token => v = x /\ w = y
      BY <2>5, <3>1 DEF TokensNovel
    <3>3. nav'[t][s].token # nav[x][y].token
      BY <1>3, <1>6, <2>4, <3>1
    <3> QED BY <1>6, <2>2, <3>1, <3>2, <3>3
  <2> QED BY <2>6, <2>7
<1> QED BY <1>8, <1>9, <1>10, <1>11 DEF SessionInv

\* A form is rendered, with a token or without one.
LEMMA Rendered ==
  ASSUME SessionInv, NEW t \in Tabs, NEW s \in Slots, nav[t][s].stage = "asked",
         NEW outcome \in {"none", "turned_away", "origin_mismatch", "csrf_fail", "mailed",
                          "no_mail"},
         RenderForm(t, s, outcome),
         outcome = "mailed" => nav[t][s].ask.what = "submit" /\ verifyCSRF(nav[t][s]),
         outcome = "csrf_fail" => ~verifyCSRF(nav[t][s]),
         UNCHANGED <<site, browser, cookie, page, fresh, theirs>>
  PROVE  SessionInv'
<1>1. PICK token \in Drawn : Respond(t, s, "form", token, outcome) /\ Count(token)
  BY DEF RenderForm
<1>2. token \in {NoToken, draws + 1}
  BY DEF Drawn
<1>3. /\ draws' = IF token = NoToken THEN draws ELSE token
      /\ drawFailed' = (drawFailed \/ token = NoToken)
  BY <1>1 DEF Count
<1>4. drawFailed' \in BOOLEAN /\ (drawFailed => drawFailed') /\ (token = NoToken => drawFailed')
  BY <1>3 DEF SessionInv, JarOK
<1> QED BY <1>1, <1>2, <1>3, <1>4, Answered

\* An answer without a form: the thanks, or a redirection.
LEMMA Told ==
  ASSUME SessionInv, NEW t \in Tabs, NEW s \in Slots, nav[t][s].stage = "asked",
         NEW reply \in {"thanks", "redirect"},
         NEW outcome \in {"none", "turned_away", "origin_mismatch", "csrf_fail", "mailed",
                          "no_mail"},
         Answer(t, s, reply, outcome),
         reply = "thanks" => nav[t][s].ask.what = "thanks",
         outcome = "mailed" => nav[t][s].ask.what = "submit" /\ verifyCSRF(nav[t][s]),
         outcome # "csrf_fail",
         UNCHANGED <<site, browser, cookie, page, fresh, theirs>>
  PROVE  SessionInv'
<1>1. /\ Respond(t, s, reply, NoToken, outcome)
      /\ draws' = draws /\ drawFailed' = drawFailed /\ drawFailed' \in BOOLEAN
  BY DEF Answer, SessionInv, JarOK
<1> QED BY <1>1, Answered

\* Every step of the server preserves the invariant.
LEMMA ServerStep ==
  ASSUME SessionInv, NEW t \in Tabs, NEW s \in Slots,
         HandleForm(t, s) \/ HandleThanks(t, s) \/ Refuse(t, s) \/ Process(t, s)
  PROVE  SessionInv'
<1>1. CASE HandleForm(t, s)
  BY <1>1, Rendered DEF HandleForm
<1>2. CASE HandleThanks(t, s)
  BY <1>2, Told DEF HandleThanks
<1>3. CASE Refuse(t, s)
  <2>1. /\ nav[t][s].stage = "asked"
        /\ UNCHANGED <<site, browser, cookie, page, fresh, theirs>>
    BY <1>3 DEF Refuse
  <2>2. CASE RenderForm(t, s, "turned_away")
    BY <2>1, <2>2, Rendered
  <2>3. CASE RenderForm(t, s, "origin_mismatch")
    BY <2>1, <2>3, Rendered
  <2>4. CASE ~verifyCSRF(nav[t][s]) /\ RenderForm(t, s, "csrf_fail")
    BY <2>1, <2>4, Rendered
  <2> QED BY <1>3, <2>2, <2>3, <2>4 DEF Refuse
<1>4. CASE Process(t, s)
  <2>1. /\ nav[t][s].stage = "asked" /\ nav[t][s].ask.what = "submit"
        /\ verifyCSRF(nav[t][s])
        /\ UNCHANGED <<site, browser, cookie, page, fresh, theirs>>
    BY <1>4 DEF Process
  <2>2. PICK outcome \in {"mailed", "no_mail"} :
          RenderForm(t, s, outcome) \/ Answer(t, s, AfterSubmit, outcome)
    BY <1>4 DEF Process
  <2>3. CASE RenderForm(t, s, outcome)
    BY <2>1, <2>3, Rendered
  <2>4. CASE Answer(t, s, AfterSubmit, outcome)
    BY <2>1, <2>4, Told DEF AfterSubmit
  <2> QED BY <2>2, <2>3, <2>4
<1> QED BY <1>1, <1>2, <1>3, <1>4

-----------------------------------------------------------------------------
(* The browser's steps                                                     *)

\* What a tab does to its two navigations when it begins another one.
LEMMA NavigateReplaces ==
  ASSUME SessionInv, NEW t \in Tabs, NEW ask \in AskType(draws), Navigate(t, ask)
  PROVE  \E n \in NavType(draws) :
           /\ n.stage = "asked" /\ n.ask = ask /\ n.fresh = (t \in fresh)
           /\ n.cookie = CookieSent(ask.cause)
           /\ n.token = NoToken /\ n.outcome = "none" /\ n.reply = "none"
           /\ nav'[t]["now"] = n
           /\ nav'[t]["stale"] = IF nav[t]["now"].stage = "idle" THEN nav[t]["stale"]
                                 ELSE nav[t]["now"]
           /\ \A x \in Tabs \ {t} : nav'[x] = nav[x]
           /\ nav' \in [Tabs -> [Slots -> NavType(draws)]]
<1>1. PICK origin \in IF ask.what = "submit" THEN OriginsOf(ask.cause) ELSE {"absent"} :
        nav' = [nav EXCEPT
                  ![t]["now"] = [Idle EXCEPT !.stage = "asked", !.ask = ask, !.origin = origin,
                                             !.cookie = CookieSent(ask.cause),
                                             !.fresh = t \in fresh],
                  ![t]["stale"] = IF nav[t]["now"].stage = "idle" THEN @ ELSE nav[t]["now"]]
  BY DEF Navigate
<1> DEFINE n == [Idle EXCEPT !.stage = "asked", !.ask = ask, !.origin = origin,
                             !.cookie = CookieSent(ask.cause), !.fresh = t \in fresh]
<1>2. origin \in {"absent", "ours", "theirs", "null"}
  BY DEF OriginsOf
<1>3. CookieSent(ask.cause) \in {NoCookie} \cup 0..draws
  BY DEF CookieSent, SessionInv, JarOK
<1>4. Idle \in NavType(draws)
  BY IdleOK DEF SessionInv, JarOK
<1>5. /\ n.stage = "asked" /\ n.ask = ask /\ n.fresh = (t \in fresh)
      /\ n.cookie = CookieSent(ask.cause)
      /\ n.token = NoToken /\ n.outcome = "none" /\ n.reply = "none"
  BY DEF Idle
<1>6. n \in NavType(draws)
  <2> DEFINE shown == t \in fresh
  <2>1. shown \in BOOLEAN
    OBVIOUS
  <2> HIDE DEF shown
  <2>2. [Idle EXCEPT !.stage = "asked", !.ask = ask, !.origin = origin,
                     !.cookie = CookieSent(ask.cause), !.fresh = shown] \in NavType(draws)
    BY <1>2, <1>3, <1>4, <2>1 DEF NavType
  <2> QED BY <2>2 DEF shown
<1>7. nav' = [nav EXCEPT ![t]["now"] = n,
                         ![t]["stale"] = IF nav[t]["now"].stage = "idle" THEN @
                                         ELSE nav[t]["now"]]
  BY <1>1
<1> HIDE DEF n
<1>8. nav \in [Tabs -> [Slots -> NavType(draws)]]
  BY DEF SessionInv, NavsOK
<1> DEFINE old == IF nav[t]["now"].stage = "idle" THEN nav[t]["stale"] ELSE nav[t]["now"]
<1>9. "now" \in Slots /\ "stale" \in Slots /\ Slots = {"now", "stale"} /\ old \in NavType(draws)
  BY <1>8 DEF Slots
<1>10. nav' = [nav EXCEPT ![t] = [nav[t] EXCEPT !["now"] = n, !["stale"] = old]]
  BY <1>7, <1>8, <1>9
<1> HIDE DEF old
<1>11. /\ nav'[t] = [nav[t] EXCEPT !["now"] = n, !["stale"] = old]
       /\ \A x \in Tabs \ {t} : nav'[x] = nav[x]
       /\ nav' \in [Tabs -> [Slots -> NavType(draws)]]
  BY <1>6, <1>8, <1>9, <1>10
<1>12. nav'[t]["now"] = n /\ nav'[t]["stale"] = old
  BY <1>8, <1>9, <1>11
<1> QED BY <1>5, <1>6, <1>11, <1>12 DEF old

\* A tab begins a navigation with a request that posts no token on its way,
\* is spent if it is a reload, and good if it is a click on the freshest form.
LEMMA Navigated ==
  ASSUME SessionInv, NEW t \in Tabs, NEW ask \in AskType(draws), Navigate(t, ask),
         ask.what = "submit" /\ ask.cause = "reload" => Spent(ask, cookie, drawFailed),
         ask.cause = "click" /\ t \in fresh =>
           cookie # NoCookie /\ cookie # NoToken /\ ask.posted = cookie,
         \A u : u # NoToken /\ Novel(u, cookie, page, nav, theirs) => ask.posted # u,
         page' \in [Tabs -> PageType(draws)],
         \A x \in Tabs : /\ page'[x].shows = page[x].shows
                         /\ page'[x].token = page[x].token
                         /\ page'[x].again = page[x].again
                         /\ page'[x].typed \in {page[x].token, page[x].typed}
  PROVE  SessionInv'
<1>1. UNCHANGED <<site, browser, cookie, fresh, draws, drawFailed, theirs>>
  BY DEF Navigate
<1>2. PICK n \in NavType(draws) :
        /\ n.stage = "asked" /\ n.ask = ask /\ n.fresh = (t \in fresh)
        /\ n.cookie = CookieSent(ask.cause)
        /\ n.token = NoToken /\ n.outcome = "none" /\ n.reply = "none"
        /\ nav'[t]["now"] = n
        /\ nav'[t]["stale"] = IF nav[t]["now"].stage = "idle" THEN nav[t]["stale"]
                              ELSE nav[t]["now"]
        /\ \A x \in Tabs \ {t} : nav'[x] = nav[x]
        /\ nav' \in [Tabs -> [Slots -> NavType(draws)]]
  BY NavigateReplaces
<1>3. \A x \in Tabs, y \in Slots : NavOK(nav[x][y], cookie, draws, drawFailed)
  BY DEF SessionInv, NavsOK
<1>4. NavOK(n, cookie, draws, drawFailed)
  <2>1. ask.cause = "click" /\ t \in fresh => verifyCSRF(n)
    BY <1>2 DEF verifyCSRF, CookieSent
  <2>2. ask.what = "submit" /\ ask.cause = "reload" => Spent(n.ask, n.cookie, drawFailed)
    <3>1. ask.cause = "reload" => n.cookie = cookie
      BY <1>2 DEF CookieSent
    <3> QED BY <1>2, <3>1
  <2> QED BY <1>2, <2>1, <2>2 DEF NavOK
\* Where a navigation of the next state comes from.
<1>5. ASSUME NEW x \in Tabs, NEW y \in Slots
      PROVE  \/ x = t /\ y = "now" /\ nav'[x][y] = n
             \/ x # t /\ nav'[x][y] = nav[x][y]
             \/ /\ x = t /\ y = "stale" /\ nav[t]["now"].stage = "idle"
                /\ nav'[x][y] = nav[t]["stale"]
             \/ /\ x = t /\ y = "stale" /\ nav[t]["now"].stage # "idle"
                /\ nav'[x][y] = nav[t]["now"]
  BY <1>2 DEF Slots
<1>6. "now" \in Slots /\ "stale" \in Slots
  BY DEF Slots
<1>7. NavsOK'
  <2> SUFFICES ASSUME NEW x \in Tabs, NEW y \in Slots
               PROVE  NavOK(nav'[x][y], cookie, draws, drawFailed)
    BY <1>1, <1>2 DEF NavsOK
  <2>1. CASE nav'[x][y] = n
    BY <1>4, <2>1
  <2>2. CASE nav'[x][y] = nav[x][y]
    BY <1>3, <2>2
  <2>3. CASE nav'[x][y] = nav[t]["stale"]
    BY <1>3, <1>6, <2>3
  <2>4. CASE nav'[x][y] = nav[t]["now"]
    BY <1>3, <1>6, <2>4
  <2> QED BY <1>5, <2>1, <2>2, <2>3, <2>4
<1>8. PagesOK'
  <2> SUFFICES ASSUME NEW x \in Tabs
               PROVE  PageOK(page'[x], cookie, draws, drawFailed)
    BY <1>1 DEF PagesOK
  <2>1. PageOK(page[x], cookie, draws, drawFailed) /\ page'[x] \in PageType(draws)
    BY DEF SessionInv, PagesOK
  <2> QED BY <2>1 DEF PageOK
<1>9. JarOK'
  BY <1>1 DEF SessionInv, JarOK, Keeps
<1>10. TokensNovel'
  <2>1. ASSUME NEW u, u # NoToken, Novel(u, cookie, page, nav, theirs)
        PROVE  Novel(u, cookie', page', nav', theirs')
    <3>1. cookie' # u /\ ask.posted # u /\ u \notin theirs'
      BY <1>1, <2>1 DEF Novel
    <3>2. ASSUME NEW x \in Tabs
          PROVE  /\ page'[x].token # u /\ page'[x].typed # u /\ page'[x].again.posted # u
      <4>1. page[x].token # u /\ page[x].typed # u /\ page[x].again.posted # u
        BY <2>1 DEF Novel
      <4> QED BY <4>1
    <3>3. ASSUME NEW x \in Tabs, NEW y \in Slots
          PROVE  nav'[x][y].ask.posted # u
      <4>1. \A v \in Tabs, w \in Slots : nav[v][w].ask.posted # u
        BY <2>1 DEF Novel
      <4> QED BY <1>2, <1>5, <1>6, <3>1, <4>1
    <3> QED BY <3>1, <3>2, <3>3 DEF Novel
  <2>2. nav[t]["now"].stage # "idle" => nav[t]["stale"].token = NoToken
    <3>1. nav[t]["now"].stage # "idle" => nav[t]["stale"].stage = "idle"
      BY DEF Navigate
    <3> QED BY <1>3, <1>6, <3>1 DEF NavOK
  <2>3. \A x \in Tabs, y \in Slots : nav[x][y].token # NoToken =>
          /\ Novel(nav[x][y].token, cookie, page, nav, theirs)
          /\ \A v \in Tabs, w \in Slots :
               nav[v][w].token = nav[x][y].token => v = x /\ w = y
    BY DEF SessionInv, TokensNovel
  <2>4. ASSUME NEW x \in Tabs, NEW y \in Slots, nav'[x][y].token # NoToken
        PROVE  \E w \in Slots : /\ nav'[x][y].token = nav[x][w].token
                                /\ x # t => w = y
                                /\ x = t => y = "stale"
    BY <1>2, <1>5, <1>6, <2>4
  <2> SUFFICES ASSUME NEW x \in Tabs, NEW y \in Slots, nav'[x][y].token # NoToken
               PROVE  /\ Novel(nav'[x][y].token, cookie', page', nav', theirs')
                      /\ \A v \in Tabs, w \in Slots :
                           nav'[v][w].token = nav'[x][y].token => v = x /\ w = y
    BY DEF TokensNovel
  <2>5. PICK z \in Slots : /\ nav'[x][y].token = nav[x][z].token
                           /\ x # t => z = y
                           /\ x = t => y = "stale"
    BY <2>4
  <2>6. Novel(nav'[x][y].token, cookie', page', nav', theirs')
    BY <2>1, <2>3, <2>5
  <2>7. ASSUME NEW v \in Tabs, NEW w \in Slots, nav'[v][w].token = nav'[x][y].token
        PROVE  v = x /\ w = y
    <3>1. PICK r \in Slots : /\ nav'[v][w].token = nav[v][r].token
                             /\ v # t => r = w
                             /\ v = t => w = "stale"
      BY <2>4, <2>7
    <3>2. nav[v][r].token = nav[x][z].token /\ nav[x][z].token # NoToken
      BY <2>5, <2>7, <3>1
    <3>3. v = x /\ r = z
      BY <2>3, <3>2
    <3> QED BY <2>5, <3>1, <3>3
  <2> QED BY <2>6, <2>7
<1> QED BY <1>7, <1>8, <1>9, <1>10 DEF SessionInv

\* Opening the form, submitting it, reloading a page and a POST from elsewhere
\* preserve the invariant.
LEMMA NavigationStep ==
  ASSUME SessionInv, NEW t \in Tabs,
         Open(t) \/ Submit(t) \/ Reload(t) \/ PostFromElsewhere(t)
  PROVE  SessionInv'
<1>1. /\ draws \in Nat /\ cookie \in {NoCookie} \cup 1..draws
      /\ page \in [Tabs -> PageType(draws)] /\ page[t] \in PageType(draws)
      /\ PageOK(page[t], cookie, draws, drawFailed)
  BY DEF SessionInv, JarOK, PagesOK
<1>2. ASSUME NEW what \in {"form", "submit", "thanks"}, NEW posted \in 0..draws,
             NEW cause \in {"visit", "click", "reload", "retry", "foreign"}
      PROVE  /\ Ask(what, posted, cause) \in AskType(draws)
             /\ Ask(what, posted, cause).what = what
             /\ Ask(what, posted, cause).posted = posted
             /\ Ask(what, posted, cause).cause = cause
  BY DEF Ask, AskType
<1>3. CASE Open(t)
  <2>1. Navigate(t, Ask("form", NoToken, "visit")) /\ page' = page
    BY <1>3 DEF Open
  <2>2. NoToken \in 0..draws
    BY <1>1 DEF NoToken
  <2> QED BY <1>1, <1>2, <2>1, <2>2, Navigated
<1>4. CASE PostFromElsewhere(t)
  <2>1. PICK token \in {NoToken} \cup theirs :
          Navigate(t, Ask("submit", token, "foreign")) /\ page' = page
    BY <1>4 DEF PostFromElsewhere
  <2>2. token \in 0..draws
    BY <1>1, <2>1 DEF NoToken, SessionInv, JarOK
  <2> DEFINE ask == Ask("submit", token, "foreign")
  <2>3. /\ ask \in AskType(draws) /\ ask.posted = token /\ ask.cause = "foreign"
    BY <1>2, <2>2
  <2> HIDE DEF ask
  <2>4. \A u : u # NoToken /\ Novel(u, cookie, page, nav, theirs) => ask.posted # u
    BY <2>1, <2>3 DEF Novel
  <2> QED BY <1>1, <2>1, <2>3, <2>4, Navigated DEF ask
<1>5. CASE Submit(t)
  <2> DEFINE ask == Ask("submit", page[t].token, "click")
  <2>1. Navigate(t, ask) /\ page' = [page EXCEPT ![t].typed = page[t].token]
    BY <1>5 DEF Submit
  <2>2. page[t].token \in 0..draws
    BY <1>1 DEF PageType
  <2>3. /\ ask \in AskType(draws) /\ ask.what = "submit" /\ ask.posted = page[t].token
        /\ ask.cause = "click"
    BY <1>2, <2>2
  <2> HIDE DEF ask
  <2>4. t \in fresh => cookie # NoCookie /\ cookie # NoToken /\ ask.posted = cookie
    BY <1>1, <2>3 DEF SessionInv, JarOK, NoToken, NoCookie
  <2>5. \A u : u # NoToken /\ Novel(u, cookie, page, nav, theirs) => ask.posted # u
    BY <2>3 DEF Novel
  <2>6. /\ page' \in [Tabs -> PageType(draws)]
        /\ \A x \in Tabs : /\ page'[x].shows = page[x].shows
                           /\ page'[x].token = page[x].token
                           /\ page'[x].again = page[x].again
                           /\ page'[x].typed \in {page[x].token, page[x].typed}
    BY <1>1, <2>1, <2>2 DEF PageType
  <2> QED BY <2>1, <2>3, <2>4, <2>5, <2>6, Navigated
<1>6. CASE Reload(t)
  <2> DEFINE a == page[t].again
             cause == CASE a.cause = "click" ->
                             IF page[t].shows = "neterror" THEN "retry" ELSE "reload"
                        [] a.cause = "retry" ->
                             IF page[t].shows = "neterror" THEN "retry" ELSE "reload"
                        [] OTHER -> a.cause
             ask == [a EXCEPT !.cause = cause]
  <2>1. Navigate(t, ask) /\ page' = page
    BY <1>6 DEF Reload
  <2>2. a \in AskType(draws)
    BY <1>1 DEF PageType
  <2>3. a.cause \in {"visit", "click", "reload", "retry", "foreign"}
    BY <2>2 DEF AskType
  <2>4. /\ cause \in {"visit", "reload", "retry", "foreign"}
        /\ cause = "foreign" => a.cause = "foreign"
        /\ cause = "reload" => page[t].shows # "neterror" \/ a.cause = "reload"
    BY <2>3
  <2> HIDE DEF cause
  <2>5. /\ ask \in AskType(draws) /\ ask.what = a.what /\ ask.posted = a.posted
        /\ ask.cause = cause
    BY <2>2, <2>4 DEF AskType
  <2> HIDE DEF ask
  <2>7. ask.what = "submit" /\ ask.cause = "reload" => Spent(ask, cookie, drawFailed)
    BY <1>1, <2>4, <2>5 DEF PageOK, Spent
  <2>8. \A u : u # NoToken /\ Novel(u, cookie, page, nav, theirs) => ask.posted # u
    BY <2>5 DEF Novel
  <2>9. ask.cause # "click"
    BY <2>4, <2>5
  <2> QED BY <1>1, <2>1, <2>5, <2>7, <2>8, <2>9, Navigated
<1> QED BY <1>3, <1>4, <1>5, <1>6

\* One navigation ends or starts over, its token may become the cookie, and the
\* page of its tab may change.
LEMMA Landed ==
  ASSUME SessionInv, NEW t \in Tabs, NEW s \in Slots, NEW m,
         nav' = [nav EXCEPT ![t][s] = m], NavOK(m, cookie', draws, drawFailed),
         m.token = NoToken, m.ask.posted \in {NoToken, nav[t][s].ask.posted},
         UNCHANGED <<draws, drawFailed, theirs>>, JarOK',
         \/ cookie' = cookie
         \/ nav[t][s].token # NoToken /\ cookie' = nav[t][s].token,
         page' \in [Tabs -> PageType(draws)],
         \A x \in Tabs \ {t} : page'[x] = page[x],
         \/ page'[t] = page[t]
         \/ /\ PageOK(page'[t], cookie', draws, drawFailed)
            /\ page'[t].token \in {NoToken, nav[t][s].token, page[t].typed}
            /\ page'[t].typed = page[t].typed
            /\ page'[t].again.posted \in {NoToken, nav[t][s].ask.posted}
  PROVE  SessionInv'
<1>1. draws \in Nat
  BY DEF SessionInv, JarOK
<1>2. \A x \in Tabs, y \in Slots : NavOK(nav[x][y], cookie, draws, drawFailed)
  BY DEF SessionInv, NavsOK
<1>3. \A x \in Tabs : PageOK(page[x], cookie, draws, drawFailed)
  BY DEF SessionInv, PagesOK
<1>4. m \in NavType(draws)
  BY DEF NavOK
<1>5. /\ nav' \in [Tabs -> [Slots -> NavType(draws)]] /\ nav'[t][s] = m
      /\ \A x \in Tabs, y \in Slots : (x = t /\ y = s) \/ nav'[x][y] = nav[x][y]
  BY <1>1, <1>4, SlotStep DEF SessionInv, NavsOK
\* Tokens known before, or not on their way, are not the new cookie.
<1>6. ASSUME NEW ask, Spent(ask, cookie, drawFailed),
             \A u : u # NoToken /\ Novel(u, cookie, page, nav, theirs) => ask.posted # u
      PROVE  Spent(ask, cookie', drawFailed)
  <2>1. CASE cookie' = cookie
    BY <1>6, <2>1
  <2>2. CASE nav[t][s].token # NoToken /\ cookie' = nav[t][s].token
    <3>1. Novel(nav[t][s].token, cookie, page, nav, theirs)
      BY <2>2 DEF SessionInv, TokensNovel
    <3>2. ask.posted # cookie'
      BY <1>6, <2>2, <3>1
    <3> QED BY <3>2 DEF Spent
  <2> QED BY <2>1, <2>2
<1>7. NavsOK'
  <2> SUFFICES ASSUME NEW x \in Tabs, NEW y \in Slots
               PROVE  NavOK(nav'[x][y], cookie', draws, drawFailed)
    BY <1>5 DEF NavsOK
  <2>1. CASE x = t /\ y = s
    BY <1>5, <2>1
  <2>2. CASE nav'[x][y] = nav[x][y]
    <3>1. \A u : u # NoToken /\ Novel(u, cookie, page, nav, theirs) => nav[x][y].ask.posted # u
      BY DEF Novel
    <3>2. NavOK(nav[x][y], cookie, draws, drawFailed)
      BY <1>2
    <3>3. Spent(nav[x][y].ask, cookie, drawFailed) => Spent(nav[x][y].ask, cookie', drawFailed)
      BY <1>6, <3>1
    <3>4. NavOK(nav[x][y], cookie', draws, drawFailed)
      BY <1>1, <3>2, <3>3, NavStays
    <3> QED BY <2>2, <3>4
  <2> QED BY <1>5, <2>1, <2>2
<1>8. PagesOK'
  <2> SUFFICES ASSUME NEW x \in Tabs
               PROVE  PageOK(page'[x], cookie', draws, drawFailed)
    BY DEF PagesOK
  <2>1. CASE page'[x] = page[x]
    <3>1. \A u : u # NoToken /\ Novel(u, cookie, page, nav, theirs) => page[x].again.posted # u
      BY DEF Novel
    <3>2. PageOK(page[x], cookie, draws, drawFailed)
      BY <1>3
    <3>3. Spent(page[x].again, cookie, drawFailed) => Spent(page[x].again, cookie', drawFailed)
      BY <1>6, <3>1
    <3>4. PageOK(page[x], cookie', draws, drawFailed)
      BY <1>1, <3>2, <3>3, PageStays
    <3> QED BY <2>1, <3>4
  <2>2. CASE page'[x] # page[x]
    BY <2>2
  <2> QED BY <2>1, <2>2
<1>9. TokensNovel'
  <2>1. ASSUME NEW u, u # NoToken, u # nav[t][s].token, Novel(u, cookie, page, nav, theirs)
        PROVE  Novel(u, cookie', page', nav', theirs')
    <3>1. cookie' # u /\ u \notin theirs'
      BY <2>1 DEF Novel
    <3>2. ASSUME NEW x \in Tabs
          PROVE  page'[x].token # u /\ page'[x].typed # u /\ page'[x].again.posted # u
      <4>1. /\ page[x].token # u /\ page[x].typed # u /\ page[x].again.posted # u
            /\ nav[t][s].ask.posted # u
        BY <2>1 DEF Novel
      <4>2. CASE page'[x] = page[x]
        BY <4>1, <4>2
      <4>3. CASE page'[x] # page[x]
        <5>1. x = t
          BY <4>3
        <5> QED BY <2>1, <4>1, <4>3, <5>1
      <4> QED BY <4>2, <4>3
    <3>3. ASSUME NEW x \in Tabs, NEW y \in Slots
          PROVE  nav'[x][y].ask.posted # u
      <4>1. nav[x][y].ask.posted # u /\ nav[t][s].ask.posted # u
        BY <2>1 DEF Novel
      <4> QED BY <1>5, <2>1, <4>1
    <3> QED BY <3>1, <3>2, <3>3 DEF Novel
  <2>2. \A x \in Tabs, y \in Slots : nav[x][y].token # NoToken =>
          /\ Novel(nav[x][y].token, cookie, page, nav, theirs)
          /\ \A v \in Tabs, w \in Slots :
               nav[v][w].token = nav[x][y].token => v = x /\ w = y
    BY DEF SessionInv, TokensNovel
  <2> SUFFICES ASSUME NEW x \in Tabs, NEW y \in Slots, nav'[x][y].token # NoToken
               PROVE  /\ Novel(nav'[x][y].token, cookie', page', nav', theirs')
                      /\ \A v \in Tabs, w \in Slots :
                           nav'[v][w].token = nav'[x][y].token => v = x /\ w = y
    BY DEF TokensNovel
  <2>3. ~(x = t /\ y = s) /\ nav'[x][y] = nav[x][y]
    BY <1>5
  <2>4. nav[x][y].token # nav[t][s].token
    BY <2>2, <2>3
  <2>5. Novel(nav'[x][y].token, cookie', page', nav', theirs')
    BY <2>1, <2>2, <2>3, <2>4
  <2>6. ASSUME NEW v \in Tabs, NEW w \in Slots, nav'[v][w].token = nav'[x][y].token
        PROVE  v = x /\ w = y
    <3>1. nav'[v][w] = nav[v][w]
      BY <1>5, <2>6
    <3> QED BY <2>2, <2>3, <2>6, <3>1
  <2> QED BY <2>5, <2>6
<1> QED BY <1>7, <1>8, <1>9 DEF SessionInv

\* Going back, and a lost message, preserve the invariant.
LEMMA BackAndLoseStep ==
  ASSUME SessionInv, NEW t \in Tabs, NEW s \in Slots, Back(t) \/ Lose(t, s)
  PROVE  SessionInv'
<1>1. /\ draws \in Nat /\ cookie \in {NoCookie} \cup 1..draws
      /\ page \in [Tabs -> PageType(draws)] /\ page[t] \in PageType(draws)
      /\ PageOK(page[t], cookie, draws, drawFailed)
      /\ nav \in [Tabs -> [Slots -> NavType(draws)]]
      /\ \A y \in Slots : NavOK(nav[t][y], cookie, draws, drawFailed)
      /\ NoToken \in 0..draws /\ "now" \in Slots
  BY DEF SessionInv, JarOK, PagesOK, NavsOK, NoToken, Slots
<1>2. CASE Back(t)
  <2> DEFINE g == [page[t] EXCEPT !.shows = "form", !.token = page[t].typed,
                                  !.again = Ask("form", NoToken, "visit")]
             m == nav[t]["now"]
  <2>1. /\ m.stage = "idle" /\ page' = [page EXCEPT ![t] = g]
        /\ fresh' = fresh \ {t}
        /\ UNCHANGED <<site, browser, cookie, nav, draws, drawFailed, faults, theirs>>
    BY <1>2, <1>1 DEF Back
  <2>2. Ask("form", NoToken, "visit") \in AskType(draws)
    BY <1>1 DEF Ask, AskType
  <2>3. /\ g.again = Ask("form", NoToken, "visit") /\ g.token = page[t].typed
        /\ g.typed = page[t].typed /\ g \in PageType(draws)
    BY <1>1, <2>2 DEF PageType
  <2> HIDE DEF g
  <2>4. PageOK(g, cookie', draws, drawFailed)
    BY <2>1, <2>3 DEF PageOK, Ask
  <2>5. page'[t] = g /\ page' \in [Tabs -> PageType(draws)]
        /\ \A x \in Tabs \ {t} : page'[x] = page[x]
    BY <1>1, <2>1, <2>3
  <2>6. nav' = [nav EXCEPT ![t]["now"] = m]
    BY <1>1, <2>1
  <2>7. m.token = NoToken /\ NavOK(m, cookie', draws, drawFailed)
    BY <1>1, <2>1 DEF NavOK
  <2>8. JarOK'
    BY <2>1, <2>5 DEF SessionInv, JarOK, Keeps
  <2>9. page'[t].again.posted = NoToken
    BY <2>3, <2>5 DEF Ask
  <2> HIDE DEF m
  <2>10. m.ask.posted = nav[t]["now"].ask.posted
    BY DEF m
  <2> QED BY <1>1, <2>1, <2>3, <2>4, <2>5, <2>6, <2>7, <2>8, <2>9, <2>10, Landed
<1>3. CASE Lose(t, s)
  <2>1. /\ nav' = [nav EXCEPT ![t][s] = Idle]
        /\ UNCHANGED <<site, browser, cookie, draws, drawFailed, theirs>>
    BY <1>3 DEF Lose
  <2>2. NavOK(Idle, cookie', draws, drawFailed) /\ Idle.token = NoToken
        /\ Idle.ask.posted = NoToken
    BY <1>1, <2>1, IdleOK
  <2>3. CASE s = "now"
    <3> DEFINE a == nav[t][s].ask
               g == [page[t] EXCEPT !.shows = "neterror", !.token = NoToken, !.again = a]
    <3>1. page' = [page EXCEPT ![t] = g] /\ fresh' = fresh \ {t}
      BY <1>1, <1>3, <2>3 DEF Lose
    <3>2. a \in AskType(draws) /\ NavOK(nav[t][s], cookie, draws, drawFailed)
      BY <1>1 DEF NavType
    <3>3. /\ g.again = a /\ g.token = NoToken /\ g.shows = "neterror"
          /\ g.typed = page[t].typed /\ g \in PageType(draws)
      BY <1>1, <3>2 DEF PageType
    <3> HIDE DEF g
    <3>4. PageOK(g, cookie', draws, drawFailed)
      BY <2>1, <3>2, <3>3 DEF PageOK, NavOK
    <3>5. page'[t] = g /\ page' \in [Tabs -> PageType(draws)]
          /\ \A x \in Tabs \ {t} : page'[x] = page[x]
      BY <1>1, <3>1, <3>3
    <3>6. JarOK'
      BY <2>1, <3>1, <3>5 DEF SessionInv, JarOK, Keeps
    <3> QED BY <2>1, <2>2, <3>3, <3>4, <3>5, <3>6, Landed
  <2>4. CASE s # "now"
    <3>1. page' = page /\ fresh' = fresh
      BY <1>3, <2>4 DEF Lose
    <3>2. JarOK'
      BY <2>1, <3>1 DEF SessionInv, JarOK, Keeps
    <3> QED BY <1>1, <2>1, <2>2, <3>1, <3>2, Landed
  <2> QED BY <2>3, <2>4
<1> QED BY <1>2, <1>3

\* What the jar and the freshest form become as a response with a token is read.
LEMMA CookieSet ==
  ASSUME SessionInv, NEW t \in Tabs, NEW token \in 0..draws, NEW shown \in BOOLEAN,
         SetCookie(t, token, shown), UNCHANGED <<site, draws, drawFailed, theirs>>,
         \A x \in Tabs \ {t} : page'[x] = page[x],
         shown => page'[t].token = token
  PROVE  /\ JarOK'
         /\ cookie' = IF token # NoToken /\ Keeps THEN token ELSE cookie
<1>1. CASE token # NoToken /\ Keeps
  <2>1. cookie' = token /\ fresh' = IF shown THEN {t} ELSE {}
    BY <1>1 DEF SetCookie
  <2> QED BY <1>1, <2>1 DEF SessionInv, JarOK, Keeps, NoToken, NoCookie
<1>2. CASE ~(token # NoToken /\ Keeps)
  <2>1. cookie' = cookie /\ fresh' = fresh \ {t}
    BY <1>2 DEF SetCookie
  <2> QED BY <1>2, <2>1 DEF SessionInv, JarOK, Keeps
<1> QED BY <1>1, <1>2

\* The arrival of an answer preserves the invariant: the request behind the page
\* that it shows is spent.
LEMMA ArrivesStep ==
  ASSUME SessionInv, NEW t \in Tabs, Arrives(t)
  PROVE  SessionInv'
<1> DEFINE r == nav[t]["now"]
<1>1. /\ draws \in Nat /\ cookie \in {NoCookie} \cup 1..draws
      /\ page \in [Tabs -> PageType(draws)] /\ page[t] \in PageType(draws)
      /\ nav \in [Tabs -> [Slots -> NavType(draws)]]
      /\ NavOK(r, cookie, draws, drawFailed) /\ r \in NavType(draws)
      /\ NoToken \in 0..draws /\ "now" \in Slots
  BY DEF SessionInv, JarOK, PagesOK, NavsOK, NoToken, Slots
<1>2. r.stage = "answered" /\ UNCHANGED <<site, browser, draws, drawFailed, theirs>>
  BY DEF Arrives
<1>3. CASE r.reply = "redirect"
  <2> DEFINE m == [Idle EXCEPT !.stage = "asked", !.ask = Ask("thanks", NoToken, "visit")]
  <2>1. nav' = [nav EXCEPT ![t]["now"] = m] /\ UNCHANGED <<cookie, page, fresh>>
    BY <1>3 DEF Arrives
  <2>2. Ask("thanks", NoToken, "visit") \in AskType(draws)
    BY <1>1 DEF Ask, AskType
  <2>3. /\ m.stage = "asked" /\ m.ask = Ask("thanks", NoToken, "visit") /\ m.token = NoToken
        /\ m.outcome = "none" /\ m.ask.posted = NoToken /\ m.ask.cause = "visit"
    BY DEF Idle, Ask
  <2>4. m \in NavType(draws)
    BY <1>1, <2>2, IdleOK DEF NavType
  <2> HIDE DEF m
  <2>5. NavOK(m, cookie', draws, drawFailed)
    BY <2>3, <2>4 DEF NavOK
  <2>6. JarOK'
    BY <1>2, <2>1 DEF SessionInv, JarOK, Keeps
  <2> QED BY <1>1, <1>2, <2>1, <2>3, <2>5, <2>6, Landed
<1>4. CASE r.reply # "redirect"
  <2> DEFINE g == [page[t] EXCEPT !.shows = r.reply, !.token = r.token, !.again = r.ask]
  <2>1. /\ nav' = [nav EXCEPT ![t]["now"] = Idle] /\ page' = [page EXCEPT ![t] = g]
        /\ SetCookie(t, r.token, TRUE)
    BY <1>1, <1>4 DEF Arrives
  <2>2. /\ r.ask \in AskType(draws) /\ r.token \in 0..draws
        /\ r.reply \in {"none", "form", "thanks", "redirect"}
    BY <1>1 DEF NavType
  <2>3. /\ g.again = r.ask /\ g.token = r.token /\ g.shows = r.reply
        /\ g.typed = page[t].typed /\ g \in PageType(draws)
    BY <1>1, <2>2 DEF PageType
  <2> HIDE DEF g
  <2>4. page'[t] = g /\ page' \in [Tabs -> PageType(draws)]
        /\ \A x \in Tabs \ {t} : page'[x] = page[x]
    BY <1>1, <2>1, <2>3
  <2>5. JarOK' /\ cookie' = IF r.token # NoToken /\ Keeps THEN r.token ELSE cookie
    BY <1>2, <2>1, <2>2, <2>3, <2>4, CookieSet
  <2>6. r.ask.what = "submit" => Spent(r.ask, cookie', drawFailed)
    <3>1. CASE r.token # NoToken /\ Keeps
      <4>1. r.ask.posted # r.token
        BY <1>1, <3>1 DEF SessionInv, TokensNovel, Novel
      <4> QED BY <2>5, <3>1, <4>1 DEF Spent
    <3>2. CASE r.token = NoToken
      BY <1>1, <1>2, <1>4, <3>2 DEF NavOK, Spent
    <3>3. CASE ~Keeps
      <4>1. cookie' = NoCookie
        BY <2>5, <3>3 DEF SessionInv, JarOK
      <4>2. r.ask.posted \in 0..draws
        BY <2>2 DEF AskType
      <4> QED BY <1>1, <4>1, <4>2 DEF Spent, NoCookie
    <3> QED BY <3>1, <3>2, <3>3
  <2>7. PageOK(g, cookie', draws, drawFailed)
    BY <1>1, <2>3, <2>6 DEF PageOK, NavOK
  <2>8. /\ NavOK(Idle, cookie', draws, drawFailed) /\ Idle.token = NoToken
        /\ Idle.ask.posted = NoToken
    BY <1>1, IdleOK
  <2>9. \/ cookie' = cookie
        \/ nav[t]["now"].token # NoToken /\ cookie' = nav[t]["now"].token
    BY <2>5
  <2> QED BY <1>1, <1>2, <2>1, <2>3, <2>4, <2>5, <2>7, <2>8, <2>9, Landed
<1> QED BY <1>3, <1>4

\* The answer to a navigation that was turned away preserves the invariant.
LEMMA ArrivesStaleStep ==
  ASSUME SessionInv, NEW t \in Tabs, ArrivesStale(t)
  PROVE  SessionInv'
<1> DEFINE r == nav[t]["stale"]
<1>1. /\ draws \in Nat /\ page \in [Tabs -> PageType(draws)] /\ "stale" \in Slots
      /\ r \in NavType(draws)
  BY DEF SessionInv, JarOK, PagesOK, NavsOK, Slots
<1>2. /\ nav' = [nav EXCEPT ![t]["stale"] = Idle]
      /\ UNCHANGED <<site, browser, page, draws, drawFailed, theirs>>
  BY DEF ArrivesStale
<1>3. /\ NavOK(Idle, cookie', draws, drawFailed) /\ Idle.token = NoToken
      /\ Idle.ask.posted = NoToken
  BY <1>1, IdleOK
<1>4. /\ JarOK'
      /\ \/ cookie' = cookie
         \/ nav[t]["stale"].token # NoToken /\ cookie' = nav[t]["stale"].token
  <2>1. CASE UNCHANGED <<cookie, fresh>>
    BY <1>2, <2>1 DEF SessionInv, JarOK, Keeps
  <2>2. CASE SetCookie(t, r.token, FALSE)
    <3>1. r.token \in 0..draws
      BY <1>1 DEF NavType
    <3>2. /\ JarOK'
          /\ cookie' = IF r.token # NoToken /\ Keeps THEN r.token ELSE cookie
      BY <1>2, <2>2, <3>1, CookieSet
    <3> QED BY <3>2
  <2> QED BY <2>1, <2>2 DEF ArrivesStale
<1> QED BY <1>1, <1>2, <1>3, <1>4, Landed

-----------------------------------------------------------------------------
(* The theorems                                                            *)

\* Another site draws a token for itself: one that is on its way to nobody.
LEMMA DrawElsewhereStep ==
  ASSUME SessionInv, DrawElsewhere
  PROVE  SessionInv'
<1>1. /\ draws \in Nat /\ draws' = draws + 1 /\ theirs' = theirs \cup {draws + 1}
      /\ UNCHANGED <<site, cookie, page, nav, fresh, drawFailed>>
  BY DEF SessionInv, JarOK, DrawElsewhere
<1>2. draws' \in Nat /\ draws <= draws'
  BY <1>1
<1>3. /\ NavType(draws) \subseteq NavType(draws') /\ PageType(draws) \subseteq PageType(draws')
  BY <1>1, <1>2, TypesGrow
<1>4. NavsOK'
  <2>1. nav' \in [Tabs -> [Slots -> NavType(draws')]]
    BY <1>1, <1>3 DEF SessionInv, NavsOK
  <2>2. ASSUME NEW t \in Tabs, NEW s \in Slots
        PROVE  NavOK(nav[t][s], cookie, draws', drawFailed)
    <3>1. NavOK(nav[t][s], cookie, draws, drawFailed)
      BY DEF SessionInv, NavsOK
    <3> QED BY <1>1, <1>2, <3>1, NavStays
  <2> QED BY <1>1, <2>1, <2>2 DEF NavsOK
<1>5. PagesOK'
  <2>1. page' \in [Tabs -> PageType(draws')]
    BY <1>1, <1>3 DEF SessionInv, PagesOK
  <2>2. ASSUME NEW t \in Tabs
        PROVE  PageOK(page[t], cookie, draws', drawFailed)
    BY <1>1, <1>2, PageStays DEF SessionInv, PagesOK
  <2> QED BY <1>1, <2>1, <2>2 DEF PagesOK
<1>6. JarOK'
  BY <1>1, <1>2 DEF SessionInv, JarOK, Keeps
<1>7. TokensNovel'
  <2>1. ASSUME NEW t \in Tabs, NEW s \in Slots
        PROVE  nav[t][s].token \in 0..draws
    BY DEF SessionInv, NavsOK, NavType
  <2>2. ASSUME NEW t \in Tabs, NEW s \in Slots, Novel(nav[t][s].token, cookie, page, nav, theirs)
        PROVE  Novel(nav[t][s].token, cookie, page, nav, theirs')
    BY <1>1, <2>1, <2>2 DEF Novel
  <2>3. ASSUME NEW t \in Tabs, NEW s \in Slots, nav[t][s].token # NoToken
        PROVE  /\ Novel(nav[t][s].token, cookie', page', nav', theirs')
               /\ \A x \in Tabs, y \in Slots :
                    nav[x][y].token = nav[t][s].token => x = t /\ y = s
    <3>1. /\ Novel(nav[t][s].token, cookie, page, nav, theirs)
          /\ \A x \in Tabs, y \in Slots :
               nav[x][y].token = nav[t][s].token => x = t /\ y = s
      BY <2>3 DEF SessionInv, TokensNovel
    <3>2. Novel(nav[t][s].token, cookie, page, nav, theirs')
      BY <2>2, <3>1
    <3> QED BY <1>1, <3>1, <3>2
  <2>4. nav' = nav
    BY <1>1
  <2> QED BY <2>3, <2>4 DEF TokensNovel
<1> QED BY <1>4, <1>5, <1>6, <1>7 DEF SessionInv

\* The invariant holds at first.
LEMMA InitInv == Init => SessionInv
<1> SUFFICES ASSUME Init PROVE SessionInv
  OBVIOUS
<1>1. /\ draws = 0 /\ cookie = NoCookie /\ fresh = {} /\ drawFailed = FALSE /\ theirs = {}
      /\ page = [t \in Tabs |-> NoPage] /\ nav = [t \in Tabs |-> [s \in Slots |-> Idle]]
  BY DEF Init
<1>2. \A t \in Tabs, s \in Slots : nav[t][s] = Idle
  BY <1>1
<1>3. \A t \in Tabs : page[t] = NoPage
  BY <1>1
<1>4. /\ Idle \in NavType(0) /\ NavOK(Idle, NoCookie, 0, FALSE) /\ Idle.token = NoToken
  BY IdleOK
<1>5. NavsOK
  BY <1>1, <1>2, <1>4 DEF NavsOK
<1>6. NoPage \in PageType(0) /\ PageOK(NoPage, NoCookie, 0, FALSE)
  <2>1. Ask("form", NoToken, "visit") \in AskType(0)
    BY DEF Ask, AskType, NoToken
  <2>2. NoPage \in PageType(0)
    BY <2>1 DEF NoPage, PageType, NoToken
  <2>3. NoPage.again.what = "form" /\ NoPage.again.posted = NoToken
    BY DEF NoPage, Ask
  <2> QED BY <2>2, <2>3 DEF PageOK
<1>7. PagesOK
  BY <1>1, <1>3, <1>6 DEF PagesOK
<1>8. JarOK
  BY <1>1 DEF JarOK
<1>9. TokensNovel
  BY <1>2, <1>4 DEF TokensNovel
<1> QED BY <1>5, <1>7, <1>8, <1>9 DEF SessionInv

\* Every step preserves the invariant.
LEMMA NextInv == SessionInv /\ [Next]_vars => SessionInv'
<1> SUFFICES ASSUME SessionInv, [Next]_vars PROVE SessionInv'
  OBVIOUS
<1>1. CASE Next
  <2>0. CASE DrawElsewhere
    BY <2>0, DrawElsewhereStep
  <2> SUFFICES ASSUME ~DrawElsewhere PROVE SessionInv'
    BY <2>0
  <2>1. PICK t \in Tabs :
          \/ Open(t) \/ Submit(t) \/ Reload(t) \/ Back(t) \/ PostFromElsewhere(t)
          \/ \E s \in Slots : \/ HandleForm(t, s) \/ HandleThanks(t, s) \/ Refuse(t, s)
                              \/ Process(t, s) \/ Lose(t, s)
          \/ Arrives(t) \/ ArrivesStale(t)
    BY <1>1 DEF Next
  <2>2. CASE Open(t) \/ Submit(t) \/ Reload(t) \/ PostFromElsewhere(t)
    BY <2>2, NavigationStep
  <2>3. CASE Back(t)
    BY <2>3, BackAndLoseStep DEF Slots
  <2>4. CASE \E s \in Slots : \/ HandleForm(t, s) \/ HandleThanks(t, s) \/ Refuse(t, s)
                              \/ Process(t, s)
    BY <2>4, ServerStep
  <2>5. CASE \E s \in Slots : Lose(t, s)
    BY <2>5, BackAndLoseStep
  <2>6. CASE Arrives(t)
    BY <2>6, ArrivesStep
  <2>7. CASE ArrivesStale(t)
    BY <2>7, ArrivesStaleStep
  <2> QED BY <2>1, <2>2, <2>3, <2>4, <2>5, <2>6, <2>7
<1>2. CASE UNCHANGED vars
  <2>1. UNCHANGED <<site, cookie, page, nav, fresh, draws, drawFailed, theirs>>
    BY <1>2 DEF vars
  <2>2. JarOK' /\ NavsOK' /\ PagesOK'
    BY <2>1 DEF SessionInv, JarOK, Keeps, NavsOK, PagesOK
  <2>3. TokensNovel'
    BY <2>1 DEF SessionInv, TokensNovel
  <2> QED BY <2>2, <2>3 DEF SessionInv
<1> QED BY <1>1, <1>2

\* The inductive invariant of the session: tokens on their way are new, requests
\* behind pages are spent, the freshest form's token is the cookie.
THEOREM SessionInvariance == Spec => []SessionInv
<1> QED BY InitInv, NextInv, PTL DEF Spec

\* server.go:38-39 and CHANGELOG.md:15: a reload of a page that the service sent,
\* the thanks or an error, never mails again, as long as tokens can be drawn.
THEOREM NoMailByReload == Spec => []ReloadNeverMails
<1>1. SessionInv => ReloadNeverMails
  BY DEF SessionInv, NavsOK, NavOK, ReloadNeverMails
<1> QED BY <1>1, SessionInvariance, PTL

-----------------------------------------------------------------------------
(* Another site                                                            *)

\* What is true of a navigation and of a page, h being the tokens of the other
\* site: its own requests post one of them or none, no request carries one as its
\* cookie.
ForeignNav(n, h) ==
  /\ n.cookie \notin h
  /\ n.ask.cause = "foreign" =>
       n.ask.posted \in {NoToken} \cup h /\ n.outcome # "mailed"

ForeignPage(g, h) == g.again.cause = "foreign" => g.again.posted \in {NoToken} \cup h

\* The browser's jar and the other site's never hold the same token.
ForeignInv ==
  /\ cookie \notin theirs
  /\ \A t \in Tabs, s \in Slots : ForeignNav(nav[t][s], theirs)
  /\ \A t \in Tabs : ForeignPage(page[t], theirs)

\* A step of the browser or the service keeps it so: a cookie that changes becomes
\* a token on its way, which is nobody's.
LEMMA ForeignKept ==
  ASSUME SessionInv, ForeignInv, theirs' = theirs,
         \/ cookie' = cookie
         \/ \E x \in Tabs, y \in Slots :
              nav[x][y].token # NoToken /\ cookie' = nav[x][y].token,
         \A x \in Tabs, y \in Slots :
           \/ \E w \in Slots : nav'[x][y] = nav[x][w]
           \/ ForeignNav(nav'[x][y], theirs),
         \A x \in Tabs : page'[x] = page[x] \/ ForeignPage(page'[x], theirs)
  PROVE  ForeignInv'
<1>1. cookie' \notin theirs
  BY DEF ForeignInv, SessionInv, TokensNovel, Novel
<1>2. \A x \in Tabs, y \in Slots : ForeignNav(nav'[x][y], theirs)
  BY DEF ForeignInv
<1>3. \A x \in Tabs : ForeignPage(page'[x], theirs)
  BY DEF ForeignInv
<1> QED BY <1>1, <1>2, <1>3 DEF ForeignInv

\* An answer: a mail only for a POST whose token is its cookie, and so not one of
\* the other site's.
LEMMA ForeignAnswered ==
  ASSUME SessionInv, ForeignInv, NEW t \in Tabs, NEW s \in Slots, NEW reply, NEW token,
         NEW outcome, Respond(t, s, reply, token, outcome),
         outcome = "mailed" => verifyCSRF(nav[t][s]),
         UNCHANGED <<site, browser, cookie, page, fresh, theirs>>
  PROVE  ForeignInv'
<1> DEFINE n == Replied(nav[t][s], reply, token, outcome)
<1>1. /\ draws \in Nat /\ theirs \subseteq 1..draws
      /\ nav \in [Tabs -> [Slots -> NavType(draws)]] /\ nav[t][s] \in NavType(draws)
  BY DEF SessionInv, JarOK, NavsOK
<1>2. nav' = [nav EXCEPT ![t][s] = n]
  BY <1>1, RespondReplaces DEF SessionInv
<1>3. n.ask = nav[t][s].ask /\ n.outcome = outcome /\ n.cookie = NoCookie
  BY <1>1 DEF NavType, Replied
<1> HIDE DEF n
<1>4. ForeignNav(n, theirs)
  <2>1. ForeignNav(nav[t][s], theirs)
    BY DEF ForeignInv
  <2>2. NoCookie \notin theirs
    BY <1>1 DEF NoCookie
  <2>3. outcome = "mailed" =>
          nav[t][s].ask.posted # NoToken /\ nav[t][s].ask.posted \notin theirs
    BY <2>1 DEF verifyCSRF, ForeignNav
  <2> QED BY <1>3, <2>1, <2>2, <2>3 DEF ForeignNav
<1>5. ASSUME NEW x \in Tabs, NEW y \in Slots
      PROVE  nav'[x][y] = nav[x][y] \/ nav'[x][y] = n
  BY <1>1, <1>2
<1>6. \A x \in Tabs, y \in Slots :
        \/ \E w \in Slots : nav'[x][y] = nav[x][w]
        \/ ForeignNav(nav'[x][y], theirs)
  BY <1>4, <1>5
<1> QED BY <1>6, ForeignKept

\* A navigation: its cookie is the jar's or none.
LEMMA ForeignNavigated ==
  ASSUME SessionInv, ForeignInv, NEW t \in Tabs, NEW ask \in AskType(draws),
         Navigate(t, ask),
         ask.cause = "foreign" => ask.posted \in {NoToken} \cup theirs,
         \A x \in Tabs : page'[x].again = page[x].again
  PROVE  ForeignInv'
<1>1. PICK n \in NavType(draws) :
        /\ n.stage = "asked" /\ n.ask = ask /\ n.fresh = (t \in fresh)
        /\ n.cookie = CookieSent(ask.cause)
        /\ n.token = NoToken /\ n.outcome = "none" /\ n.reply = "none"
        /\ nav'[t]["now"] = n
        /\ nav'[t]["stale"] = IF nav[t]["now"].stage = "idle" THEN nav[t]["stale"]
                              ELSE nav[t]["now"]
        /\ \A x \in Tabs \ {t} : nav'[x] = nav[x]
        /\ nav' \in [Tabs -> [Slots -> NavType(draws)]]
  BY NavigateReplaces
<1>2. cookie' = cookie /\ theirs' = theirs
  BY DEF Navigate
<1>3. ForeignNav(n, theirs)
  <2>1. NoCookie \notin theirs /\ cookie \notin theirs
    BY DEF SessionInv, JarOK, NoCookie, ForeignInv
  <2>2. n.cookie \notin theirs
    BY <1>1, <2>1 DEF CookieSent
  <2> QED BY <1>1, <2>2 DEF ForeignNav
<1>4. "now" \in Slots /\ "stale" \in Slots /\ \A y \in Slots : y = "now" \/ y = "stale"
  BY DEF Slots
<1>5. ASSUME NEW x \in Tabs, NEW y \in Slots
      PROVE  \/ \E w \in Slots : nav'[x][y] = nav[x][w]
             \/ ForeignNav(nav'[x][y], theirs)
  <2>1. CASE x # t
    <3>1. nav'[x][y] = nav[x][y]
      BY <1>1, <2>1
    <3> QED BY <3>1
  <2>2. CASE x = t /\ y = "now"
    BY <1>1, <1>3, <2>2
  <2>3. CASE x = t /\ y = "stale"
    BY <1>1, <1>4, <2>3
  <2> QED BY <1>4, <2>1, <2>2, <2>3
<1>6. ASSUME NEW x \in Tabs
      PROVE  ForeignPage(page'[x], theirs)
  <2>1. ForeignPage(page[x], theirs) /\ page'[x].again = page[x].again
    BY DEF ForeignInv
  <2> QED BY <2>1 DEF ForeignPage
<1> QED BY <1>2, <1>5, <1>6, ForeignKept

\* One navigation ends, and its request may become what a reload repeats.
LEMMA ForeignLanded ==
  ASSUME SessionInv, ForeignInv, NEW t \in Tabs, NEW s \in Slots, NEW m, NEW g,
         nav' = [nav EXCEPT ![t][s] = m], ForeignNav(m, theirs),
         page' = page \/ page' = [page EXCEPT ![t] = g],
         g.again.cause = "foreign" => g.again = nav[t][s].ask,
         theirs' = theirs,
         \/ cookie' = cookie
         \/ nav[t][s].token # NoToken /\ cookie' = nav[t][s].token
  PROVE  ForeignInv'
<1>1. /\ nav \in [Tabs -> [Slots -> NavType(draws)]] /\ page \in [Tabs -> PageType(draws)]
  BY DEF SessionInv, NavsOK, PagesOK
<1>2. ASSUME NEW x \in Tabs, NEW y \in Slots
      PROVE  nav'[x][y] = nav[x][y] \/ nav'[x][y] = m
  BY <1>1
<1>3. ForeignPage(g, theirs)
  <2>1. ForeignNav(nav[t][s], theirs)
    BY DEF ForeignInv
  <2> QED BY <2>1 DEF ForeignNav, ForeignPage
<1>4. ASSUME NEW x \in Tabs
      PROVE  page'[x] = page[x] \/ page'[x] = g
  BY <1>1
<1>5. \A x \in Tabs, y \in Slots :
        \/ \E w \in Slots : nav'[x][y] = nav[x][w]
        \/ ForeignNav(nav'[x][y], theirs)
  BY <1>2
<1>6. \A x \in Tabs : page'[x] = page[x] \/ ForeignPage(page'[x], theirs)
  BY <1>3, <1>4
<1>7. \/ cookie' = cookie
      \/ \E x \in Tabs, y \in Slots : nav[x][y].token # NoToken /\ cookie' = nav[x][y].token
  OBVIOUS
<1> QED BY <1>5, <1>6, <1>7, ForeignKept

\* The service's steps.
LEMMA ForeignServerStep ==
  ASSUME SessionInv, ForeignInv, NEW t \in Tabs, NEW s \in Slots,
         HandleForm(t, s) \/ HandleThanks(t, s) \/ Refuse(t, s) \/ Process(t, s)
  PROVE  ForeignInv'
<1>1. PICK reply, token, outcome :
        /\ Respond(t, s, reply, token, outcome)
        /\ outcome = "mailed" => verifyCSRF(nav[t][s])
        /\ UNCHANGED <<site, browser, cookie, page, fresh, theirs>>
  <2>1. CASE HandleForm(t, s)
    BY <2>1 DEF HandleForm, RenderForm
  <2>2. CASE HandleThanks(t, s)
    BY <2>2 DEF HandleThanks, Answer
  <2>3. CASE Refuse(t, s)
    BY <2>3 DEF Refuse, RenderForm
  <2>4. CASE Process(t, s)
    BY <2>4 DEF Process, RenderForm, Answer
  <2> QED BY <2>1, <2>2, <2>3, <2>4
<1> QED BY <1>1, ForeignAnswered

\* The browser's navigations, the other site's POST among them.
LEMMA ForeignNavigationStep ==
  ASSUME SessionInv, ForeignInv, NEW t \in Tabs,
         Open(t) \/ Submit(t) \/ Reload(t) \/ PostFromElsewhere(t)
  PROVE  ForeignInv'
<1>1. /\ draws \in Nat /\ theirs \subseteq 1..draws /\ NoToken \in 0..draws
      /\ page \in [Tabs -> PageType(draws)] /\ page[t] \in PageType(draws)
  BY DEF SessionInv, JarOK, PagesOK, NoToken
<1>2. ASSUME NEW what \in {"form", "submit", "thanks"}, NEW posted \in 0..draws,
             NEW cause \in {"visit", "click", "reload", "retry", "foreign"}
      PROVE  /\ Ask(what, posted, cause) \in AskType(draws)
             /\ Ask(what, posted, cause).posted = posted
             /\ Ask(what, posted, cause).cause = cause
  BY DEF Ask, AskType
<1>3. CASE Open(t)
  <2> DEFINE ask == Ask("form", NoToken, "visit")
  <2>1. Navigate(t, ask) /\ page' = page /\ ask \in AskType(draws) /\ ask.cause = "visit"
    BY <1>1, <1>2, <1>3 DEF Open
  <2> HIDE DEF ask
  <2> QED BY <2>1, ForeignNavigated
<1>4. CASE PostFromElsewhere(t)
  <2>1. PICK token \in {NoToken} \cup theirs :
          Navigate(t, Ask("submit", token, "foreign")) /\ page' = page
    BY <1>4 DEF PostFromElsewhere
  <2> DEFINE ask == Ask("submit", token, "foreign")
  <2>2. token \in 0..draws
    BY <1>1, <2>1
  <2>3. ask \in AskType(draws) /\ ask.posted = token
    BY <1>2, <2>2
  <2> HIDE DEF ask
  <2> QED BY <2>1, <2>3, ForeignNavigated DEF ask
<1>5. CASE Submit(t)
  <2> DEFINE ask == Ask("submit", page[t].token, "click")
  <2>1. Navigate(t, ask) /\ page' = [page EXCEPT ![t].typed = page[t].token]
    BY <1>5 DEF Submit
  <2>2. page[t].token \in 0..draws
    BY <1>1 DEF PageType
  <2>3. ask \in AskType(draws) /\ ask.cause = "click"
    BY <1>2, <2>2
  <2>4. \A x \in Tabs : page'[x].again = page[x].again
    BY <1>1, <2>1 DEF PageType
  <2> HIDE DEF ask
  <2> QED BY <2>1, <2>3, <2>4, ForeignNavigated
<1>6. CASE Reload(t)
  <2> DEFINE a == page[t].again
             cause == CASE a.cause = "click" ->
                             IF page[t].shows = "neterror" THEN "retry" ELSE "reload"
                        [] a.cause = "retry" ->
                             IF page[t].shows = "neterror" THEN "retry" ELSE "reload"
                        [] OTHER -> a.cause
             ask == [a EXCEPT !.cause = cause]
  <2>1. Navigate(t, ask) /\ page' = page
    BY <1>6 DEF Reload
  <2>2. a \in AskType(draws) /\ ForeignPage(page[t], theirs)
    BY <1>1 DEF PageType, ForeignInv
  <2>3. a.cause \in {"visit", "click", "reload", "retry", "foreign"}
    BY <2>2 DEF AskType
  <2>4. /\ cause \in {"visit", "reload", "retry", "foreign"}
        /\ cause = "foreign" => a.cause = "foreign"
    BY <2>3
  <2> HIDE DEF cause
  <2>5. ask \in AskType(draws) /\ ask.posted = a.posted /\ ask.cause = cause
    BY <2>2, <2>4 DEF AskType
  <2> HIDE DEF ask
  <2>6. ask.cause = "foreign" => ask.posted \in {NoToken} \cup theirs
    BY <2>2, <2>4, <2>5 DEF ForeignPage
  <2> QED BY <2>1, <2>5, <2>6, ForeignNavigated
<1> QED BY <1>3, <1>4, <1>5, <1>6

\* What arrives, what is lost, and the way back.
LEMMA ForeignArrivalStep ==
  ASSUME SessionInv, ForeignInv, NEW t \in Tabs, NEW s \in Slots,
         Back(t) \/ Lose(t, s) \/ Arrives(t) \/ ArrivesStale(t)
  PROVE  ForeignInv'
<1>1. /\ draws \in Nat /\ theirs \subseteq 1..draws
      /\ page[t] \in PageType(draws) /\ nav \in [Tabs -> [Slots -> NavType(draws)]]
      /\ "now" \in Slots /\ "stale" \in Slots
  BY DEF SessionInv, JarOK, PagesOK, NavsOK, Slots
<1>2. NoCookie \notin theirs
  BY <1>1 DEF NoCookie
<1>3. ForeignNav(Idle, theirs)
  BY <1>2 DEF ForeignNav, Idle, Ask
<1>4. CASE Back(t)
  <2> DEFINE g == [page[t] EXCEPT !.shows = "form", !.token = page[t].typed,
                                  !.again = Ask("form", NoToken, "visit")]
  <2>1. page' = [page EXCEPT ![t] = g] /\ UNCHANGED <<cookie, nav, theirs>>
    BY <1>4, <1>1 DEF Back, SessionInv, PagesOK
  <2>2. g.again.cause = "visit"
    BY <1>1 DEF PageType, Ask
  <2> HIDE DEF g
  <2>3. nav' = [nav EXCEPT ![t]["now"] = nav[t]["now"]]
    BY <1>1, <2>1
  <2>4. ForeignNav(nav[t]["now"], theirs)
    BY <1>1 DEF ForeignInv
  <2> QED BY <1>1, <2>1, <2>2, <2>3, <2>4, ForeignLanded
<1>5. CASE Lose(t, s)
  <2> DEFINE g == [page[t] EXCEPT !.shows = "neterror", !.token = NoToken,
                                  !.again = nav[t][s].ask]
  <2>1. nav' = [nav EXCEPT ![t][s] = Idle] /\ UNCHANGED <<cookie, theirs>>
    BY <1>5 DEF Lose
  <2>2. page' = page \/ page' = [page EXCEPT ![t] = g]
    BY <1>5 DEF Lose, SessionInv, PagesOK
  <2>3. g.again = nav[t][s].ask
    BY <1>1 DEF PageType
  <2> HIDE DEF g
  <2> QED BY <1>3, <2>1, <2>2, <2>3, ForeignLanded
<1>6. CASE Arrives(t) /\ nav[t]["now"].reply = "redirect"
  <2> DEFINE m == [Idle EXCEPT !.stage = "asked", !.ask = Ask("thanks", NoToken, "visit")]
  <2>1. nav' = [nav EXCEPT ![t]["now"] = m] /\ UNCHANGED <<cookie, page, theirs>>
    BY <1>6 DEF Arrives
  <2>2. ForeignNav(m, theirs)
    BY <1>2 DEF ForeignNav, Idle, Ask
  <2> HIDE DEF m
  <2> DEFINE g == [page[t] EXCEPT !.again = nav[t]["now"].ask]
  <2>3. g.again = nav[t]["now"].ask
    BY <1>1 DEF PageType
  <2> HIDE DEF g
  <2> QED BY <1>1, <2>1, <2>2, <2>3, ForeignLanded
<1>7. CASE Arrives(t) /\ nav[t]["now"].reply # "redirect"
  <2> DEFINE r == nav[t]["now"]
             g == [page[t] EXCEPT !.shows = r.reply, !.token = r.token, !.again = r.ask]
  <2>1. /\ nav' = [nav EXCEPT ![t]["now"] = Idle] /\ page' = [page EXCEPT ![t] = g]
        /\ SetCookie(t, r.token, TRUE) /\ theirs' = theirs
    BY <1>7 DEF Arrives, SessionInv, PagesOK
  <2>2. g.again = r.ask
    BY <1>1 DEF PageType
  <2>3. cookie' = cookie \/ (r.token # NoToken /\ cookie' = r.token)
    BY <2>1 DEF SetCookie
  <2> HIDE DEF g
  <2> QED BY <1>1, <1>3, <2>1, <2>2, <2>3, ForeignLanded
<1>8. CASE ArrivesStale(t)
  <2> DEFINE r == nav[t]["stale"]
             g == [page[t] EXCEPT !.again = r.ask]
  <2>1. nav' = [nav EXCEPT ![t]["stale"] = Idle] /\ UNCHANGED <<page, theirs>>
    BY <1>8 DEF ArrivesStale
  <2>2. g.again = r.ask
    BY <1>1 DEF PageType
  <2>3. cookie' = cookie \/ (r.token # NoToken /\ cookie' = r.token)
    BY <1>8 DEF ArrivesStale, SetCookie
  <2> HIDE DEF g
  <2> QED BY <1>1, <1>3, <2>1, <2>2, <2>3, ForeignLanded
<1> QED BY <1>4, <1>5, <1>6, <1>7, <1>8

\* Another site draws a token: one that the browser does not have.
LEMMA ForeignDrawStep ==
  ASSUME SessionInv, ForeignInv, DrawElsewhere
  PROVE  ForeignInv'
<1>1. /\ draws \in Nat /\ theirs' = theirs \cup {draws + 1}
      /\ UNCHANGED <<cookie, page, nav>> /\ cookie \in {NoCookie} \cup 1..draws
  BY DEF SessionInv, JarOK, DrawElsewhere
<1>2. cookie \notin theirs'
  BY <1>1 DEF ForeignInv, NoCookie
<1>3. ASSUME NEW t \in Tabs, NEW s \in Slots
      PROVE  ForeignNav(nav[t][s], theirs')
  <2>1. nav[t][s].cookie \in {NoCookie} \cup 0..draws
    BY DEF SessionInv, NavsOK, NavType
  <2>2. ForeignNav(nav[t][s], theirs)
    BY DEF ForeignInv
  <2> QED BY <1>1, <2>1, <2>2 DEF ForeignNav, NoCookie
<1>4. ASSUME NEW t \in Tabs
      PROVE  ForeignPage(page[t], theirs')
  BY <1>1 DEF ForeignInv, ForeignPage
<1> QED BY <1>1, <1>2, <1>3, <1>4 DEF ForeignInv

\* The tokens of the other site stay out of the browser's jar.
LEMMA ForeignInvariance == Spec => []ForeignInv
<1>1. Init => ForeignInv
  BY DEF Init, ForeignInv, ForeignNav, ForeignPage, Idle, NoPage, Ask
<1>2. SessionInv /\ ForeignInv /\ [Next]_vars => ForeignInv'
  <2> SUFFICES ASSUME SessionInv, ForeignInv, [Next]_vars PROVE ForeignInv'
    OBVIOUS
  <2>1. CASE DrawElsewhere
    BY <2>1, ForeignDrawStep
  <2>2. CASE \E t \in Tabs : Open(t) \/ Submit(t) \/ Reload(t) \/ PostFromElsewhere(t)
    BY <2>2, ForeignNavigationStep
  <2>3. CASE \E t \in Tabs, s \in Slots :
               HandleForm(t, s) \/ HandleThanks(t, s) \/ Refuse(t, s) \/ Process(t, s)
    BY <2>3, ForeignServerStep
  <2>4. CASE \E t \in Tabs, s \in Slots :
               Back(t) \/ Lose(t, s) \/ Arrives(t) \/ ArrivesStale(t)
    BY <2>4, ForeignArrivalStep
  <2>5. CASE UNCHANGED vars
    BY <2>5 DEF vars, ForeignInv
  <2>6. "now" \in Slots
    BY DEF Slots
  <2> QED BY <2>1, <2>2, <2>3, <2>4, <2>5, <2>6 DEF Next
<1> QED BY <1>1, <1>2, SessionInvariance, PTL DEF Spec

\* verifyCSRF and sameOrigin (server.go:349-399): a POST that a page of another site
\* makes never mails, whatever tokens of the service's its site has drawn, whatever
\* the browser heeds and however answers overtake each other.
THEOREM NoMailFromElsewhere == Spec => []ElsewhereNeverMails
<1>1. ForeignInv => ElsewhereNeverMails
  BY DEF ForeignInv, ForeignNav, ElsewhereNeverMails
<1> QED BY <1>1, ForeignInvariance, PTL

\* renderForm and issueCSRF (server.go:349-376, 477): however many tabs share the
\* cookie, a click on the form that was the last to arrive is never refused for
\* its token.
THEOREM FreshAccepted == Spec => []FreshFormAccepted
<1>1. SessionInv => FreshFormAccepted
  BY DEF SessionInv, NavsOK, NavOK, FreshFormAccepted
<1> QED BY <1>1, SessionInvariance, PTL
===============================================================================
