------------------------------- MODULE WebRequests -------------------------------
(***************************************************************************)
(* The session of a front end and the requests that its pages make: the web *)
(* application (web/), the employees' portal (colaborador/) and the desk of *)
(* the platform (admin/).  The session is in cookies: an access token of    *)
(* minutes and, except in the portal, a refresh token of days, which is not *)
(* rotated and may be used any number of times (auth/router.py).            *)
(*                                                                          *)
(* A request starts in a tab (Click), is sent, may renew the session and be *)
(* sent once more, and its answer arrives with the cookies it sets          *)
(* (Arrive).  A request sees the cookies it came with and its own changes.  *)
(* A call stands for those of its front end, its kind, and the same needs:  *)
(* WebCalls has them one by one, Routes what serves them.  A token that was *)
(* renewed for a request does not lapse before that request is answered.    *)
(***************************************************************************)
EXTENDS Integers

CONSTANTS
    Classes, \* what the session tells apart of the calls (WebCalls)
    Tab,     \* tabs, each with one request at a time
    Kinds    \* bound: the kinds of calls of every tab

VARIABLES
    app,      \* the front end: "web", "portal" or "desk"
    jar,      \* the cookies of the browser
    active,   \* the account may be used
    tabs,     \* the request of every tab
    signedIn, \* history: signed in since the last logout
    revived   \* history: a request that was underway at a logout has set the cookies

vars == <<app, jar, active, tabs, signedIn, revived>>

PortalKinds == {"portalEnter", "act", "look", "quiet", "download"}
DeskKinds == {"desk", "deskPage", "deskEnter"}

FrontOf(kind) ==
    CASE kind \in PortalKinds -> "portal" [] kind \in DeskKinds -> "desk" [] OTHER -> "web"

SignIns == {"enter", "portalEnter", "deskEnter"}

\* tryRefreshToken: not in the portal, which has no refresh token, and not where
\* a file is sent or for a customer.
Renewing == {"save", "listed", "read", "ignored", "plain", "strict", "guarded", "desk", "deskPage"}

\* middleware.ts leaves out what is under api/, the public quotes, /sso and
\* /impersonate; the others need the access cookie to get as far as the page or
\* the action, and so does the proxy of the desk.
PastMiddleware == {"proxied", "download", "public", "enter"}

------------------------------------------------------------------------------
(* What the caller makes of an answer.                                      *)

Answer(session, unauthorized, refused, lost) ==
    [session |-> session, unauthorized |-> unauthorized, refused |-> refused, lost |-> lost]

\* thrown: the error page; told: a message; empty: shown as if there were
\* nothing; nothing: not looked at; login: back to the login page.
Answers ==
    [save |-> Answer("thrown", "thrown", "told", "thrown"),
     listed |-> Answer("thrown", "thrown", "empty", "thrown"),
     read |-> Answer("thrown", "empty", "empty", "thrown"),
     ignored |-> Answer("thrown", "nothing", "nothing", "thrown"),
     plain |-> Answer("thrown", "told", "told", "thrown"),
     strict |-> Answer("thrown", "thrown", "thrown", "thrown"),
     guarded |-> Answer("told", "told", "told", "told"),
     upload |-> Answer("thrown", "thrown", "told", "thrown"),
     open |-> Answer("thrown", "told", "told", "thrown"),
     public |-> Answer("told", "told", "told", "told"),
     proxied |-> Answer("told", "told", "told", "told"),
     enter |-> Answer("told", "told", "told", "thrown"),
     portalEnter |-> Answer("told", "told", "told", "thrown"),
     act |-> Answer("login", "login", "told", "login"),
     look |-> Answer("login", "login", "empty", "login"),
     quiet |-> Answer("empty", "empty", "empty", "empty"),
     download |-> Answer("told", "told", "told", "told"),
     desk |-> Answer("login", "login", "told", "told"),
     deskPage |-> Answer("empty", "empty", "empty", "empty"),
     deskEnter |-> Answer("told", "told", "told", "thrown")]

\* What became of a request, and what the user is shown of it.
Shown(call, cause) ==
    CASE cause = "served" -> IF call.kind = "ignored" THEN "nothing" ELSE "done"
      [] cause = "away" -> "login"
      [] OTHER -> Answers[call.kind][cause]

------------------------------------------------------------------------------

NoCookies == [access |-> "none", refresh |-> "none"]
Fresh == [access |-> "valid", refresh |-> IF app = "portal" THEN "none" ELSE "valid"]

Idle == [step |-> "idle"]

Init ==
    /\ app \in {"web", "portal", "desk"}
    /\ jar = NoCookies /\ active = TRUE
    /\ tabs = [t \in Tab |-> Idle]
    /\ signedIn = FALSE /\ revived = FALSE

\* middleware.ts, then the start of getValidToken, of authedFetch or of the desk's
\* proxy.  (authedFetch, too, would renew what is not there, but its request has
\* been turned away.)
Click(t, call) ==
    LET away == call.kind \notin PastMiddleware \cup SignIns /\ jar.access = "none"
        over == call.kind \in {"proxied", "download"} /\ jar.access = "none"
        renews == call.kind = "proxied" /\ jar.refresh = "valid"
        step == IF away \/ (over /\ ~renews) THEN "answered" ELSE IF over THEN "renew" ELSE "send"
    IN  /\ tabs[t] = Idle /\ FrontOf(call.kind) = app /\ call.kind \in Kinds[t]
        /\ call.kind \in {"portalEnter", "deskEnter"} => jar.access = "none"
        /\ tabs' = [tabs EXCEPT ![t] =
              [step |-> step, call |-> call, token |-> jar.access, refresh |-> jar.refresh,
               renewed |-> FALSE, hindered |-> FALSE, served |-> 0, late |-> FALSE,
               cause |-> IF away THEN "away" ELSE IF step = "answered" THEN "session" ELSE "served"]]
        /\ UNCHANGED <<app, jar, active, signedIn, revived>>

\* tryRefreshToken: refused to an account that may not be used, or beyond the 20
\* of a minute; the network may fail, and a page that is being rendered may not
\* be allowed to set the cookies.
Renew(t) ==
    /\ tabs[t].step = "renew"
    /\ \/ active /\ tabs' = [tabs EXCEPT ![t].step = "send", ![t].token = "valid", ![t].renewed = TRUE]
       \/ ~active /\ tabs' = [tabs EXCEPT ![t].step = "answered", ![t].cause = "session"]
       \/ \E cause \in {"session", "lost"} :
            tabs' = [tabs EXCEPT ![t].step = "answered", ![t].cause = cause, ![t].hindered = TRUE]
    /\ UNCHANGED <<app, jar, active, signedIn, revived>>

\* (As RenewsAfter, of whatever failed.)
RenewsAfterAll(t, status) ==
    status # 200 /\ tabs[t].call.kind \in Renewing /\ ~tabs[t].renewed /\ tabs[t].refresh = "valid"

\* (As RenewsAfter, never.)
RenewsNever(t, status) == FALSE

\* A 401 is answered by renewing and sending once more, if there is something to
\* renew with.
RenewsAfter(t, status) ==
    status = 401 /\ tabs[t].call.kind \in Renewing /\ ~tabs[t].renewed /\ tabs[t].refresh = "valid"

Returns(t, status, served, cause) ==
    tabs' = [tabs EXCEPT ![t].step = IF RenewsAfter(t, status) THEN "renew" ELSE "answered",
                         ![t].cause = IF RenewsAfter(t, status) THEN @ ELSE cause,
                         ![t].served = @ + served]

\* current_user
Authorized(t) == tabs[t].token = "valid" /\ active

\* The request at the server and its way there and back.  A login is refused with
\* a 401 of its own, for which nothing is renewed.
Serve(t) ==
    /\ tabs[t].step = "send"
    /\ \/ /\ tabs[t].call.guarded /\ ~Authorized(t)
          /\ Returns(t, 401, 0, IF tabs[t].call.kind \in Renewing /\ ~tabs[t].renewed
                               THEN "session" ELSE "unauthorized")
       \/ /\ tabs[t].call.guarded => Authorized(t)
          /\ \/ Returns(t, 422, 0, "refused")
             \/ /\ tabs[t].call.kind \in SignIns => active
                /\ Returns(t, 200, 1, "served") \/ Returns(t, 0, 1, "lost")
       \/ Returns(t, 0, 0, "lost")
    /\ UNCHANGED <<app, jar, active, signedIn, revived>>

\* setTokenCookies after a sign-in or a renewal, clearEmployeeTokenCookie after a
\* 401 in the portal.  An action that throws may lose the cookies it has set.
CookiesOf(r) ==
    CASE r.renewed \/ (r.call.kind \in SignIns /\ r.cause = "served") -> Fresh
      [] r.call.kind \in PortalKinds \ {"download"} /\ r.cause = "unauthorized" -> NoCookies
      [] OTHER -> jar

Arrive(t) ==
    LET r == tabs[t]
    IN  /\ r.step = "answered"
        /\ jar' \in IF r.cause = "served" THEN {CookiesOf(r)} ELSE {CookiesOf(r), jar}
        /\ signedIn' = (signedIn \/ (r.call.kind \in SignIns /\ r.cause = "served"))
        /\ revived' = (revived \/ (r.late /\ jar' # jar /\ jar' # NoCookies))
        /\ tabs' = [tabs EXCEPT ![t] = Idle]
        /\ UNCHANGED <<app, active>>

\* (As Logout, of the access token alone.)
LogoutKeeps ==
    /\ jar.access # "none"
    /\ jar' = [jar EXCEPT !.access = "none"]
    /\ tabs' = [t \in Tab |-> IF tabs[t] = Idle THEN Idle ELSE [tabs[t] EXCEPT !.late = TRUE]]
    /\ signedIn' = FALSE /\ revived' = FALSE
    /\ UNCHANGED <<app, active>>

\* logoutAction, an action of a page: it is not reached without the access cookie.
Logout ==
    /\ jar.access # "none"
    /\ jar' = NoCookies
    /\ tabs' = [t \in Tab |-> IF tabs[t] = Idle THEN Idle ELSE [tabs[t] EXCEPT !.late = TRUE]]
    /\ signedIn' = FALSE /\ revived' = FALSE
    /\ UNCHANGED <<app, active>>

\* The access token lapses, and so do the older ones that requests still carry.
Lapse ==
    /\ jar.access = "valid" \/ \E t \in Tab : tabs[t] # Idle /\ tabs[t].token = "valid" /\ ~tabs[t].renewed
    /\ jar' = [jar EXCEPT !.access = IF @ = "valid" THEN "lapsed" ELSE @]
    /\ tabs' = [t \in Tab |-> IF tabs[t] # Idle /\ tabs[t].token = "valid" /\ ~tabs[t].renewed
                              THEN [tabs[t] EXCEPT !.token = "lapsed"] ELSE tabs[t]]
    /\ UNCHANGED <<app, active, signedIn, revived>>

\* maxAge: the cookie of the access token goes with it, that of the refresh token
\* after its seven days.
Forget ==
    /\ \/ jar.access = "lapsed" /\ jar' = [jar EXCEPT !.access = "none"]
       \/ jar.refresh = "valid" /\ jar' = [jar EXCEPT !.refresh = "none"]
    /\ UNCHANGED <<app, active, tabs, signedIn, revived>>

\* The account is deactivated or deleted, or its tenant is suspended.
Deactivate ==
    /\ active
    /\ active' = FALSE
    /\ UNCHANGED <<app, jar, tabs, signedIn, revived>>

Next ==
    \/ \E t \in Tab : (\E call \in Classes : Click(t, call)) \/ Renew(t) \/ Serve(t) \/ Arrive(t)
    \/ Logout \/ Lapse \/ Forget \/ Deactivate

Spec == Init /\ [][Next]_vars

------------------------------------------------------------------------------
(* Properties.                                                              *)

Answered == {t \in Tab : tabs[t].step = "answered"}

\* Every variable keeps its type.
TypeOK ==
    /\ jar.access \in {"valid", "lapsed", "none"} /\ jar.refresh \in {"valid", "none"}
    /\ app = "portal" => jar.refresh = "none"
    /\ {active, signedIn, revived} \subseteq BOOLEAN
    /\ \A t \in Tab : tabs[t].step \in {"idle", "send", "renew", "answered"}
    /\ \A t \in Answered : tabs[t].cause \in {"served", "away"} \cup DOMAIN Answers[tabs[t].call.kind]

\* Renewed or not, a request is carried out once at most; it is if the user is
\* shown that it is done, and only a loss on the way back shows him something
\* else of what was done (or nobody looks).
ShownAsDone ==
    \A t \in Tab : tabs[t] # Idle =>
        /\ tabs[t].served <= 1
        /\ t \in Answered =>
             LET shown == Shown(tabs[t].call, tabs[t].cause)
             IN  /\ shown = "done" => tabs[t].served = 1
                 /\ tabs[t].served = 1 => shown \in {"done", "nothing"} \/ tabs[t].cause = "lost"

\* A request that got past the middleware with a refresh token is not turned away
\* for its access token, however many tabs renew at the same time, unless the
\* renewal itself was hindered.
RenewedWhenPossible ==
    \A t \in Answered :
        /\ tabs[t].call.kind \in Renewing \cup {"proxied"} /\ tabs[t].refresh = "valid" /\ active
        /\ ~tabs[t].hindered
        /\ tabs[t].cause \in {"session", "unauthorized"}
        => tabs[t].call.kind = "proxied" /\ tabs[t].cause = "unauthorized" /\ ~tabs[t].renewed

\* Who has logged out stays so, but for a request that was underway and renews.
SignedOutStaysOut == jar # NoCookies => signedIn \/ revived

RequestsAreRight == ShownAsDone /\ RenewedWhenPossible /\ SignedOutStaysOut
=============================================================================
