------------------------------ MODULE WebSession ------------------------------
(***************************************************************************)
(* A browser on top of IdentityService: one cookie jar shared by all tabs, *)
(* one synchronizer token per tab, requests in flight at the same time and *)
(* answers that arrive in any order or not at all.  The handlers are those *)
(* of api/v1/auth.py; a mutation is any handler that depends on            *)
(* require_authenticated_mutation.                                         *)
(*                                                                         *)
(* The tabs are clients of the documented API, not of the repository's     *)
(* frontend, which sends none of these requests: a tab sends the last      *)
(* token an answer gave it, and the browser the cookie it holds.           *)
(***************************************************************************)
EXTENDS IdentityService

CONSTANT Tabs

VARIABLES
    jar,        \* the session cookie
    token,      \* the csrf token each tab holds, named by its session
    request,    \* what each call was sent as: kind, tab, cookie and csrf token
    context,    \* AuthenticatedContext of each call: user and csrf token
    rows,       \* committed by mutations: call and owner
    answered    \* calls whose answer has arrived, or that have committed

web == <<jar, token, request, context, rows, answered>>

----------------------------------------------------------------------------
WebInit ==
    /\ Init
    /\ jar = Null
    /\ token = [t \in Tabs |-> Null]
    /\ request = [c \in Calls |-> Null]
    /\ context = [c \in Calls |-> Null]
    /\ rows = {}
    /\ answered = {}

----------------------------------------------------------------------------
(* Requests.                                                               *)

\* The browser adds the cookie it holds, the tab the token it holds.
Send(c, t, kind) ==
    /\ request' = [request EXCEPT ![c] =
           [kind |-> kind, tab |-> t, cookie |-> jar, csrf |-> token[t]]]
    /\ UNCHANGED <<jar, token, context, rows, answered>>

SignIn(c, t) ==
    /\ \E e \in Emails, p \in Passwords : StartRegister(c, e, p) \/ StartLogin(c, e, p)
    /\ Send(c, t, "sign_in")

\* get_session_cookie found a cookie; without one the answer is 401.
SendAuthenticated(c, t, kind) ==
    /\ jar # Null
    /\ StartAuthenticate(c, jar)
    /\ Send(c, t, kind)

SendLogout(c, t) ==
    /\ jar # Null
    /\ StartLogout(c, jar, token[t] = jar)
    /\ Send(c, t, "logout")

\* logout without a cookie: ALREADY_INACTIVE before the clock is read.
LogoutWithoutCookie(c, t) ==
    /\ jar = Null
    /\ cpc[c] = "idle"
    /\ Goto(c, "done")
    /\ UNCHANGED <<clock, users, sessions, call, now, verified, late, refused>>
    /\ Send(c, t, "logout")

----------------------------------------------------------------------------
(* The server.                                                             *)

\* The steps of IdentityService that the browser does not see.
ServeIdentity(c) ==
    /\ \/ Register(c) \/ ReadCredentials(c) \/ VerifyPassword(c) \/ IssueSession(c)
       \/ Cleanup(c) \/ Logout(c)
    /\ UNCHANGED web

\* require_authenticated_context: the row is read once, with its touch, and
\* the rest of the request works with the copy.
AuthenticateContext(c) ==
    LET s == call[c].token IN
    /\ AuthenticateAndTouch(c)
    /\ context' = IF cpc'[c] = "granted"
                  THEN [context EXCEPT ![c] = [user |-> sessions[s].user_id, csrf |-> s]]
                  ELSE context
    /\ UNCHANGED <<jar, token, request, rows, answered>>

\* Mutant: the synchronizer token is not compared.
CsrfMatchesAlways(c) == TRUE

\* require_authenticated_mutation.
CsrfMatches(c) == request[c].csrf = context[c].csrf

\* The mutation's own transaction, for the owner in the context; the session
\* is not looked at again.
Commit(c) ==
    /\ cpc[c] = "granted"
    /\ request[c].kind = "mutate"
    /\ c \notin answered
    /\ rows' = IF CsrfMatches(c)
               THEN rows \cup {[call |-> c, owner |-> context[c].user]}
               ELSE rows
    /\ answered' = answered \cup {c}
    /\ UNCHANGED <<vars, jar, token, request, context>>

----------------------------------------------------------------------------
(* Answers.                                                                *)

\* set_session_cookie and the token of the body, for register, login.
AcceptSignIn(c) ==
    /\ cpc[c] = "done" /\ request[c].kind = "sign_in"
    /\ jar' = c
    /\ token' = [token EXCEPT ![request[c].tab] = c]

\* me gives the token of the cookie's session.
AcceptMe(c) ==
    /\ cpc[c] = "granted" /\ request[c].kind = "me"
    /\ token' = [token EXCEPT ![request[c].tab] = context[c].csrf]
    /\ UNCHANGED jar

\* expire_session_cookie, whatever cookie the browser holds by now.
AcceptLogout(c) ==
    /\ cpc[c] = "done" /\ request[c].kind = "logout"
    /\ jar' = Null
    /\ UNCHANGED token

\* An answer arrives at any later time; one that never does is lost.  An error
\* answer changes nothing.
Deliver(c) ==
    /\ c \notin answered
    /\ AcceptSignIn(c) \/ AcceptMe(c) \/ AcceptLogout(c)
    /\ answered' = answered \cup {c}
    /\ UNCHANGED <<vars, request, context, rows>>

----------------------------------------------------------------------------
AllServed ==
    /\ \A c \in Calls : cpc[c] \in {"granted", "done", "refused"}
    /\ UNCHANGED <<vars, web>>

\* Time passes while requests and answers are under way.
WebNext ==
    \/ Tick /\ UNCHANGED web
    \/ \E c \in Calls, t \in Tabs :
          \/ SignIn(c, t) \/ SendLogout(c, t) \/ LogoutWithoutCookie(c, t)
          \/ SendAuthenticated(c, t, "me") \/ SendAuthenticated(c, t, "mutate")
    \/ \E c \in Calls :
          ServeIdentity(c) \/ AuthenticateContext(c) \/ Commit(c) \/ Deliver(c)
    \/ AllServed

WebSpec == WebInit /\ [][WebNext]_<<vars, web>>

----------------------------------------------------------------------------
(* Properties.                                                             *)

\* The account of a session.
AccountOf(s) == IF call[s].op = "register" THEN s ELSE verified[s].user_id

\* A tab works for the account it shows: when another tab has signed in as
\* somebody else, the shared cookie already names the new session, and the
\* mutation of the first tab is refused rather than committed for the wrong
\* owner.
TabActsAsItself ==
    \A r \in rows :
        /\ request[r.call].csrf # Null
        /\ r.owner = AccountOf(request[r.call].csrf)

\* A mutation sent after its session was revoked commits nothing, although the
\* answer to the logout may be late or lost and the cookie still there.  (One
\* that was authenticated before the logout may commit after it: the context
\* is not read again.)
NoWorkAfterLogout == \A r \in rows : r.call \notin late

\* Authentication b of session s had read the clock before logout c did, but
\* touched the session after it: before it, the logout would have found the
\* session active.
Overtook(c, b, s) ==
    /\ cpc[b] = "granted"
    /\ call[b].token = s
    /\ now[b] < now[c]
    /\ now[b] > now[c] - IDLE_TIMEOUT

\* The session of the cookie that logout c carried is gone, or not active at
\* the time of the logout or later, or was touched by a request it overtook.
SignedOut(c) ==
    LET s == request[c].cookie IN
    \/ sessions[s] = NoSession
    \/ ~Touchable(sessions[s], now[c])
    \/ \E b \in Calls : Overtook(c, b, s)

\* "server-side logout revocation": a session is revoked only by a logout that
\* carried both its cookie and its token, so a stale tab cannot sign out the
\* account that has signed in since.  And a logout that is answered with 204
\* leaves no session that is still active, with one exception: it found the
\* session idle-expired, and revoked nothing, while an authentication with an
\* older clock value was still under way.
LogoutIsExact ==
    /\ \A s \in Calls :
          sessions[s] # NoSession /\ sessions[s].revoked_at # NotRevoked =>
              \E c \in Calls : /\ cpc[c] = "done"
                               /\ request[c].kind = "logout"
                               /\ request[c].cookie = s
                               /\ request[c].csrf = s
    /\ \A c \in Calls :
          cpc[c] = "done" /\ request[c].kind = "logout" /\ request[c].cookie # Null =>
              SignedOut(c)

=============================================================================
