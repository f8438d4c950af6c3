-------------------------- MODULE WebSessionProofs --------------------------
(***************************************************************************)
(* TLAPS proofs about WebSession, for every set of tabs, calls, accounts   *)
(* and addresses: what the cookie jar and the synchronizer tokens of a     *)
(* browser guarantee on top of the identity service.                       *)
(*                                                                         *)
(* The properties follow from the inductive invariant WebInv, which rests  *)
(* on IdentityInv.  Its argument: the csrf token of an AuthenticatedContext*)
(* names the very session of the cookie, a session's row belongs to the    *)
(* account that signed in as it (SessionsHaveAccounts), and neither the    *)
(* request nor the context of a call changes once it is sent or granted.   *)
(* A touch with an old clock value (TouchAfterLogout) is why a logout that *)
(* found the session idle-expired does not always sign it out.             *)
(***************************************************************************)
EXTENDS WebSession, IdentityServiceProofs

----------------------------------------------------------------------------
(* The inductive invariant.                                                *)

Request == [kind : {"sign_in", "me", "mutate", "logout"}, tab : Tabs,
            cookie : Calls \cup {Null}, csrf : Calls \cup {Null}]

\* The jar and the tabs hold sessions of calls that have answered.
BrowserTyped ==
    /\ jar \in Calls \cup {Null}
    /\ jar # Null => cpc[jar] = "done"
    /\ token \in [Tabs -> Calls \cup {Null}]
    /\ request \in [Calls -> Request \cup {Null}]
    /\ context \in [Calls -> [user : UserIds, csrf : Calls] \cup {Null}]

\* A call in flight is the one its request asked for.
RequestMatches(c) ==
    cpc[c] # "idle" =>
        /\ request[c] \in Request
        /\ request[c].cookie # Null => cpc[request[c].cookie] = "done"
        /\ cpc[c] \in {"registering", "reading", "issuing", "cleaning"} =>
              request[c].kind = "sign_in"
        /\ cpc[c] \in {"touching", "granted"} =>
              /\ request[c].kind \in {"me", "mutate"}
              /\ request[c].cookie = call[c].token
        /\ cpc[c] = "revoking" =>
              /\ request[c].kind = "logout"
              /\ request[c].cookie = call[c].token
              /\ call[c].csrf_ok <=> request[c].csrf = request[c].cookie

RequestsMatchCalls == \A c \in Calls : RequestMatches(c)

\* A session belongs to the account that registered or logged in as it.
SessionsHaveAccounts ==
    \A s \in Calls : sessions[s] # NoSession => sessions[s].user_id = AccountOf(s)

\* The context of a granted call is a copy of the row of its cookie's session.
ContextsAreSessions ==
    \A c \in Calls : cpc[c] = "granted" =>
        context[c] = [user |-> AccountOf(call[c].token), csrf |-> call[c].token]

\* What a mutation has committed it committed with its own context.
RowsHaveContexts ==
    \A r \in rows :
        /\ r.call \in Calls
        /\ cpc[r.call] = "granted"
        /\ request[r.call].csrf = context[r.call].csrf
        /\ r.owner = context[r.call].user

WebInv ==
    /\ IdentityInv
    /\ BrowserTyped
    /\ RequestsMatchCalls
    /\ SessionsHaveAccounts
    /\ ContextsAreSessions
    /\ RowsHaveContexts
    /\ LogoutIsExact

\* A session is named by a call, never NULL.
LEMMA NullIsNoCall == Null \notin Calls
  BY IdentityAssumption DEF UserIds

----------------------------------------------------------------------------
(* The identity service underneath.                                        *)

\* The steps of the browser and of its server are steps of the identity
\* service, or logouts without a cookie, which touch no table.
LEMMA IdentityStep == WebInv /\ [WebNext]_<<vars, web>> => IdentityInv'
  <1> SUFFICES ASSUME WebInv, [WebNext]_<<vars, web>> PROVE IdentityInv'
    OBVIOUS
  <1> HIDE DEF IdentityTypeOK, IdentityInv, Goto, Begin, ReadClock
  <1> USE InvStep DEF WebInv
  <1>1. ASSUME NEW c \in Calls, NEW t \in Tabs, SignIn(c, t) PROVE IdentityInv'
    BY <1>1 DEF SignIn, Next, StartCall
  <1>2. ASSUME NEW c \in Calls, NEW t \in Tabs, SendLogout(c, t) PROVE IdentityInv'
    BY <1>2 DEF SendLogout, Next, StartCall, BrowserTyped
  <1>3. ASSUME NEW c \in Calls, NEW t \in Tabs, NEW kind,
               SendAuthenticated(c, t, kind)
        PROVE  IdentityInv'
    BY <1>3 DEF SendAuthenticated, Next, StartCall, BrowserTyped
  <1>4. ASSUME NEW c \in Calls, NEW t \in Tabs, LogoutWithoutCookie(c, t)
        PROVE  IdentityInv'
    <2>1. /\ cpc[c] = "idle" /\ cpc' = [cpc EXCEPT ![c] = "done"]
          /\ UNCHANGED <<clock, users, sessions, call, now, verified, late, refused>>
      BY <1>4 DEF LogoutWithoutCookie, Goto
    <2>2. IdentityTypeOK'
      BY <2>1 DEF IdentityInv, IdentityTypeOK, CallPcs
    <2>3. CallsTyped' /\ ClocksInPast' /\ RowsAreCommitted'
      BY <2>1 DEF IdentityInv, IdentityTypeOK, CallsTyped, ClocksInPast,
         RowsAreCommitted
    <2>4. TokensAreAnswered' /\ LateFindsRevoked'
      BY <2>1 DEF IdentityInv, IdentityTypeOK, CallsTyped, TokensAreAnswered,
         LateFindsRevoked, Revoked
    <2>5. SessionConstraintsHold' /\ RegistrationIsAtomic'
      BY <2>1 DEF IdentityInv, IdentityTypeOK, SessionConstraintsHold,
         RegistrationIsAtomic
    <2> QED
      BY <2>2, <2>3, <2>4, <2>5 DEF IdentityInv
  <1>5. ASSUME NEW c \in Calls, ServeIdentity(c) PROVE IdentityInv'
    BY <1>5 DEF ServeIdentity, Next, StepCall
  <1>6. ASSUME NEW c \in Calls, AuthenticateContext(c) PROVE IdentityInv'
    BY <1>6 DEF AuthenticateContext, Next, StepCall
  <1>7. CASE UNCHANGED vars
    BY <1>7
  <1>8. CASE Tick
    BY <1>8 DEF Next
  <1> QED
    BY <1>1, <1>2, <1>3, <1>4, <1>5, <1>6, <1>7, <1>8
       DEF WebNext, Commit, Deliver, AllServed

----------------------------------------------------------------------------
(* Who is signed out.                                                      *)

\* A step of a call that was not granted, and that leaves the row of the
\* cookie alone or deletes it, signs nobody in.
LEMMA SignedOutKept ==
  ASSUME NEW c \in Calls, NEW b \in Calls, b # c, SignedOut(b),
         request'[b] = request[b], cpc[c] # "granted",
         \A d \in Calls : d # c => /\ cpc'[d] = cpc[d] /\ call'[d] = call[d]
                                    /\ now'[d] = now[d],
         \/ sessions'[request[b].cookie] = sessions[request[b].cookie]
         \/ sessions'[request[b].cookie] = NoSession
  PROVE  SignedOut(b)'
  <1> DEFINE s == request[b].cookie
  <1>1. CASE \E d \in Calls : Overtook(b, d, s)
    <2>1. PICK d \in Calls : Overtook(b, d, s)
      BY <1>1
    <2>2. d # c /\ Overtook(b, d, s)'
      BY <2>1 DEF Overtook
    <2> QED
      BY <2>2 DEF SignedOut
  <1>2. CASE sessions[s] = NoSession \/ ~Touchable(sessions[s], now[b])
    BY <1>2 DEF SignedOut, Touchable
  <1> QED
    BY <1>1, <1>2 DEF SignedOut

\* Authentication c touches a session that logout b found inactive, or had
\* revoked: it has read the clock before the logout did, and either so long
\* before that its touch leaves the session idle, or c overtook b.
LEMMA TouchAfterLogout ==
  ASSUME NEW c \in Calls, NEW b \in Calls, NEW s \in Calls,
         now \in [Calls -> Time], NEW seen \in Int,
         b # c, SignedOut(b), request[b].cookie = s, request'[b] = request[b],
         call[c].token = s, call' = call, now' = now, cpc[c] # "granted",
         cpc'[c] = "granted", \A d \in Calls : d # c => cpc'[d] = cpc[d],
         sessions[s] \in UserSession, Touchable(sessions[s], now[c]),
         seen = IF sessions[s].last_seen_at < now[c]
                THEN now[c] ELSE sessions[s].last_seen_at,
         sessions'[s] = [sessions[s] EXCEPT !.last_seen_at = seen]
  PROVE  SignedOut(b)'
  <1>1. /\ now[b] \in Int /\ now[c] \in Int /\ IDLE_TIMEOUT \in Int
        /\ sessions[s].last_seen_at \in Int /\ sessions[s].absolute_expires_at \in Int
    BY IdentityAssumption DEF Time, UserSession
  <1>2. /\ sessions'[s].last_seen_at = seen
        /\ sessions'[s].absolute_expires_at = sessions[s].absolute_expires_at
    BY DEF UserSession
  <1>3. CASE \E d \in Calls : Overtook(b, d, s)
    <2>1. PICK d \in Calls : Overtook(b, d, s)
      BY <1>3
    <2>2. Overtook(b, d, s)'
      BY <2>1 DEF Overtook
    <2> QED
      BY <2>2 DEF SignedOut
  <1>4. CASE ~Touchable(sessions[s], now[b])
    <2>1. CASE sessions[s].absolute_expires_at <= now[b]
      <3>1. ~Touchable(sessions[s], now[b])'
        BY <1>1, <1>2, <2>1 DEF Touchable
      <3> QED
        BY <3>1 DEF SignedOut
    <2>2. CASE sessions[s].last_seen_at <= now[b] - IDLE_TIMEOUT
      <3>1. CASE now[c] <= now[b] - IDLE_TIMEOUT
        <4>1. seen <= now[b] - IDLE_TIMEOUT
          BY <2>2, <3>1
        <4>2. ~Touchable(sessions[s], now[b])'
          BY <1>1, <1>2, <4>1 DEF Touchable
        <4> QED
          BY <4>2 DEF SignedOut
      <3>2. CASE now[c] > now[b] - IDLE_TIMEOUT
        <4>1. now[c] < now[b]
          BY <1>1, <2>2 DEF Touchable
        <4>2. Overtook(b, c, s)'
          BY <3>2, <4>1 DEF Overtook
        <4> QED
          BY <4>2 DEF SignedOut
      <3> QED
        BY <1>1, <3>1, <3>2
    <2> QED
      BY <1>1, <1>4, <2>1, <2>2 DEF Touchable
  <1>5. sessions[s] # NoSession
    BY DEF UserSession, NoSession
  <1> QED
    BY <1>3, <1>4, <1>5 DEF SignedOut

----------------------------------------------------------------------------
(* Sending a request.                                                      *)

\* What a sent request leaves alone: only the call it starts changes, and that
\* call had no request, no context and no row.
LEMMA SendFacts ==
  ASSUME WebInv, NEW c \in Calls, NEW t \in Tabs,
         NEW kind \in {"sign_in", "me", "mutate", "logout"},
         cpc[c] = "idle", Send(c, t, kind), clock' = clock, sessions' = sessions,
         verified' = verified, cpc'[c] # "granted",
         \A b \in Calls : b # c => /\ cpc'[b] = cpc[b] /\ call'[b] = call[b]
                                    /\ now'[b] = now[b]
  PROVE  /\ BrowserTyped' /\ SessionsHaveAccounts'
         /\ ContextsAreSessions' /\ RowsHaveContexts'
         /\ LogoutIsExact' \/ (cpc'[c] = "done" /\ jar # Null)
         /\ request'[c] = [kind |-> kind, tab |-> t, cookie |-> jar, csrf |-> token[t]]
         /\ \A b \in Calls : b # c => request'[b] = request[b]
  <1> USE DEF WebInv
  <1>1. /\ request' = [request EXCEPT ![c] =
              [kind |-> kind, tab |-> t, cookie |-> jar, csrf |-> token[t]]]
        /\ UNCHANGED <<jar, token, context, rows, answered>>
    BY DEF Send
  <1>2. BrowserTyped'
    BY <1>1 DEF BrowserTyped, Request
  <1>3. \A s \in Calls : cpc[s] \in {"cleaning", "done"} => AccountOf(s)' = AccountOf(s)
    BY DEF AccountOf
  <1>4. SessionsHaveAccounts'
    BY <1>3 DEF SessionsHaveAccounts, IdentityInv, RowsAreCommitted
  <1>5. ContextsAreSessions'
    <2> SUFFICES ASSUME NEW b \in Calls, cpc'[b] = "granted"
                 PROVE  context'[b] = [user |-> AccountOf(call[b].token)',
                                       csrf |-> call'[b].token]
      BY DEF ContextsAreSessions
    <2>1. b # c /\ cpc[b] = "granted" /\ call'[b] = call[b]
      OBVIOUS
    <2>2. call[b].token \in Calls /\ cpc[call[b].token] = "done"
      BY <2>1, NullIsNoCall DEF RequestsMatchCalls, RequestMatches, IdentityInv, CallsTyped
    <2>3. AccountOf(call[b].token)' = AccountOf(call[b].token)
      BY <2>1, <2>2 DEF AccountOf
    <2> QED
      BY <1>1, <2>1, <2>3 DEF ContextsAreSessions
  <1>6. RowsHaveContexts'
    BY <1>1 DEF RowsHaveContexts
  <1>7. request'[c] = [kind |-> kind, tab |-> t, cookie |-> jar, csrf |-> token[t]]
    BY <1>1 DEF BrowserTyped
  <1>8. \A b \in Calls : b # c => request'[b] = request[b]
    BY <1>1 DEF BrowserTyped
  <1>9. LogoutIsExact' \/ (cpc'[c] = "done" /\ jar # Null)
    <2> SUFFICES ASSUME cpc'[c] # "done" \/ jar = Null PROVE LogoutIsExact'
      OBVIOUS
    <2>1. ASSUME NEW s \in Calls, sessions'[s] # NoSession,
                 sessions'[s].revoked_at # NotRevoked
          PROVE  \E b \in Calls : /\ cpc'[b] = "done"
                                  /\ request'[b].kind = "logout"
                                  /\ request'[b].cookie = s
                                  /\ request'[b].csrf = s
      <3>1. PICK b \in Calls : /\ cpc[b] = "done"
                               /\ request[b].kind = "logout"
                               /\ request[b].cookie = s
                               /\ request[b].csrf = s
        BY <2>1 DEF LogoutIsExact
      <3> QED
        BY <1>8, <3>1
    <2>2. ASSUME NEW b \in Calls, cpc'[b] = "done", request'[b].kind = "logout",
                 request'[b].cookie # Null
          PROVE  SignedOut(b)'
      <3>1. b # c
        BY <1>7, <2>2
      <3>2. SignedOut(b)
        BY <1>8, <2>2, <3>1 DEF LogoutIsExact
      <3> QED
        BY <1>8, <3>1, <3>2, SignedOutKept
    <2> QED
      BY <2>1, <2>2 DEF LogoutIsExact
  <1> QED
    BY <1>2, <1>4, <1>5, <1>6, <1>7, <1>8, <1>9

\* register and login: the request carries whatever the jar and the tab hold.
LEMMA SignInWeb ==
  ASSUME WebInv, IdentityInv', NEW c \in Calls, NEW t \in Tabs, SignIn(c, t)
  PROVE  WebInv'
  <1> USE DEF WebInv
  <1>1. /\ cpc[c] = "idle" /\ cpc'[c] \in {"registering", "reading"}
        /\ clock' = clock /\ sessions' = sessions /\ verified' = verified
        /\ \A b \in Calls : b # c => /\ cpc'[b] = cpc[b] /\ call'[b] = call[b]
                                     /\ now'[b] = now[b]
    BY DEF SignIn, StartRegister, StartLogin, Begin, Goto, ReadClock,
       IdentityInv, IdentityTypeOK
  <1>2. /\ BrowserTyped' /\ SessionsHaveAccounts'
        /\ ContextsAreSessions' /\ RowsHaveContexts' /\ LogoutIsExact'
        /\ request'[c] = [kind |-> "sign_in", tab |-> t, cookie |-> jar, csrf |-> token[t]]
        /\ \A b \in Calls : b # c => request'[b] = request[b]
    BY <1>1, SendFacts DEF SignIn
  <1>3. RequestsMatchCalls'
    BY <1>1, <1>2 DEF RequestsMatchCalls, RequestMatches, BrowserTyped, Request
  <1> QED
    BY <1>2, <1>3

\* A request with a cookie: its call presents the session in the jar.
LEMMA SendAuthenticatedWeb ==
  ASSUME WebInv, IdentityInv', NEW c \in Calls, NEW t \in Tabs,
         NEW kind \in {"me", "mutate"}, SendAuthenticated(c, t, kind)
  PROVE  WebInv'
  <1> USE DEF WebInv
  <1>1. /\ cpc[c] = "idle" /\ cpc'[c] = "touching"
        /\ clock' = clock /\ sessions' = sessions /\ verified' = verified
        /\ \A b \in Calls : b # c => /\ cpc'[b] = cpc[b] /\ call'[b] = call[b]
                                     /\ now'[b] = now[b]
        /\ jar \in Calls /\ call'[c].token = jar
    BY DEF SendAuthenticated, StartAuthenticate, Begin, Goto, ReadClock,
       BrowserTyped, IdentityInv, IdentityTypeOK
  <1>2. /\ BrowserTyped' /\ SessionsHaveAccounts'
        /\ ContextsAreSessions' /\ RowsHaveContexts' /\ LogoutIsExact'
        /\ request'[c] = [kind |-> kind, tab |-> t, cookie |-> jar, csrf |-> token[t]]
        /\ \A b \in Calls : b # c => request'[b] = request[b]
    <2>1. kind \in {"sign_in", "me", "mutate", "logout"} /\ Send(c, t, kind)
      BY DEF SendAuthenticated
    <2> QED
      BY <1>1, <2>1, SendFacts
  <1>3. RequestsMatchCalls'
    <2>1. request'[c] \in Request /\ cpc'[jar] = "done"
      BY <1>1, <1>2, NullIsNoCall DEF BrowserTyped, Request
    <2>2. \A b \in Calls : b # c /\ cpc[b] # "idle" /\ request[b].cookie # Null =>
             request[b].cookie # c
      BY <1>1 DEF RequestsMatchCalls, RequestMatches
    <2>3. \A b \in Calls : b # c /\ cpc[b] # "idle" => request[b] \in Request
      BY DEF RequestsMatchCalls, RequestMatches
    <2> QED
      BY <1>1, <1>2, <2>1, <2>2, <2>3, NullIsNoCall
         DEF RequestsMatchCalls, RequestMatches, Request
  <1> QED
    BY <1>2, <1>3

\* A logout with a cookie: csrf_ok says whether the tab's token is the jar's.
LEMMA SendLogoutWeb ==
  ASSUME WebInv, IdentityInv', NEW c \in Calls, NEW t \in Tabs, SendLogout(c, t)
  PROVE  WebInv'
  <1> USE DEF WebInv
  <1>1. /\ cpc[c] = "idle" /\ cpc'[c] = "revoking"
        /\ clock' = clock /\ sessions' = sessions /\ verified' = verified
        /\ \A b \in Calls : b # c => /\ cpc'[b] = cpc[b] /\ call'[b] = call[b]
                                     /\ now'[b] = now[b]
        /\ jar \in Calls /\ call'[c].token = jar /\ (call'[c].csrf_ok <=> token[t] = jar)
    BY DEF SendLogout, StartLogout, Begin, Goto, ReadClock,
       BrowserTyped, IdentityInv, IdentityTypeOK
  <1>2. /\ BrowserTyped' /\ SessionsHaveAccounts'
        /\ ContextsAreSessions' /\ RowsHaveContexts' /\ LogoutIsExact'
        /\ request'[c] = [kind |-> "logout", tab |-> t, cookie |-> jar, csrf |-> token[t]]
        /\ \A b \in Calls : b # c => request'[b] = request[b]
    BY <1>1, SendFacts DEF SendLogout
  <1>3. RequestsMatchCalls'
    <2>1. request'[c] \in Request /\ cpc'[jar] = "done"
      BY <1>1, <1>2, NullIsNoCall DEF BrowserTyped, Request
    <2>2. \A b \in Calls : b # c /\ cpc[b] # "idle" /\ request[b].cookie # Null =>
             request[b].cookie # c
      BY <1>1 DEF RequestsMatchCalls, RequestMatches
    <2>3. \A b \in Calls : b # c /\ cpc[b] # "idle" => request[b] \in Request
      BY DEF RequestsMatchCalls, RequestMatches
    <2>4. call'[c].csrf_ok <=> request'[c].csrf = request'[c].cookie
      BY <1>1, <1>2
    <2>5. ASSUME NEW b \in Calls, b # c PROVE RequestMatches(b)'
      BY <1>1, <1>2, <2>2, <2>3, <2>5, NullIsNoCall
         DEF RequestsMatchCalls, RequestMatches, Request
    <2>6. RequestMatches(c)'
      BY <1>1, <1>2, <2>1, <2>4, NullIsNoCall DEF RequestMatches
    <2> QED
      BY <2>5, <2>6 DEF RequestsMatchCalls
  <1> QED
    BY <1>2, <1>3

\* A logout without a cookie ends at once and names no session.
LEMMA LogoutWithoutCookieWeb ==
  ASSUME WebInv, IdentityInv', NEW c \in Calls, NEW t \in Tabs,
         LogoutWithoutCookie(c, t)
  PROVE  WebInv'
  <1> USE DEF WebInv
  <1>1. /\ cpc[c] = "idle" /\ cpc'[c] = "done"
        /\ clock' = clock /\ sessions' = sessions /\ verified' = verified
        /\ \A b \in Calls : b # c => /\ cpc'[b] = cpc[b] /\ call'[b] = call[b]
                                     /\ now'[b] = now[b]
        /\ jar = Null
    BY DEF LogoutWithoutCookie, Goto, IdentityInv, IdentityTypeOK
  <1>2. /\ BrowserTyped' /\ SessionsHaveAccounts'
        /\ ContextsAreSessions' /\ RowsHaveContexts' /\ LogoutIsExact'
        /\ request'[c] = [kind |-> "logout", tab |-> t, cookie |-> jar, csrf |-> token[t]]
        /\ \A b \in Calls : b # c => request'[b] = request[b]
    BY <1>1, SendFacts DEF LogoutWithoutCookie
  <1>3. RequestsMatchCalls'
    BY <1>1, <1>2 DEF RequestsMatchCalls, RequestMatches, BrowserTyped, Request
  <1> QED
    BY <1>2, <1>3

----------------------------------------------------------------------------
(* The server.                                                             *)

\* What a step of one call leaves alone: the requests, the contexts and the
\* accounts of all sessions that exist or are presented.
LEMMA ServeFrame ==
  ASSUME WebInv, NEW c \in Calls, clock' = clock, call' = call,
         UNCHANGED <<jar, token, request>>,
         \A b \in Calls : b # c => cpc'[b] = cpc[b] /\ verified'[b] = verified[b],
         cpc[c] \notin {"idle", "granted", "done"},
         cpc[c] # "reading" => verified'[c] = verified[c],
         \/ /\ cpc[c] \in {"registering", "reading", "issuing", "cleaning"}
            /\ cpc'[c] \in {"reading", "issuing", "cleaning", "done", "refused"}
         \/ cpc[c] = "touching" /\ cpc'[c] \in {"granted", "refused"}
         \/ cpc[c] = "revoking" /\ cpc'[c] \in {"done", "refused"}
  PROVE  /\ RequestsMatchCalls'
         /\ jar \in Calls \cup {Null} /\ (jar # Null => cpc'[jar] = "done")
         /\ \A s \in Calls : s # c \/ cpc[c] # "reading" =>
               AccountOf(s)' = AccountOf(s)
         /\ (UNCHANGED <<context, rows>> /\ cpc'[c] # "granted" =>
               BrowserTyped' /\ ContextsAreSessions' /\ RowsHaveContexts')
  <1> USE DEF WebInv
  <1>1. RequestsMatchCalls'
    <2>1. \A b \in Calls : cpc[b] = "done" => cpc'[b] = "done"
      OBVIOUS
    <2>2. ASSUME NEW b \in Calls, b # c PROVE RequestMatches(b)'
      BY <2>1, <2>2 DEF RequestsMatchCalls, RequestMatches, Request
    <2>3. RequestMatches(c)'
      BY <2>1 DEF RequestsMatchCalls, RequestMatches, Request
    <2> QED
      BY <2>2, <2>3 DEF RequestsMatchCalls
  <1>2. jar \in Calls \cup {Null} /\ (jar # Null => cpc'[jar] = "done")
    BY DEF BrowserTyped
  <1>3. \A s \in Calls : s # c \/ cpc[c] # "reading" => AccountOf(s)' = AccountOf(s)
    BY DEF AccountOf
  <1>4. ASSUME UNCHANGED <<context, rows>>, cpc'[c] # "granted"
        PROVE  BrowserTyped' /\ ContextsAreSessions' /\ RowsHaveContexts'
    <2>1. BrowserTyped'
      BY <1>2, <1>4 DEF BrowserTyped
    <2>2. ASSUME NEW b \in Calls, cpc'[b] = "granted"
          PROVE  context'[b] = [user |-> AccountOf(call[b].token)',
                                csrf |-> call'[b].token]
      <3>1. b # c /\ cpc[b] = "granted" /\ call'[b] = call[b]
        BY <1>4, <2>2
      <3>2. call[b].token \in Calls /\ cpc[call[b].token] = "done"
        BY <3>1, NullIsNoCall DEF RequestsMatchCalls, RequestMatches, IdentityInv,
           CallsTyped
      <3>3. AccountOf(call[b].token)' = AccountOf(call[b].token)
        BY <3>1, <3>2 DEF AccountOf
      <3> QED
        BY <1>4, <3>1, <3>3 DEF ContextsAreSessions
    <2>3. RowsHaveContexts'
      BY <1>4 DEF RowsHaveContexts
    <2> QED
      BY <2>1, <2>2, <2>3 DEF ContextsAreSessions
  <1> QED
    BY <1>1, <1>2, <1>3, <1>4

\* A step that stores no session keeps accounts and logouts as they are.
LEMMA SessionsKept ==
  ASSUME WebInv, NEW c \in Calls, UNCHANGED <<request, call>>,
         \A s \in Calls : sessions'[s] = sessions[s] \/ sessions'[s] = NoSession,
         \A b \in Calls : b # c => cpc'[b] = cpc[b] /\ now'[b] = now[b],
         cpc[c] \notin {"granted", "done"},
         cpc'[c] = "done" => request[c].kind # "logout",
         \A s \in Calls : sessions[s] # NoSession => AccountOf(s)' = AccountOf(s)
  PROVE  SessionsHaveAccounts' /\ LogoutIsExact'
  <1> USE DEF WebInv
  <1>1. SessionsHaveAccounts'
    BY DEF SessionsHaveAccounts
  <1>2. ASSUME NEW s \in Calls, sessions'[s] # NoSession,
               sessions'[s].revoked_at # NotRevoked
        PROVE  \E b \in Calls : /\ cpc'[b] = "done"
                                /\ request'[b].kind = "logout"
                                /\ request'[b].cookie = s
                                /\ request'[b].csrf = s
    <2>1. PICK b \in Calls : /\ cpc[b] = "done"
                             /\ request[b].kind = "logout"
                             /\ request[b].cookie = s
                             /\ request[b].csrf = s
      BY <1>2 DEF LogoutIsExact
    <2> QED
      BY <2>1
  <1>3. ASSUME NEW b \in Calls, cpc'[b] = "done", request'[b].kind = "logout",
               request'[b].cookie # Null
        PROVE  SignedOut(b)'
    <2>1. b # c /\ cpc[b] = "done"
      BY <1>3
    <2>2. request[b].cookie \in Calls
      BY <1>3, <2>1 DEF RequestsMatchCalls, RequestMatches, Request
    <2>3. SignedOut(b)
      BY <1>3, <2>1 DEF LogoutIsExact
    <2> QED
      BY <2>1, <2>2, <2>3, SignedOutKept
  <1> QED
    BY <1>1, <1>2, <1>3 DEF LogoutIsExact

\* A new session belongs to the account that signs in, is not revoked, and no
\* request has named it yet.
LEMMA SessionIssued ==
  ASSUME WebInv, NEW c \in Calls, UNCHANGED <<request, call, now>>,
         NEW u \in UserIds, AccountOf(c)' = u,
         sessions' = [sessions EXCEPT ![c] = NewSession(u, now[c])],
         \A b \in Calls : b # c => cpc'[b] = cpc[b],
         cpc[c] \in {"registering", "issuing"}, cpc'[c] = "cleaning",
         \A s \in Calls : s # c => AccountOf(s)' = AccountOf(s)
  PROVE  SessionsHaveAccounts' /\ LogoutIsExact'
  <1> USE DEF WebInv
  <1>1. /\ sessions'[c].user_id = u /\ sessions'[c].revoked_at = NotRevoked
        /\ \A s \in Calls : s # c => sessions'[s] = sessions[s]
    BY NewSessionFits DEF IdentityInv, IdentityTypeOK
  <1>2. SessionsHaveAccounts'
    BY <1>1 DEF SessionsHaveAccounts
  <1>3. ASSUME NEW s \in Calls, sessions'[s] # NoSession,
               sessions'[s].revoked_at # NotRevoked
        PROVE  \E b \in Calls : /\ cpc'[b] = "done"
                                /\ request'[b].kind = "logout"
                                /\ request'[b].cookie = s
                                /\ request'[b].csrf = s
    <2>1. PICK b \in Calls : /\ cpc[b] = "done"
                             /\ request[b].kind = "logout"
                             /\ request[b].cookie = s
                             /\ request[b].csrf = s
      BY <1>1, <1>3 DEF LogoutIsExact
    <2> QED
      BY <2>1
  <1>4. ASSUME NEW b \in Calls, cpc'[b] = "done", request'[b].kind = "logout",
               request'[b].cookie # Null
        PROVE  SignedOut(b)'
    <2>1. b # c /\ cpc[b] = "done"
      BY <1>4
    <2>2. request[b].cookie \in Calls /\ cpc[request[b].cookie] = "done"
      BY <1>4, <2>1 DEF RequestsMatchCalls, RequestMatches, Request
    <2>3. SignedOut(b)
      BY <1>4, <2>1 DEF LogoutIsExact
    <2>4. sessions'[request[b].cookie] = sessions[request[b].cookie]
      BY <1>1, <2>2
    <2> QED
      BY <2>1, <2>3, <2>4, SignedOutKept
  <1> QED
    BY <1>2, <1>3, <1>4 DEF LogoutIsExact

\* register, unseen by the browser until it answers.
LEMMA RegisterWeb ==
  ASSUME WebInv, IdentityInv', NEW c \in Calls, Register(c), UNCHANGED web
  PROVE  WebInv'
  <1> USE DEF WebInv
  <1>1. /\ cpc[c] = "registering" /\ cpc'[c] \in {"cleaning", "refused"}
        /\ call[c].op = "register"
        /\ UNCHANGED <<clock, call, now, verified>>
        /\ \A b \in Calls : b # c => cpc'[b] = cpc[b]
    BY DEF Register, Goto, IdentityInv, IdentityTypeOK, CallsTyped
  <1>2. UNCHANGED <<jar, token, request, context, rows>>
    BY DEF web
  <1>3. /\ BrowserTyped' /\ RequestsMatchCalls'
        /\ ContextsAreSessions' /\ RowsHaveContexts'
        /\ \A s \in Calls : AccountOf(s)' = AccountOf(s)
    BY <1>1, <1>2, ServeFrame
  <1>4. SessionsHaveAccounts' /\ LogoutIsExact'
    <2>1. CASE UNCHANGED sessions /\ cpc'[c] = "refused"
      BY <1>1, <1>2, <1>3, <2>1, SessionsKept
    <2>2. CASE /\ sessions' = [sessions EXCEPT ![c] = NewSession(c, now[c])]
               /\ cpc'[c] = "cleaning"
      <3>1. AccountOf(c)' = c /\ c \in UserIds
        BY <1>1 DEF AccountOf, UserIds
      <3> QED
        BY <1>1, <1>2, <1>3, <2>2, <3>1, SessionIssued
    <2> QED
      BY <2>1, <2>2 DEF Register, Goto, IdentityInv, IdentityTypeOK
  <1> QED
    BY <1>3, <1>4

\* login, up to the new session.
LEMMA LoginWeb ==
  ASSUME WebInv, IdentityInv', NEW c \in Calls, UNCHANGED web,
         ReadCredentials(c) \/ VerifyPassword(c)
  PROVE  WebInv'
  <1> USE DEF WebInv
  <1>1. /\ cpc[c] = "reading" /\ cpc'[c] \in {"reading", "issuing", "refused"}
        /\ UNCHANGED <<clock, call, sessions>>
        /\ \A b \in Calls : b # c => /\ cpc'[b] = cpc[b] /\ now'[b] = now[b]
                                     /\ verified'[b] = verified[b]
    BY DEF ReadCredentials, VerifyPassword, Goto, ReadClock, IdentityInv,
       IdentityTypeOK
  <1>2. UNCHANGED <<jar, token, request, context, rows>>
    BY DEF web
  <1>3. /\ BrowserTyped' /\ RequestsMatchCalls'
        /\ ContextsAreSessions' /\ RowsHaveContexts'
        /\ \A s \in Calls : s # c => AccountOf(s)' = AccountOf(s)
    BY <1>1, <1>2, ServeFrame
  <1>4. sessions[c] = NoSession
    BY <1>1 DEF IdentityInv, RowsAreCommitted
  <1>5. SessionsHaveAccounts' /\ LogoutIsExact'
    BY <1>1, <1>2, <1>3, <1>4, SessionsKept
  <1> QED
    BY <1>3, <1>5

\* The session of a login belongs to the account whose password was verified.
LEMMA IssueSessionWeb ==
  ASSUME WebInv, IdentityInv', NEW c \in Calls, IssueSession(c), UNCHANGED web
  PROVE  WebInv'
  <1> USE DEF WebInv
  <1>1. /\ cpc[c] = "issuing" /\ cpc'[c] \in {"cleaning", "refused"}
        /\ call[c].op = "login" /\ verified[c].user_id \in UserIds
        /\ UNCHANGED <<clock, call, now, verified>>
        /\ \A b \in Calls : b # c => cpc'[b] = cpc[b]
    BY DEF IssueSession, Goto, IdentityInv, IdentityTypeOK, CallsTyped, Snapshot
  <1>2. UNCHANGED <<jar, token, request, context, rows>>
    BY DEF web
  <1>3. /\ BrowserTyped' /\ RequestsMatchCalls'
        /\ ContextsAreSessions' /\ RowsHaveContexts'
        /\ \A s \in Calls : AccountOf(s)' = AccountOf(s)
    BY <1>1, <1>2, ServeFrame
  <1>4. SessionsHaveAccounts' /\ LogoutIsExact'
    <2>1. CASE UNCHANGED sessions /\ cpc'[c] = "refused"
      BY <1>1, <1>2, <1>3, <2>1, SessionsKept
    <2>2. CASE /\ sessions' = [sessions EXCEPT ![c] =
                                  NewSession(verified[c].user_id, now[c])]
               /\ cpc'[c] = "cleaning"
      <3>1. AccountOf(c)' = verified[c].user_id
        BY <1>1 DEF AccountOf
      <3> QED
        BY <1>1, <1>2, <1>3, <2>2, <3>1, SessionIssued
    <2> QED
      BY <2>1, <2>2 DEF IssueSession, Goto, IdentityInv, IdentityTypeOK
  <1> QED
    BY <1>3, <1>4

\* The cleanup after a sign-in only deletes rows.
LEMMA CleanupWeb ==
  ASSUME WebInv, IdentityInv', NEW c \in Calls, Cleanup(c), UNCHANGED web
  PROVE  WebInv'
  <1> USE DEF WebInv
  <1>1. /\ cpc[c] = "cleaning" /\ cpc'[c] = "done"
        /\ UNCHANGED <<clock, call, now, verified>>
        /\ \A b \in Calls : b # c => cpc'[b] = cpc[b]
        /\ \A s \in Calls : sessions'[s] = sessions[s] \/ sessions'[s] = NoSession
    BY DEF Cleanup, Goto, IdentityInv, IdentityTypeOK
  <1>2. UNCHANGED <<jar, token, request, context, rows>>
    BY DEF web
  <1>3. /\ BrowserTyped' /\ RequestsMatchCalls'
        /\ ContextsAreSessions' /\ RowsHaveContexts'
        /\ \A s \in Calls : AccountOf(s)' = AccountOf(s)
    BY <1>1, <1>2, ServeFrame
  <1>4. request[c].kind = "sign_in"
    BY <1>1 DEF RequestsMatchCalls, RequestMatches
  <1>5. SessionsHaveAccounts' /\ LogoutIsExact'
    BY <1>1, <1>2, <1>3, <1>4, SessionsKept
  <1> QED
    BY <1>3, <1>5

\* logout revokes the session of its cookie exactly when the token matched,
\* and is answered with 204 only if the session is not active afterwards.
LEMMA LogoutWeb ==
  ASSUME WebInv, IdentityInv', NEW c \in Calls, Logout(c), UNCHANGED web
  PROVE  WebInv'
  <1> USE DEF WebInv
  <1> DEFINE s == call[c].token
             active == /\ sessions[s] # NoSession
                       /\ ClassifySession(sessions[s], now[c]) = "active"
  <1>1. /\ cpc[c] = "revoking" /\ cpc'[c] \in {"done", "refused"}
        /\ UNCHANGED <<clock, call, now, verified>>
        /\ \A b \in Calls : b # c => cpc'[b] = cpc[b]
    BY DEF Logout, Goto, IdentityInv, IdentityTypeOK
  <1>2. UNCHANGED <<jar, token, request, context, rows>>
    BY DEF web
  <1>3. /\ BrowserTyped' /\ RequestsMatchCalls'
        /\ ContextsAreSessions' /\ RowsHaveContexts'
        /\ \A x \in Calls : AccountOf(x)' = AccountOf(x)
    BY <1>1, <1>2, ServeFrame
  <1>4. /\ s \in Calls /\ request[c].kind = "logout" /\ request[c].cookie = s
        /\ call[c].csrf_ok <=> request[c].csrf = s
    BY <1>1 DEF IdentityInv, CallsTyped, RequestsMatchCalls, RequestMatches
  <1>5. CASE active /\ call[c].csrf_ok
    <2>1. /\ sessions' = [sessions EXCEPT ![s].revoked_at = now[c]]
          /\ cpc'[c] = "done"
      BY <1>5 DEF Logout, Goto, IdentityInv, IdentityTypeOK
    <2>2. sessions[s] \in UserSession /\ now[c] \in Time
      BY <1>4, <1>5 DEF IdentityInv, IdentityTypeOK
    <2>3. /\ \A x \in Calls : x # s => sessions'[x] = sessions[x]
          /\ sessions'[s] = [sessions[s] EXCEPT !.revoked_at = now[c]]
      BY <1>4, <2>1 DEF IdentityInv, IdentityTypeOK
    <2> HIDE DEF s, active
    <2>4. /\ sessions'[s].user_id = sessions[s].user_id
          /\ sessions'[s].revoked_at # NotRevoked
      BY <2>2, <2>3 DEF UserSession, Time, NotRevoked
    <2>5. sessions[s] # NoSession
      BY <1>5 DEF active
    <2>6. SessionsHaveAccounts'
      <3>1. \A x \in Calls : sessions'[x] # NoSession =>
               sessions[x] # NoSession /\ sessions'[x].user_id = sessions[x].user_id
        BY <2>3, <2>4, <2>5
      <3> QED
        BY <1>3, <3>1 DEF SessionsHaveAccounts
    <2>7. request[c].csrf = s
      BY <1>4, <1>5
    <2>8. ASSUME NEW x \in Calls, sessions'[x] # NoSession,
                 sessions'[x].revoked_at # NotRevoked
          PROVE  \E b \in Calls : /\ cpc'[b] = "done"
                                  /\ request'[b].kind = "logout"
                                  /\ request'[b].cookie = x
                                  /\ request'[b].csrf = x
      <3>1. CASE x = s
        BY <1>2, <1>4, <2>1, <2>7, <3>1
      <3>2. CASE x # s
        BY <1>1, <1>2, <2>1, <2>3, <2>8, <3>2 DEF LogoutIsExact
      <3> QED
        BY <3>1, <3>2
    <2>9. ASSUME NEW b \in Calls, cpc'[b] = "done", request'[b].kind = "logout",
                 request'[b].cookie # Null
          PROVE  SignedOut(b)'
      <3>1. CASE request[b].cookie = s
        BY <1>2, <2>4, <3>1 DEF SignedOut, Touchable
      <3>2. CASE request[b].cookie # s
        <4>1. b # c /\ cpc[b] = "done"
          BY <1>1, <1>4, <2>9, <3>2
        <4>2. request[b].cookie \in Calls
          BY <1>2, <2>9, <4>1 DEF RequestsMatchCalls, RequestMatches, Request
        <4>3. SignedOut(b)
          BY <1>2, <2>9, <4>1 DEF LogoutIsExact
        <4> QED
          BY <1>1, <1>2, <2>3, <3>2, <4>1, <4>2, <4>3, SignedOutKept
      <3> QED
        BY <3>1, <3>2
    <2>10. LogoutIsExact'
      BY <2>8, <2>9 DEF LogoutIsExact
    <2> QED
      BY <1>3, <2>6, <2>10
  <1>6. CASE ~(active /\ call[c].csrf_ok)
    <2>1. UNCHANGED sessions
      BY <1>6 DEF Logout
    <2>2. cpc'[c] = "done" => ~active
      BY <1>6 DEF Logout, Goto, IdentityInv, IdentityTypeOK
    <2>3. cpc'[c] = "done" /\ sessions[s] # NoSession => ~Touchable(sessions[s], now[c])
      <3>1. now[c] \in Time
        BY DEF IdentityInv, IdentityTypeOK
      <3>2. sessions[s] # NoSession => sessions[s] \in UserSession
        BY <1>4 DEF IdentityInv, IdentityTypeOK
      <3> QED
        BY <2>2, <3>1, <3>2, OneBoundary
    <2> HIDE DEF s, active
    <2>4. SessionsHaveAccounts'
      BY <1>3, <2>1 DEF SessionsHaveAccounts
    <2>5. ASSUME NEW x \in Calls, sessions'[x] # NoSession,
                 sessions'[x].revoked_at # NotRevoked
          PROVE  \E b \in Calls : /\ cpc'[b] = "done"
                                  /\ request'[b].kind = "logout"
                                  /\ request'[b].cookie = x
                                  /\ request'[b].csrf = x
      <3>1. PICK b \in Calls : /\ cpc[b] = "done"
                               /\ request[b].kind = "logout"
                               /\ request[b].cookie = x
                               /\ request[b].csrf = x
        BY <2>1, <2>5 DEF LogoutIsExact
      <3> QED
        BY <1>1, <1>2, <3>1
    <2>6. ASSUME NEW b \in Calls, cpc'[b] = "done", request'[b].kind = "logout",
                 request'[b].cookie # Null
          PROVE  SignedOut(b)'
      <3>1. CASE b = c
        BY <1>1, <1>2, <1>4, <2>1, <2>3, <2>6, <3>1 DEF SignedOut, Touchable
      <3>2. CASE b # c
        <4>1. SignedOut(b)
          BY <1>1, <1>2, <2>6, <3>2 DEF LogoutIsExact
        <4> QED
          BY <1>1, <1>2, <2>1, <3>2, <4>1, SignedOutKept
      <3> QED
        BY <3>1, <3>2
    <2>7. LogoutIsExact'
      BY <2>5, <2>6 DEF LogoutIsExact
    <2> QED
      BY <1>3, <2>4, <2>7
  <1> QED
    BY <1>5, <1>6

\* require_authenticated_context: the context is the row that was touched.
LEMMA AuthenticateContextWeb ==
  ASSUME WebInv, IdentityInv', NEW c \in Calls, AuthenticateContext(c)
  PROVE  WebInv'
  <1> USE DEF WebInv
  <1> DEFINE s == call[c].token
  <1>1. /\ cpc[c] = "touching" /\ cpc'[c] \in {"granted", "refused"}
        /\ UNCHANGED <<clock, call, now, verified>>
        /\ \A b \in Calls : b # c => cpc'[b] = cpc[b]
    BY DEF AuthenticateContext, AuthenticateAndTouch, Goto, IdentityInv,
       IdentityTypeOK
  <1>2. UNCHANGED <<jar, token, request, rows>>
    BY DEF AuthenticateContext
  <1>3. /\ RequestsMatchCalls'
        /\ jar \in Calls \cup {Null} /\ (jar # Null => cpc'[jar] = "done")
        /\ \A x \in Calls : AccountOf(x)' = AccountOf(x)
        /\ (UNCHANGED <<context, rows>> /\ cpc'[c] # "granted" =>
               BrowserTyped' /\ ContextsAreSessions' /\ RowsHaveContexts')
    BY <1>1, <1>2, ServeFrame
  <1>4. s \in Calls
    BY <1>1 DEF IdentityInv, CallsTyped
  <1>5. CASE ~(sessions[s] # NoSession /\ Touchable(sessions[s], now[c]))
    <2>1. UNCHANGED sessions /\ cpc'[c] = "refused"
      BY <1>5 DEF AuthenticateContext, AuthenticateAndTouch, Goto, IdentityInv,
         IdentityTypeOK
    <2>2. UNCHANGED context
      BY <2>1 DEF AuthenticateContext
    <2>3. SessionsHaveAccounts' /\ LogoutIsExact'
      BY <1>1, <1>2, <1>3, <2>1, SessionsKept
    <2> QED
      BY <1>2, <1>3, <2>1, <2>2, <2>3
  <1>6. CASE sessions[s] # NoSession /\ Touchable(sessions[s], now[c])
    <2> DEFINE seen == IF sessions[s].last_seen_at < now[c]
                       THEN now[c] ELSE sessions[s].last_seen_at
    <2>1. /\ sessions' = [sessions EXCEPT ![s].last_seen_at = seen]
          /\ cpc'[c] = "granted"
      BY <1>6 DEF AuthenticateContext, AuthenticateAndTouch, Goto, IdentityInv,
         IdentityTypeOK
    <2>2. context' = [context EXCEPT ![c] = [user |-> sessions[s].user_id, csrf |-> s]]
      BY <2>1 DEF AuthenticateContext
    <2>3. sessions[s] \in UserSession
      BY <1>4, <1>6 DEF IdentityInv, IdentityTypeOK
    <2>4. /\ \A x \in Calls : x # s => sessions'[x] = sessions[x]
          /\ sessions'[s] = [sessions[s] EXCEPT !.last_seen_at = seen]
      BY <1>4, <2>1 DEF IdentityInv, IdentityTypeOK
    <2>5. sessions[s].user_id = AccountOf(s) /\ sessions[s].user_id \in UserIds
      BY <1>4, <1>6, <2>3 DEF SessionsHaveAccounts, UserSession
    <2>6. sessions'[s].user_id = sessions[s].user_id
          /\ sessions'[s].revoked_at = sessions[s].revoked_at
          /\ sessions[s].revoked_at = NotRevoked
      <3> HIDE DEF seen, s
      <3> QED
        BY <1>6, <2>3, <2>4 DEF UserSession, Touchable
    <2>7. seen \in Int /\ now[c] \in Int /\ seen = IF sessions[s].last_seen_at < now[c]
                                                   THEN now[c]
                                                   ELSE sessions[s].last_seen_at
      BY <1>4, <2>3 DEF IdentityInv, IdentityTypeOK, UserSession, Time
    <2>8. cpc[s] = "done"
      BY <1>1 DEF IdentityInv, TokensAreAnswered
    <2>9. BrowserTyped'
      BY <1>2, <1>3, <1>4, <2>2, <2>5 DEF BrowserTyped
    <2>10. context'[c] = [user |-> AccountOf(s), csrf |-> s]
           /\ \A b \in Calls : b # c => context'[b] = context[b]
      BY <2>2, <2>5 DEF BrowserTyped
    <2>11. AccountOf(s)' = AccountOf(s)
      BY <1>1 DEF AccountOf
    <2>12. ContextsAreSessions'
      <3>1. ASSUME NEW b \in Calls, cpc'[b] = "granted"
            PROVE  context'[b] = [user |-> AccountOf(call[b].token)',
                                  csrf |-> call'[b].token]
        <4>1. CASE b = c
          BY <1>1, <2>10, <2>11, <4>1
        <4>2. CASE b # c
          <5>1. cpc[b] = "granted"
            BY <1>1, <3>1, <4>2
          <5>2. call[b].token \in Calls /\ cpc[call[b].token] = "done"
            BY <5>1, NullIsNoCall DEF RequestsMatchCalls, RequestMatches,
               IdentityInv, CallsTyped
          <5>3. AccountOf(call[b].token)' = AccountOf(call[b].token)
            BY <1>1, <5>2 DEF AccountOf
          <5> QED
            BY <1>1, <2>10, <4>2, <5>1, <5>3 DEF ContextsAreSessions
        <4> QED
          BY <4>1, <4>2
      <3> QED
        BY <3>1 DEF ContextsAreSessions
    <2> HIDE DEF s, seen
    <2>13. RowsHaveContexts'
      BY <1>1, <1>2, <2>10 DEF RowsHaveContexts
    <2>14. SessionsHaveAccounts'
      <3>1. \A x \in Calls : sessions'[x] # NoSession =>
               sessions[x] # NoSession /\ sessions'[x].user_id = sessions[x].user_id
        BY <1>6, <2>4, <2>6
      <3> QED
        BY <1>3, <3>1 DEF SessionsHaveAccounts
    <2>15. ASSUME NEW x \in Calls, sessions'[x] # NoSession,
                  sessions'[x].revoked_at # NotRevoked
           PROVE  \E b \in Calls : /\ cpc'[b] = "done"
                                   /\ request'[b].kind = "logout"
                                   /\ request'[b].cookie = x
                                   /\ request'[b].csrf = x
      <3>1. x # s /\ sessions'[x] = sessions[x]
        BY <2>4, <2>6, <2>15
      <3>2. PICK b \in Calls : /\ cpc[b] = "done"
                               /\ request[b].kind = "logout"
                               /\ request[b].cookie = x
                               /\ request[b].csrf = x
        BY <2>15, <3>1 DEF LogoutIsExact
      <3> QED
        BY <1>1, <1>2, <3>2
    <2>16. ASSUME NEW b \in Calls, cpc'[b] = "done", request'[b].kind = "logout",
                  request'[b].cookie # Null
           PROVE  SignedOut(b)'
      <3>1. cpc[b] = "done"
        BY <1>1, <2>16
      <3>2. SignedOut(b)
        BY <1>2, <2>16, <3>1 DEF LogoutIsExact
      <3>3. CASE request[b].cookie # s
        BY <1>1, <1>2, <2>4, <2>16, <3>1, <3>2, <3>3, SignedOutKept
           DEF RequestsMatchCalls, RequestMatches, Request
      <3>4. CASE request[b].cookie = s
        <4>1. b # c /\ request'[b] = request[b] /\ cpc[c] # "granted"
          BY <1>1, <1>2, <3>1
        <4>2. call[c].token = s
          BY DEF s
        <4>3. now \in [Calls -> Time]
          BY DEF IdentityInv, IdentityTypeOK
        <4> QED
          BY <1>1, <1>4, <1>6, <2>1, <2>3, <2>4, <2>7, <3>2, <3>4, <4>1, <4>2, <4>3,
             TouchAfterLogout
      <3> QED
        BY <3>3, <3>4
    <2>17. LogoutIsExact'
      BY <2>15, <2>16 DEF LogoutIsExact
    <2> QED
      BY <1>3, <2>9, <2>12, <2>13, <2>14, <2>17
  <1> QED
    BY <1>5, <1>6

\* A mutation commits for the owner in its context, if the token of its
\* request is the context's.
LEMMA CommitWeb ==
  ASSUME WebInv, IdentityInv', NEW c \in Calls, Commit(c)
  PROVE  WebInv'
  <1> USE DEF WebInv
  <1>1. UNCHANGED <<vars, jar, token, request, context>> /\ cpc[c] = "granted"
    BY DEF Commit
  <1>2. /\ BrowserTyped' /\ RequestsMatchCalls'
        /\ SessionsHaveAccounts' /\ ContextsAreSessions' /\ LogoutIsExact'
    BY <1>1 DEF vars, BrowserTyped, RequestsMatchCalls, RequestMatches,
       SessionsHaveAccounts, ContextsAreSessions, LogoutIsExact, SignedOut, Overtook,
       AccountOf, Touchable
  <1>3. RowsHaveContexts'
    <2>1. CASE CsrfMatches(c)
      <3>1. rows' = rows \cup {[call |-> c, owner |-> context[c].user]}
        BY <2>1 DEF Commit
      <3> QED
        BY <1>1, <2>1, <3>1 DEF RowsHaveContexts, CsrfMatches, vars
    <2>2. CASE ~CsrfMatches(c)
      <3>1. rows' = rows
        BY <2>2 DEF Commit
      <3> QED
        BY <1>1, <3>1 DEF RowsHaveContexts, vars
    <2> QED
      BY <2>1, <2>2
  <1> QED
    BY <1>2, <1>3

\* An answer only changes the jar and a token, to sessions that exist.
LEMMA DeliverWeb ==
  ASSUME WebInv, IdentityInv', NEW c \in Calls, Deliver(c)
  PROVE  WebInv'
  <1> USE DEF WebInv
  <1>1. UNCHANGED <<vars, request, context, rows>>
    BY DEF Deliver
  <1>2. /\ RequestsMatchCalls' /\ RowsHaveContexts'
        /\ SessionsHaveAccounts' /\ ContextsAreSessions' /\ LogoutIsExact'
    <2>1. RequestsMatchCalls' /\ RowsHaveContexts'
      BY <1>1 DEF vars, RequestsMatchCalls, RequestMatches,
         RowsHaveContexts
    <2>2. SessionsHaveAccounts' /\ ContextsAreSessions'
      BY <1>1 DEF vars, SessionsHaveAccounts, ContextsAreSessions, AccountOf
    <2>3. LogoutIsExact'
      BY <1>1 DEF vars, LogoutIsExact, SignedOut, Overtook, Touchable
    <2> QED
      BY <2>1, <2>2, <2>3
  <1>3. \/ cpc[c] = "done" /\ jar' = c
        \/ jar' = jar
        \/ jar' = Null
    BY DEF Deliver, AcceptSignIn, AcceptMe, AcceptLogout
  <1>4. token' \in [Tabs -> Calls \cup {Null}]
    <2>1. CASE AcceptSignIn(c)
      BY <2>1 DEF AcceptSignIn, BrowserTyped
    <2>2. CASE AcceptMe(c)
      <3>1. cpc[c] = "granted"
        BY <2>2 DEF AcceptMe
      <3>2. context[c] = [user |-> AccountOf(call[c].token), csrf |-> call[c].token]
        BY <3>1 DEF ContextsAreSessions
      <3>3. context[c].csrf \in Calls
        BY <3>1, <3>2 DEF IdentityInv, CallsTyped
      <3> QED
        BY <2>2, <3>3 DEF AcceptMe, BrowserTyped
    <2>3. CASE AcceptLogout(c)
      BY <2>3 DEF AcceptLogout, BrowserTyped
    <2> QED
      BY <2>1, <2>2, <2>3 DEF Deliver
  <1>5. BrowserTyped'
    BY <1>1, <1>3, <1>4 DEF BrowserTyped, vars
  <1> QED
    BY <1>2, <1>5

\* What is signed out is so at the clock value of its logout, so time changes
\* nothing in the browser or on the server.
LEMMA TickWeb ==
  ASSUME WebInv, IdentityInv', Tick, UNCHANGED web
  PROVE  WebInv'
  <1>1. UNCHANGED <<sessions, cpc, call, now, verified, jar, token, request, context, rows>>
    BY DEF Tick, web
  <1> QED
    BY <1>1 DEF WebInv, BrowserTyped, RequestsMatchCalls, RequestMatches,
       RowsHaveContexts, SessionsHaveAccounts, ContextsAreSessions, LogoutIsExact,
       SignedOut, Overtook, AccountOf, Touchable

----------------------------------------------------------------------------
(* The theorems.                                                           *)

\* A browser that has sent nothing.
LEMMA WebInvInit == WebInit => WebInv
  BY InvInit DEF WebInit, WebInv, BrowserTyped, RequestsMatchCalls,
     RequestMatches, SessionsHaveAccounts, ContextsAreSessions, RowsHaveContexts,
     LogoutIsExact, Init

\* Every step of a tab, the server or the network preserves the invariant.
LEMMA WebInvStep == WebInv /\ [WebNext]_<<vars, web>> => WebInv'
  <1> SUFFICES ASSUME WebInv, [WebNext]_<<vars, web>> PROVE WebInv'
    OBVIOUS
  <1>1. IdentityInv'
    BY IdentityStep
  <1>2. ASSUME NEW c \in Calls, NEW t \in Tabs,
               \/ SignIn(c, t) \/ SendLogout(c, t) \/ LogoutWithoutCookie(c, t)
               \/ SendAuthenticated(c, t, "me") \/ SendAuthenticated(c, t, "mutate")
        PROVE  WebInv'
    BY <1>1, <1>2, SignInWeb, SendLogoutWeb, LogoutWithoutCookieWeb,
       SendAuthenticatedWeb
  <1>3. ASSUME NEW c \in Calls, ServeIdentity(c) PROVE WebInv'
    BY <1>1, <1>3, RegisterWeb, LoginWeb, IssueSessionWeb, CleanupWeb, LogoutWeb
       DEF ServeIdentity
  <1>4. CASE UNCHANGED <<vars, web>>
    BY <1>1, <1>4 DEF vars, web, WebInv, BrowserTyped,
       RequestsMatchCalls, RequestMatches, RowsHaveContexts, SessionsHaveAccounts,
       ContextsAreSessions, LogoutIsExact, SignedOut, Overtook, AccountOf, Touchable
  <1> QED
    BY <1>1, <1>2, <1>3, <1>4, AuthenticateContextWeb, CommitWeb, DeliverWeb, TickWeb
       DEF WebNext, AllServed

\* The invariant holds in every reachable state of the browser and its server.
THEOREM WebInvariance == WebSpec => []WebInv
  BY WebInvInit, WebInvStep, PTL DEF WebSpec

\* require_authenticated_mutation: what a tab commits it commits for the
\* account whose token it holds, although all tabs share one cookie jar and
\* another tab may have signed in as somebody else.
THEOREM TabsActAsThemselves == WebSpec => []TabActsAsItself
  <1>1. WebInv => TabActsAsItself
    <2> SUFFICES ASSUME WebInv, NEW r \in rows
                 PROVE  /\ request[r.call].csrf # Null
                        /\ r.owner = AccountOf(request[r.call].csrf)
      BY DEF TabActsAsItself
    <2>1. /\ r.call \in Calls /\ cpc[r.call] = "granted"
          /\ request[r.call].csrf = context[r.call].csrf
          /\ r.owner = context[r.call].user
      BY DEF WebInv, RowsHaveContexts
    <2>2. context[r.call] = [user |-> AccountOf(call[r.call].token),
                             csrf |-> call[r.call].token]
      BY <2>1 DEF WebInv, ContextsAreSessions
    <2>3. call[r.call].token \in Calls
      BY <2>1 DEF WebInv, IdentityInv, CallsTyped
    <2> QED
      BY <2>1, <2>2, <2>3, NullIsNoCall
  <1> QED
    BY <1>1, WebInvariance, PTL

\* A mutation sent after its session was revoked commits nothing, however
\* late or lost the answer to the logout.
THEOREM LogoutEndsWork == WebSpec => []NoWorkAfterLogout
  <1>1. WebInv => NoWorkAfterLogout
    BY DEF WebInv, RowsHaveContexts, NoWorkAfterLogout, IdentityInv,
       LateFindsRevoked
  <1> QED
    BY <1>1, WebInvariance, PTL

\* logout revokes the session of the cookie only when the token of the tab is
\* that session's, and 204 means that the session is not active from then on,
\* unless the logout found it idle-expired while an authentication that had
\* read the clock before it was still to touch the row.
THEOREM LogoutRevokes == WebSpec => []LogoutIsExact
  BY WebInvariance, PTL DEF WebInv

\* What the identity service promises it keeps for a browser whose tabs share one cookie.
THEOREM SessionsStaySound ==
    WebSpec => [](/\ SessionConstraintsHold /\ PredicatesAgree
                  /\ RevokedStaysOut /\ RegistrationIsAtomic)
  <1>1. WebInv => SessionConstraintsHold /\ RegistrationIsAtomic
    BY DEF WebInv, IdentityInv
  <1>2. WebInv => PredicatesAgree
    BY OneBoundary DEF WebInv, IdentityInv, IdentityTypeOK, PredicatesAgree
  <1>3. WebInv => RevokedStaysOut
    BY DEF WebInv, IdentityInv, LateFindsRevoked, RevokedStaysOut
  <1> QED
    BY <1>1, <1>2, <1>3, WebInvariance, PTL

\* A step of the browser is one of the identity service, or leaves its tables alone.
LEMMA WebStepsServe ==
  ASSUME WebInv, [WebNext]_<<vars, web>>
  PROVE  Next \/ UNCHANGED <<sessions, users>>
  <1>1. ASSUME NEW c \in Calls, ServeIdentity(c) \/ AuthenticateContext(c)
        PROVE  Next
    BY <1>1 DEF ServeIdentity, AuthenticateContext, StepCall, Next
  <1>2. ASSUME NEW c \in Calls, Commit(c) \/ Deliver(c)
        PROVE  UNCHANGED <<sessions, users>>
    BY <1>2 DEF Commit, Deliver, vars
  <1>3. ASSUME NEW c \in Calls, NEW t \in Tabs,
               \/ SignIn(c, t) \/ SendLogout(c, t) \/ LogoutWithoutCookie(c, t)
               \/ SendAuthenticated(c, t, "me") \/ SendAuthenticated(c, t, "mutate")
        PROVE  UNCHANGED <<sessions, users>>
    BY <1>3 DEF SignIn, SendLogout, LogoutWithoutCookie, SendAuthenticated,
       StartRegister, StartLogin, StartAuthenticate, StartLogout
  <1>4. CASE UNCHANGED <<vars, web>>
    BY <1>4 DEF vars
  <1>5. CASE Tick
    BY <1>5 DEF Next
  <1> QED
    BY <1>1, <1>2, <1>3, <1>4, <1>5 DEF WebNext, AllServed

\* Also for a browser no session's last_seen_at moves back, no cleanup deletes an active
\* session, and no current hash is replaced.
THEOREM SessionsStepSoundly ==
    WebSpec => SeenNeverRegresses /\ CleanupSparesActive /\ RehashedOnce
  <1> USE DEF WebInv
  <1>1. WebInv /\ [WebNext]_<<vars, web>> =>
          [\A s \in Calls :
             sessions[s] # NoSession /\ sessions'[s] # NoSession =>
                 sessions'[s].last_seen_at >= sessions[s].last_seen_at]_vars
    <2> SUFFICES ASSUME WebInv, [WebNext]_<<vars, web>>, NEW s \in Calls,
                        sessions[s] # NoSession, sessions'[s] # NoSession
                 PROVE  sessions'[s].last_seen_at >= sessions[s].last_seen_at
      OBVIOUS
    <2>1. CASE Next
      BY <2>1, SeenStep
    <2>2. CASE UNCHANGED <<sessions, users>>
      <3>1. sessions[s].last_seen_at \in Int
        BY DEF IdentityInv, IdentityTypeOK, UserSession, Time
      <3> QED
        BY <2>2, <3>1
    <2> QED
      BY <2>1, <2>2, WebStepsServe
  <1>2. WebInv /\ [WebNext]_<<vars, web>> =>
          [\A s \in Calls :
             sessions[s] # NoSession /\ sessions'[s] = NoSession =>
                 ~Touchable(sessions[s], clock)]_vars
    <2> SUFFICES ASSUME WebInv, [WebNext]_<<vars, web>>, NEW s \in Calls,
                        sessions[s] # NoSession, sessions'[s] = NoSession
                 PROVE  ~Touchable(sessions[s], clock)
      OBVIOUS
    <2> QED
      BY CleanupStep, WebStepsServe
  <1>3. WebInv /\ [WebNext]_<<vars, web>> =>
          [\A u \in UserIds :
             users[u] # NoUser /\ users[u].hash \notin Veterans =>
                 users'[u].hash = users[u].hash]_vars
    <2> SUFFICES ASSUME WebInv, [WebNext]_<<vars, web>>, NEW u \in UserIds,
                        users[u] # NoUser, users[u].hash \notin Veterans
                 PROVE  users'[u].hash = users[u].hash
      OBVIOUS
    <2> QED
      BY RehashStep, WebStepsServe
  <1>4. WebSpec => SeenNeverRegresses
    BY <1>1, WebInvariance, PTL DEF WebSpec, SeenNeverRegresses
  <1>5. WebSpec => CleanupSparesActive
    BY <1>2, WebInvariance, PTL DEF WebSpec, CleanupSparesActive
  <1>6. WebSpec => RehashedOnce
    BY <1>3, WebInvariance, PTL DEF WebSpec, RehashedOnce
  <1> QED
    BY <1>4, <1>5, <1>6

=============================================================================
