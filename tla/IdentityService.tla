--------------------------- MODULE IdentityService ---------------------------
(***************************************************************************)
(* identity/service.py and identity/repositories.py: accounts and server-  *)
(* side sessions with an idle and an absolute timeout.                     *)
(*                                                                         *)
(* Every call reads the clock once, before its transaction opens, and uses *)
(* that value however much later its statement runs; calls interleave      *)
(* between the two.  Session and user ids are uuid4 values and tokens are  *)
(* 32 random bytes, so what a call makes is named by the call itself.      *)
(***************************************************************************)
EXTENDS Integers, FiniteSets

CONSTANTS
    Emails,             \* normalized addresses
    Passwords,
    Calls,              \* register, login, authenticate and logout calls
    Veterans,           \* accounts whose hash predates the current parameters
    VeteranEmail,       \* their address and password
    VeteranPassword,
    IDLE_TIMEOUT, ABSOLUTE_TIMEOUT, CLEANUP_BATCH_SIZE,
    MaxTime,            \* bound on the clock
    Null

UserIds == Calls \cup Veterans

ASSUME IdentityAssumption ==
    /\ VeteranEmail \in [Veterans -> Emails]
    /\ \A v, w \in Veterans : VeteranEmail[v] = VeteranEmail[w] => v = w
    /\ VeteranPassword \in [Veterans -> Passwords]
    /\ Veterans \cap Calls = {}
    /\ IDLE_TIMEOUT \in Nat \ {0}
    /\ ABSOLUTE_TIMEOUT \in Nat \ {0}
    /\ IDLE_TIMEOUT <= ABSOLUTE_TIMEOUT
    /\ CLEANUP_BATCH_SIZE \in Nat \ {0}
    /\ MaxTime \in Nat
    /\ Null \notin UserIds

VARIABLES
    clock,      \* datetime.now(UTC)
    users,      \* table users
    sessions,   \* table sessions, by issuing call
    cpc,        \* where each call is
    call,       \* the parameters of each call
    now,        \* the clock value each call has read
    verified,   \* login: the UserCredentialSnapshot the password matched
    late,       \* history: authentications that began on a revoked session
    refused     \* history: sessions some authentication was refused for

vars == <<clock, users, sessions, cpc, call, now, verified, late, refused>>

----------------------------------------------------------------------------
Time == 0 .. MaxTime

\* A hash is salted, so it is named by who computed it: the call that
\* registered or rehashed, or the account itself for a hash of old parameters.
User == [email : Emails, password : Passwords, hash : UserIds]

NoUser == [email |-> Null, password |-> Null, hash |-> Null]

UserSession == [user_id : UserIds, created_at : Time, last_seen_at : Time,
                absolute_expires_at : Nat, revoked_at : Time \cup {-1}]

NoSession == [user_id |-> Null]

NotRevoked == -1

Call ==   [op : {"register", "login"}, email : Emails, password : Passwords]
     \cup [op : {"authenticate"}, token : Calls]
     \cup [op : {"logout"}, token : Calls, csrf_ok : BOOLEAN]

Snapshot == [user_id : UserIds, hash : UserIds]

CallPcs == {"idle", "registering", "reading", "issuing", "cleaning",
            "touching", "revoking", "granted", "done", "refused"}

IdentityTypeOK ==
    /\ clock \in Time
    /\ users \in [UserIds -> User \cup {NoUser}]
    /\ sessions \in [Calls -> UserSession \cup {NoSession}]
    /\ cpc \in [Calls -> CallPcs]
    /\ call \in [Calls -> Call \cup {Null}]
    /\ now \in [Calls -> Time]
    /\ verified \in [Calls -> Snapshot \cup {Null}]
    /\ late \in SUBSET Calls
    /\ refused \in SUBSET Calls

Init ==
    /\ clock = 0
    /\ users = [u \in UserIds |->
                  IF u \in Veterans
                  THEN [email |-> VeteranEmail[u], password |-> VeteranPassword[u],
                        hash |-> u]
                  ELSE NoUser]
    /\ sessions = [s \in Calls |-> NoSession]
    /\ cpc = [c \in Calls |-> "idle"]
    /\ call = [c \in Calls |-> Null]
    /\ now = [c \in Calls |-> 0]
    /\ verified = [c \in Calls |-> Null]
    /\ late = {}
    /\ refused = {}

Tick ==
    /\ clock < MaxTime
    /\ clock' = clock + 1
    /\ UNCHANGED <<users, sessions, cpc, call, now, verified, late, refused>>

----------------------------------------------------------------------------
(* The three places that decide whether a session is active.               *)

\* _classify_session, in Python; the first state that applies.
ClassifySession(s, t) ==
    CASE s.revoked_at # NotRevoked             -> "revoked"
      [] s.revoked_at = NotRevoked /\ s.absolute_expires_at <= t -> "absolute_expired"
      [] s.revoked_at = NotRevoked /\ s.absolute_expires_at > t
            /\ s.last_seen_at <= t - IDLE_TIMEOUT -> "idle_expired"
      [] OTHER -> "active"

\* Mutant: revoked_at is not looked at.
TouchableRevoked(s, t) ==
    /\ s.absolute_expires_at > t
    /\ s.last_seen_at > t - IDLE_TIMEOUT

\* Mutant: no absolute lifetime.
TouchableForever(s, t) ==
    /\ s.revoked_at = NotRevoked
    /\ s.last_seen_at > t - IDLE_TIMEOUT

\* The WHERE clause of authenticate_and_touch.
Touchable(s, t) ==
    /\ s.revoked_at = NotRevoked
    /\ s.absolute_expires_at > t
    /\ s.last_seen_at > t - IDLE_TIMEOUT

\* Mutant: idleness counted from the creation of the session.
InactiveSinceCreated(s, t) ==
    \/ s.revoked_at # NotRevoked
    \/ s.absolute_expires_at <= t
    \/ s.created_at <= t - IDLE_TIMEOUT

\* Mutant: the idle limit itself still counts as active.
InactiveAfterLimit(s, t) ==
    \/ s.revoked_at # NotRevoked
    \/ s.absolute_expires_at <= t
    \/ s.last_seen_at < t - IDLE_TIMEOUT

\* The WHERE clause of delete_inactive_batch.
Inactive(s, t) ==
    \/ s.revoked_at # NotRevoked
    \/ s.absolute_expires_at <= t
    \/ s.last_seen_at <= t - IDLE_TIMEOUT

----------------------------------------------------------------------------
Goto(c, label) == cpc' = [cpc EXCEPT ![c] = label]

Begin(c, label, parameters) ==
    /\ cpc[c] = "idle"
    /\ Goto(c, label)
    /\ call' = [call EXCEPT ![c] = parameters]

ReadClock(c) == now' = [now EXCEPT ![c] = clock]

\* Mutant: the absolute lifetime is subtracted.
NewSessionExpired(u, t) ==
    [user_id |-> u, created_at |-> t, last_seen_at |-> t,
     absolute_expires_at |-> t - ABSOLUTE_TIMEOUT, revoked_at |-> NotRevoked]

\* _issue_session.
NewSession(u, t) ==
    [user_id |-> u, created_at |-> t, last_seen_at |-> t,
     absolute_expires_at |-> t + ABSOLUTE_TIMEOUT, revoked_at |-> NotRevoked]

EmailTaken(e) == \E u \in UserIds : users[u] # NoUser /\ users[u].email = e

----------------------------------------------------------------------------
(* register.                                                               *)

StartRegister(c, e, p) ==
    /\ Begin(c, "registering", [op |-> "register", email |-> e, password |-> p])
    /\ ReadClock(c)
    /\ UNCHANGED <<clock, users, sessions, verified, late, refused>>

\* Mutant: no unique constraint on email_normalized.
RegisterTwice(c) ==
    /\ cpc[c] = "registering"
    /\ users' = [users EXCEPT ![c] =
           [email |-> call[c].email, password |-> call[c].password, hash |-> c]]
    /\ sessions' = [sessions EXCEPT ![c] = NewSession(c, now[c])]
    /\ Goto(c, "cleaning")
    /\ UNCHANGED <<clock, call, now, verified, late, refused>>

\* The user and its first session in one transaction, or DuplicateIdentity
\* from uq_users_email_normalized and neither.
Register(c) ==
    /\ cpc[c] = "registering"
    /\ IF EmailTaken(call[c].email)
       THEN Goto(c, "refused") /\ UNCHANGED <<users, sessions>>
       ELSE /\ users' = [users EXCEPT ![c] =
                  [email |-> call[c].email, password |-> call[c].password,
                   hash |-> c]]
            /\ sessions' = [sessions EXCEPT ![c] = NewSession(c, now[c])]
            /\ Goto(c, "cleaning")
    /\ UNCHANGED <<clock, call, now, verified, late, refused>>

----------------------------------------------------------------------------
(* login.                                                                  *)

StartLogin(c, e, p) ==
    /\ Begin(c, "reading", [op |-> "login", email |-> e, password |-> p])
    /\ UNCHANGED <<clock, users, sessions, now, verified, late, refused>>

\* get_credentials_by_email in a transaction of its own; an unknown address
\* or a wrong password ends as InvalidCredentials.
ReadCredentials(c) ==
    /\ cpc[c] = "reading"
    /\ verified[c] = Null
    /\ \/ \E u \in UserIds :
             /\ users[u] # NoUser
             /\ users[u].email = call[c].email
             /\ IF users[u].password = call[c].password
                THEN /\ verified' = [verified EXCEPT ![c] =
                            [user_id |-> u, hash |-> users[u].hash]]
                     /\ UNCHANGED cpc
                ELSE Goto(c, "refused") /\ UNCHANGED verified
       \/ ~EmailTaken(call[c].email) /\ Goto(c, "refused") /\ UNCHANGED verified
    /\ UNCHANGED <<clock, users, sessions, call, now, late, refused>>

\* The password is verified, and perhaps hashed again, outside a transaction;
\* then the clock is read.
VerifyPassword(c) ==
    /\ cpc[c] = "reading"
    /\ verified[c] # Null
    /\ ReadClock(c)
    /\ Goto(c, "issuing")
    /\ UNCHANGED <<clock, users, sessions, call, verified, late, refused>>

\* check_needs_rehash: a hash with old parameters.
NeedsRehash(hash) == hash \in Veterans

\* Mutant: the locked row is not compared with the snapshot.
IssueUnchecked(c) ==
    LET u == verified[c].user_id IN
    /\ cpc[c] = "issuing"
    /\ users' = [users EXCEPT ![u].hash = IF NeedsRehash(verified[c].hash) THEN c ELSE @]
    /\ sessions' = [sessions EXCEPT ![c] = NewSession(u, now[c])]
    /\ Goto(c, "cleaning")
    /\ UNCHANGED <<clock, call, now, verified, late, refused>>

\* get_for_update, the comparison with the snapshot, the rehash and the new
\* session, in one transaction.
IssueSession(c) ==
    LET u == verified[c].user_id IN
    /\ cpc[c] = "issuing"
    /\ IF users[u].hash # verified[c].hash
       THEN Goto(c, "refused") /\ UNCHANGED <<users, sessions>>
       ELSE /\ users' = [users EXCEPT ![u].hash =
                            IF NeedsRehash(verified[c].hash) THEN c ELSE @]
            /\ sessions' = [sessions EXCEPT ![c] = NewSession(u, now[c])]
            /\ Goto(c, "cleaning")
    /\ UNCHANGED <<clock, call, now, verified, late, refused>>

----------------------------------------------------------------------------
(* The cleanup after a successful register or login.                       *)

\* Sessions whose rows a concurrent authentication or logout may have locked:
\* SKIP LOCKED passes over them.
Busy == {call[c].token : c \in {b \in Calls : cpc[b] \in {"touching", "revoking"}}}

\* The first CLEANUP_BATCH_SIZE of S by absolute_expires_at.
IsBatch(D, S) ==
    /\ D \subseteq S
    /\ \/ D = S /\ Cardinality(D) <= CLEANUP_BATCH_SIZE
       \/ /\ Cardinality(D) = CLEANUP_BATCH_SIZE
          /\ \A x \in D, y \in S \ D :
                sessions[x].absolute_expires_at <= sessions[y].absolute_expires_at

\* delete_inactive_batch, with the clock value of the login it follows; it
\* locks the rows before it deletes them.  Its failure is ignored.
Cleanup(c) ==
    /\ cpc[c] = "cleaning"
    /\ Goto(c, "done")
    /\ \/ \E skipped \in SUBSET Busy, D \in SUBSET Calls :
             /\ IsBatch(D, {s \in Calls \ skipped :
                    sessions[s] # NoSession /\ Inactive(sessions[s], now[c])})
             /\ sessions' = [s \in Calls |-> IF s \in D THEN NoSession ELSE sessions[s]]
       \/ UNCHANGED sessions
    /\ UNCHANGED <<clock, users, call, now, verified, late, refused>>

----------------------------------------------------------------------------
(* authenticate.                                                           *)

\* A client knows a token once register or login has answered.
KnownToken(s) == cpc[s] = "done" /\ call[s].op \in {"register", "login"}

Revoked(s) == sessions[s] = NoSession \/ sessions[s].revoked_at # NotRevoked

StartAuthenticate(c, s) ==
    /\ KnownToken(s)
    /\ Begin(c, "touching", [op |-> "authenticate", token |-> s])
    /\ ReadClock(c)
    /\ late' = IF Revoked(s) THEN late \cup {c} ELSE late
    /\ UNCHANGED <<clock, users, sessions, verified, refused>>

\* Mutant: last_seen_at is simply overwritten.
TouchRegressing(c) ==
    LET s == call[c].token IN
    /\ cpc[c] = "touching"
    /\ IF sessions[s] # NoSession /\ Touchable(sessions[s], now[c])
       THEN /\ sessions' = [sessions EXCEPT ![s].last_seen_at = now[c]]
            /\ Goto(c, "granted")
            /\ UNCHANGED refused
       ELSE Goto(c, "refused") /\ refused' = refused \cup {s} /\ UNCHANGED sessions
    /\ UNCHANGED <<clock, users, call, now, verified, late>>

\* authenticate_and_touch: one UPDATE ... RETURNING, with GREATEST.
AuthenticateAndTouch(c) ==
    LET s == call[c].token IN
    /\ cpc[c] = "touching"
    /\ IF sessions[s] # NoSession /\ Touchable(sessions[s], now[c])
       THEN /\ sessions' = [sessions EXCEPT ![s].last_seen_at =
                               IF @ < now[c] THEN now[c] ELSE @]
            /\ Goto(c, "granted")
            /\ UNCHANGED refused
       ELSE Goto(c, "refused") /\ refused' = refused \cup {s} /\ UNCHANGED sessions
    /\ UNCHANGED <<clock, users, call, now, verified, late>>

----------------------------------------------------------------------------
(* logout.                                                                 *)

StartLogout(c, s, ok) ==
    /\ KnownToken(s)
    /\ Begin(c, "revoking", [op |-> "logout", token |-> s, csrf_ok |-> ok])
    /\ ReadClock(c)
    /\ UNCHANGED <<clock, users, sessions, verified, late, refused>>

\* Mutant: the synchronizer token is not compared.
LogoutUnchecked(c) ==
    LET s == call[c].token IN
    /\ cpc[c] = "revoking"
    /\ sessions' = IF sessions[s] # NoSession /\ ClassifySession(sessions[s], now[c]) = "active"
                   THEN [sessions EXCEPT ![s].revoked_at = now[c]]
                   ELSE sessions
    /\ Goto(c, "done")
    /\ UNCHANGED <<clock, users, call, now, verified, late, refused>>

\* get_for_update_by_token_hash, then ALREADY_INACTIVE, InvalidCsrf or the
\* revocation.
Logout(c) ==
    LET s == call[c].token
        active == /\ sessions[s] # NoSession
                  /\ ClassifySession(sessions[s], now[c]) = "active"
    IN
    /\ cpc[c] = "revoking"
    /\ IF active /\ call[c].csrf_ok
       THEN sessions' = [sessions EXCEPT ![s].revoked_at = now[c]]
       ELSE UNCHANGED sessions
    /\ Goto(c, IF active /\ ~call[c].csrf_ok THEN "refused" ELSE "done")
    /\ UNCHANGED <<clock, users, call, now, verified, late, refused>>

----------------------------------------------------------------------------
StartCall(c) ==
    \/ \E e \in Emails, p \in Passwords : StartRegister(c, e, p) \/ StartLogin(c, e, p)
    \/ \E s \in Calls : StartAuthenticate(c, s)
    \/ \E s \in Calls, ok \in BOOLEAN : StartLogout(c, s, ok)

StepCall(c) ==
    \/ Register(c) \/ ReadCredentials(c) \/ VerifyPassword(c) \/ IssueSession(c)
    \/ Cleanup(c) \/ AuthenticateAndTouch(c) \/ Logout(c)

\* Every call has ended and the clock is at its bound.
Quiescent ==
    /\ clock = MaxTime
    /\ \A c \in Calls : cpc[c] \in {"granted", "done", "refused"}
    /\ UNCHANGED vars

Next ==
    \/ Tick
    \/ \E c \in Calls : StartCall(c) \/ StepCall(c)
    \/ Quiescent

Spec == Init /\ [][Next]_vars

----------------------------------------------------------------------------
(* Properties.                                                             *)

\* The CHECK constraints on table sessions never fire, although statements
\* use clock values read earlier: a violated one would turn an accepted
\* request into a server error.
SessionConstraintsHold ==
    \A s \in Calls : sessions[s] # NoSession =>
        /\ sessions[s].created_at <= sessions[s].last_seen_at
        /\ sessions[s].last_seen_at <= sessions[s].absolute_expires_at
        /\ sessions[s].absolute_expires_at = sessions[s].created_at + ABSOLUTE_TIMEOUT
        /\ sessions[s].revoked_at # NotRevoked =>
              sessions[s].revoked_at >= sessions[s].created_at

\* The Python classification and the two SQL predicates agree on every stored
\* session at every instant, the limits included.
PredicatesAgree ==
    \A s \in Calls : sessions[s] # NoSession =>
        \A t \in Time :
            /\ Touchable(sessions[s], t) <=> ~Inactive(sessions[s], t)
            /\ Touchable(sessions[s], t) <=> ClassifySession(sessions[s], t) = "active"

\* A request that arrives after the session was revoked is never let in,
\* whatever clock values older requests still carry.
RevokedStaysOut ==
    \A c \in late : cpc[c] # "granted"

\* An address has one account, every session belongs to an account, and a
\* registration that lost the race leaves nothing behind.
RegistrationIsAtomic ==
    /\ \A u, v \in UserIds :
          users[u] # NoUser /\ users[v] # NoUser /\ users[u].email = users[v].email
             => u = v
    /\ \A s \in Calls : sessions[s] # NoSession => users[sessions[s].user_id] # NoUser
    /\ \A c \in Calls :
          cpc[c] = "refused" => users[c] = NoUser /\ sessions[c] = NoSession

\* "so concurrent requests cannot ... regress a session": last_seen_at never
\* moves back.
SeenNeverRegresses ==
    [][\A s \in Calls :
          sessions[s] # NoSession /\ sessions'[s] # NoSession =>
              sessions'[s].last_seen_at >= sessions[s].last_seen_at]_vars

\* Cleanup, with a clock value that may be old, never deletes a session that
\* authenticate_and_touch would still accept now.
CleanupSparesActive ==
    [][\A s \in Calls :
          sessions[s] # NoSession /\ sessions'[s] = NoSession =>
              ~Touchable(sessions[s], clock)]_vars

\* A hash with the current parameters is never replaced: of two concurrent
\* logins that both decided to rehash, only one does.
RehashedOnce ==
    [][\A u \in UserIds :
          users[u] # NoUser /\ users[u].hash \notin Veterans =>
              users'[u].hash = users[u].hash]_vars

\* "so concurrent requests cannot re-activate ... a session": once a request
\* was refused for a session, the session is not active again.
NoReactivation ==
    \A s \in refused :
        sessions[s] = NoSession \/ ~Touchable(sessions[s], clock)

=============================================================================
