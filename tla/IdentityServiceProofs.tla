------------------------ MODULE IdentityServiceProofs ------------------------
(***************************************************************************)
(* TLAPS proofs about IdentityService, for every set of calls, accounts,   *)
(* addresses and passwords, and for all timeouts and clock bounds that     *)
(* IdentityAssumption admits.                                              *)
(*                                                                         *)
(* The properties follow from the inductive invariant IdentityInv.  What   *)
(* makes it inductive is that a session is only ever presented after the   *)
(* call that issued it has answered (TokensAreAnswered): its row is not    *)
(* written again by that call, so a revocation is never undone, and the    *)
(* clock value of the request that presents it is not older than the row.  *)
(***************************************************************************)
EXTENDS IdentityService, TLAPS

----------------------------------------------------------------------------
(* The inductive invariant.                                                *)

\* Every call carries the parameters of the operation it is in.
CallsTyped ==
    \A c \in Calls :
        /\ cpc[c] = "registering" =>
              call[c] \in [op : {"register"}, email : Emails, password : Passwords]
        /\ cpc[c] \in {"reading", "issuing"} =>
              call[c] \in [op : {"login"}, email : Emails, password : Passwords]
        /\ cpc[c] = "cleaning" => call[c].op \in {"register", "login"}
        /\ cpc[c] \in {"touching", "granted"} =>
              call[c] \in [op : {"authenticate"}, token : Calls]
        /\ cpc[c] = "revoking" =>
              call[c] \in [op : {"logout"}, token : Calls, csrf_ok : BOOLEAN]
        /\ cpc[c] = "issuing" => verified[c] \in Snapshot

\* Nothing a call has read or stored lies in the future.
ClocksInPast ==
    /\ \A c \in Calls : now[c] <= clock
    /\ \A s \in Calls : sessions[s] # NoSession => sessions[s].created_at <= clock

\* A session row comes from a call that has committed it; an account too.
RowsAreCommitted ==
    \A c \in Calls :
        sessions[c] # NoSession \/ users[c] # NoUser => cpc[c] \in {"cleaning", "done"}

\* A request presents a session whose call has answered, and has read the
\* clock since.
TokensAreAnswered ==
    \A c \in Calls :
        cpc[c] \in {"touching", "revoking"} =>
            /\ cpc[call[c].token] = "done"
            /\ sessions[call[c].token] # NoSession =>
                  sessions[call[c].token].created_at <= now[c]

\* An authentication that began on a revoked session still finds it revoked.
LateFindsRevoked ==
    \A c \in late :
        /\ cpc[c] \in {"touching", "refused"}
        /\ cpc[c] = "touching" => Revoked(call[c].token)

IdentityInv ==
    /\ IdentityTypeOK
    /\ CallsTyped
    /\ ClocksInPast
    /\ RowsAreCommitted
    /\ TokensAreAnswered
    /\ LateFindsRevoked
    /\ SessionConstraintsHold
    /\ RegistrationIsAtomic

USE DEF IdentityTypeOK, UserIds, Time, User, NoUser, UserSession, NoSession,
        NotRevoked, Snapshot, CallPcs, Goto, Begin, ReadClock

----------------------------------------------------------------------------
(* Facts used throughout.                                                  *)

\* An absent row is no row of the table: NULL is no user id.
LEMMA AbsentRows == NoUser \notin User /\ NoSession \notin UserSession
  BY IdentityAssumption

\* The three predicates on a stored session: Touchable, Inactive and
\* _classify_session draw the same line.
LEMMA OneBoundary ==
  ASSUME NEW s \in UserSession, NEW t \in Time
  PROVE  /\ Touchable(s, t) <=> ~Inactive(s, t)
         /\ Touchable(s, t) <=> ClassifySession(s, t) = "active"
  <1>1. /\ s.revoked_at \in Int /\ s.absolute_expires_at \in Int
        /\ s.last_seen_at \in Int /\ t \in Int /\ IDLE_TIMEOUT \in Int
    BY IdentityAssumption
  <1>2. Touchable(s, t) <=> ~Inactive(s, t)
    BY <1>1 DEF Touchable, Inactive
  <1>3. Touchable(s, t) <=> ClassifySession(s, t) = "active"
    BY <1>1 DEF Touchable, ClassifySession
  <1> QED
    BY <1>2, <1>3

\* Time only makes a session less active: what is inactive at one instant is
\* inactive at every later one.
LEMMA InactiveStays ==
  ASSUME NEW s \in UserSession, NEW t \in Time, NEW u \in Time, t <= u,
         Inactive(s, t)
  PROVE  ~Touchable(s, u)
  <1>1. /\ s.revoked_at \in Int /\ s.absolute_expires_at \in Int
        /\ s.last_seen_at \in Int /\ t \in Int /\ u \in Int /\ IDLE_TIMEOUT \in Int
    BY IdentityAssumption
  <1> QED
    BY <1>1 DEF Touchable, Inactive

\* What _issue_session stores: a row of the table that satisfies its CHECK
\* constraints.
LEMMA NewSessionFits ==
  ASSUME NEW u \in UserIds, NEW t \in Time
  PROVE  /\ NewSession(u, t) \in UserSession
         /\ NewSession(u, t) # NoSession
         /\ NewSession(u, t).user_id = u
         /\ NewSession(u, t).created_at = t
         /\ NewSession(u, t).last_seen_at = t
         /\ NewSession(u, t).revoked_at = NotRevoked
         /\ NewSession(u, t).absolute_expires_at = t + ABSOLUTE_TIMEOUT
  BY IdentityAssumption DEF NewSession

----------------------------------------------------------------------------
(* Type correctness.                                                       *)

\* Every value a step stores is of its variable's type: an account is only
\* changed where it exists, a session only where its row does.
LEMMA TypeStep == IdentityInv /\ [Next]_vars => IdentityTypeOK'
  <1> SUFFICES ASSUME IdentityInv, [Next]_vars PROVE IdentityTypeOK'
    OBVIOUS
  <1> USE IdentityAssumption DEF IdentityInv
  <1>1. CASE Tick
    BY <1>1 DEF Tick
  <1>2. ASSUME NEW c \in Calls, NEW e \in Emails, NEW p \in Passwords,
               StartRegister(c, e, p) \/ StartLogin(c, e, p)
        PROVE  IdentityTypeOK'
    BY <1>2 DEF StartRegister, StartLogin, Call
  <1>3. ASSUME NEW c \in Calls, NEW s \in Calls, StartAuthenticate(c, s)
        PROVE  IdentityTypeOK'
    BY <1>3 DEF StartAuthenticate, Call
  <1>4. ASSUME NEW c \in Calls, NEW s \in Calls, NEW ok \in BOOLEAN,
               StartLogout(c, s, ok)
        PROVE  IdentityTypeOK'
    BY <1>4 DEF StartLogout, Call
  <1>5. ASSUME NEW c \in Calls, Register(c) PROVE IdentityTypeOK'
    <2>1. call[c].email \in Emails /\ call[c].password \in Passwords
      BY <1>5 DEF Register, CallsTyped
    <2>2. users' \in [UserIds -> User \cup {NoUser}]
      BY <1>5, <2>1 DEF Register
    <2>3. sessions' \in [Calls -> UserSession \cup {NoSession}]
      <3>1. NewSession(c, now[c]) \in UserSession
        BY NewSessionFits
      <3> QED
        BY <1>5, <3>1 DEF Register
    <2>4. cpc' \in [Calls -> CallPcs]
      BY <1>5 DEF Register
    <2> QED
      BY <1>5, <2>2, <2>3, <2>4 DEF Register
  <1>6. ASSUME NEW c \in Calls, ReadCredentials(c) PROVE IdentityTypeOK'
    BY <1>6, AbsentRows DEF ReadCredentials
  <1>7. ASSUME NEW c \in Calls, VerifyPassword(c) PROVE IdentityTypeOK'
    BY <1>7 DEF VerifyPassword
  <1>8. ASSUME NEW c \in Calls, IssueSession(c) PROVE IdentityTypeOK'
    <2>1. verified[c].user_id \in UserIds /\ verified[c].hash \in UserIds
      BY <1>8 DEF IssueSession, CallsTyped
    <2>2. users' \in [UserIds -> User \cup {NoUser}]
      <3>1. CASE users[verified[c].user_id].hash # verified[c].hash
        BY <1>8, <3>1 DEF IssueSession
      <3>2. CASE users[verified[c].user_id].hash = verified[c].hash
        BY <1>8, <2>1, <3>2 DEF IssueSession
      <3> QED
        BY <3>1, <3>2
    <2>3. sessions' \in [Calls -> UserSession \cup {NoSession}]
      <3>1. NewSession(verified[c].user_id, now[c]) \in UserSession
        BY <2>1, NewSessionFits
      <3> QED
        BY <1>8, <3>1 DEF IssueSession
    <2>4. cpc' \in [Calls -> CallPcs]
      BY <1>8 DEF IssueSession
    <2> QED
      BY <1>8, <2>2, <2>3, <2>4 DEF IssueSession
  <1>9. ASSUME NEW c \in Calls, Cleanup(c) PROVE IdentityTypeOK'
    BY <1>9 DEF Cleanup
  <1>10. ASSUME NEW c \in Calls, AuthenticateAndTouch(c) PROVE IdentityTypeOK'
    <2>1. call[c].token \in Calls
      BY <1>10 DEF AuthenticateAndTouch, CallsTyped
    <2>2. sessions' \in [Calls -> UserSession \cup {NoSession}]
      BY <1>10, <2>1 DEF AuthenticateAndTouch
    <2>3. cpc' \in [Calls -> CallPcs] /\ refused' \in SUBSET Calls
      BY <1>10, <2>1 DEF AuthenticateAndTouch
    <2> QED
      BY <1>10, <2>2, <2>3 DEF AuthenticateAndTouch
  <1>11. ASSUME NEW c \in Calls, Logout(c) PROVE IdentityTypeOK'
    <2>1. call[c].token \in Calls
      BY <1>11 DEF Logout, CallsTyped
    <2>2. sessions' \in [Calls -> UserSession \cup {NoSession}]
      BY <1>11, <2>1 DEF Logout
    <2>3. cpc' \in [Calls -> CallPcs]
      BY <1>11 DEF Logout
    <2> QED
      BY <1>11, <2>2, <2>3 DEF Logout
  <1>12. CASE UNCHANGED vars
    BY <1>12 DEF vars
  <1> HIDE DEF IdentityTypeOK, IdentityInv
  <1> QED
    BY <1>1, <1>2, <1>3, <1>4, <1>5, <1>6, <1>7, <1>8, <1>9, <1>10, <1>11, <1>12
       DEF Next, StartCall, StepCall, Quiescent

----------------------------------------------------------------------------
(* Preservation of the invariant, action by action.                        *)

USE DEF IdentityInv

\* The clock moves away from everything read or stored so far.
LEMMA TickInv ==
  ASSUME IdentityInv, IdentityTypeOK', Tick
  PROVE  IdentityInv'
  <1>1. (CallsTyped /\ ClocksInPast /\ RowsAreCommitted /\ TokensAreAnswered /\
         LateFindsRevoked /\ SessionConstraintsHold /\ RegistrationIsAtomic)'
    BY IdentityAssumption, AbsentRows, NewSessionFits DEF Tick, CallsTyped, ClocksInPast,
       RowsAreCommitted, TokensAreAnswered, LateFindsRevoked, Revoked,
       SessionConstraintsHold, RegistrationIsAtomic
  <1> QED
    BY <1>1

\* A new register call has no row yet.
LEMMA StartRegisterInv ==
  ASSUME NEW c \in Calls, NEW e \in Emails, NEW p \in Passwords,
         IdentityInv, IdentityTypeOK', StartRegister(c, e, p)
  PROVE  IdentityInv'
  <1>1. (CallsTyped /\ ClocksInPast /\ RowsAreCommitted /\ TokensAreAnswered /\
         LateFindsRevoked /\ SessionConstraintsHold /\ RegistrationIsAtomic)'
    BY IdentityAssumption, AbsentRows, NewSessionFits DEF StartRegister, CallsTyped, ClocksInPast,
       RowsAreCommitted, TokensAreAnswered, LateFindsRevoked, Revoked,
       SessionConstraintsHold, RegistrationIsAtomic
  <1> QED
    BY <1>1

\* A new login call has no row yet.
LEMMA StartLoginInv ==
  ASSUME NEW c \in Calls, NEW e \in Emails, NEW p \in Passwords,
         IdentityInv, IdentityTypeOK', StartLogin(c, e, p)
  PROVE  IdentityInv'
  <1>1. (CallsTyped /\ ClocksInPast /\ RowsAreCommitted /\ TokensAreAnswered /\
         LateFindsRevoked /\ SessionConstraintsHold /\ RegistrationIsAtomic)'
    BY IdentityAssumption, AbsentRows, NewSessionFits DEF StartLogin, CallsTyped, ClocksInPast,
       RowsAreCommitted, TokensAreAnswered, LateFindsRevoked, Revoked,
       SessionConstraintsHold, RegistrationIsAtomic
  <1> QED
    BY <1>1

\* An authentication presents a token that register or login has answered
\* with, and reads the clock now; it is late exactly when the row is revoked.
LEMMA StartAuthenticateInv ==
  ASSUME NEW c \in Calls, NEW s \in Calls,
         IdentityInv, IdentityTypeOK', StartAuthenticate(c, s)
  PROVE  IdentityInv'
  <1>1. (CallsTyped /\ ClocksInPast /\ RowsAreCommitted /\ TokensAreAnswered /\
         LateFindsRevoked /\ SessionConstraintsHold /\ RegistrationIsAtomic)'
    BY IdentityAssumption, AbsentRows, NewSessionFits DEF StartAuthenticate, KnownToken, CallsTyped, ClocksInPast,
       RowsAreCommitted, TokensAreAnswered, LateFindsRevoked, Revoked,
       SessionConstraintsHold, RegistrationIsAtomic
  <1> QED
    BY <1>1

\* So does a logout.
LEMMA StartLogoutInv ==
  ASSUME NEW c \in Calls, NEW s \in Calls, NEW ok \in BOOLEAN,
         IdentityInv, IdentityTypeOK', StartLogout(c, s, ok)
  PROVE  IdentityInv'
  <1>1. (CallsTyped /\ ClocksInPast /\ RowsAreCommitted /\ TokensAreAnswered /\
         LateFindsRevoked /\ SessionConstraintsHold /\ RegistrationIsAtomic)'
    BY IdentityAssumption, AbsentRows, NewSessionFits DEF StartLogout, KnownToken, CallsTyped, ClocksInPast,
       RowsAreCommitted, TokensAreAnswered, LateFindsRevoked, Revoked,
       SessionConstraintsHold, RegistrationIsAtomic
  <1> QED
    BY <1>1

\* The account is new and so is its address, or nothing is stored.
LEMMA RegisterInv ==
  ASSUME NEW c \in Calls, IdentityInv, IdentityTypeOK', Register(c)
  PROVE  IdentityInv'
  <1> DEFINE account == [email |-> call[c].email, password |-> call[c].password,
                         hash |-> c]
  <1>1. CASE EmailTaken(call[c].email)
    <2>1. cpc' = [cpc EXCEPT ![c] = "refused"] /\ UNCHANGED <<users, sessions>>
      BY <1>1 DEF Register
    <2> QED
      BY <2>1, IdentityAssumption DEF Register, CallsTyped, ClocksInPast,
         RowsAreCommitted, TokensAreAnswered, LateFindsRevoked, Revoked,
         SessionConstraintsHold, RegistrationIsAtomic
  <1>2. CASE ~EmailTaken(call[c].email)
    <2>1. /\ users' = [users EXCEPT ![c] = account]
          /\ sessions' = [sessions EXCEPT ![c] = NewSession(c, now[c])]
          /\ cpc' = [cpc EXCEPT ![c] = "cleaning"]
      BY <1>2 DEF Register
    <2>2. account # NoUser /\ account.email = call[c].email
      BY IdentityAssumption
    <2>3. /\ NewSession(c, now[c]) # NoSession
          /\ NewSession(c, now[c]).user_id = c
          /\ NewSession(c, now[c]).created_at = now[c]
          /\ NewSession(c, now[c]).last_seen_at = now[c]
          /\ NewSession(c, now[c]).revoked_at = NotRevoked
          /\ NewSession(c, now[c]).absolute_expires_at = now[c] + ABSOLUTE_TIMEOUT
      BY NewSessionFits
    <2> HIDE DEF account
    <2>4. CallsTyped' /\ RowsAreCommitted' /\ TokensAreAnswered' /\ LateFindsRevoked'
      BY <2>1 DEF Register, CallsTyped, RowsAreCommitted, TokensAreAnswered,
         LateFindsRevoked, Revoked
    <2>5. ClocksInPast' /\ SessionConstraintsHold'
      BY <2>1, <2>3, IdentityAssumption DEF Register, ClocksInPast,
         SessionConstraintsHold
    <2>6. RegistrationIsAtomic'
      <3>1. \A u \in UserIds : users[u] # NoUser => users[u].email # call[c].email
        BY <1>2 DEF EmailTaken
      <3>2. \A s \in Calls : sessions[s] # NoSession => sessions[s].user_id \in UserIds
        BY AbsentRows
      <3> QED
        BY <2>1, <2>2, <2>3, <3>1, <3>2 DEF Register, RegistrationIsAtomic
    <2> QED
      BY <2>4, <2>5, <2>6
  <1> QED
    BY <1>1, <1>2

\* Reading the credentials changes no row.
LEMMA ReadCredentialsInv ==
  ASSUME NEW c \in Calls, IdentityInv, IdentityTypeOK', ReadCredentials(c)
  PROVE  IdentityInv'
  <1>1. \/ UNCHANGED cpc
        \/ cpc' = [cpc EXCEPT ![c] = "refused"] /\ UNCHANGED verified
    BY DEF ReadCredentials
  <1>2. /\ \A b \in Calls : b # c => verified'[b] = verified[b]
        /\ UNCHANGED <<clock, users, sessions, call, now, late, refused>>
        /\ cpc[c] = "reading"
    BY DEF ReadCredentials
  <1>3. CallsTyped' /\ RowsAreCommitted'
    BY <1>1, <1>2 DEF CallsTyped, RowsAreCommitted
  <1>4. TokensAreAnswered' /\ LateFindsRevoked'
    BY <1>1, <1>2 DEF CallsTyped, TokensAreAnswered, LateFindsRevoked, Revoked
  <1>5. ClocksInPast' /\ SessionConstraintsHold'
    BY <1>2 DEF ClocksInPast, SessionConstraintsHold
  <1>6. RegistrationIsAtomic'
    BY <1>1, <1>2 DEF RowsAreCommitted, RegistrationIsAtomic
  <1> QED
    BY <1>3, <1>4, <1>5, <1>6

\* The clock is read after the password was verified.
LEMMA VerifyPasswordInv ==
  ASSUME NEW c \in Calls, IdentityInv, IdentityTypeOK', VerifyPassword(c)
  PROVE  IdentityInv'
  <1>1. (CallsTyped /\ ClocksInPast /\ RowsAreCommitted /\ TokensAreAnswered /\
         LateFindsRevoked /\ SessionConstraintsHold /\ RegistrationIsAtomic)'
    BY IdentityAssumption, AbsentRows, NewSessionFits DEF VerifyPassword, CallsTyped, ClocksInPast,
       RowsAreCommitted, TokensAreAnswered, LateFindsRevoked, Revoked,
       SessionConstraintsHold, RegistrationIsAtomic
  <1> QED
    BY <1>1

\* The locked account exists and keeps its address; the session is new.
LEMMA IssueSessionInv ==
  ASSUME NEW c \in Calls, IdentityInv, IdentityTypeOK', IssueSession(c)
  PROVE  IdentityInv'
  <1> DEFINE u == verified[c].user_id
             new == IF NeedsRehash(verified[c].hash) THEN c ELSE users[u].hash
  <1>1. u \in UserIds /\ verified[c].hash \in UserIds
    BY DEF IssueSession, CallsTyped
  <1>2. CASE users[u].hash # verified[c].hash
    <2>1. cpc' = [cpc EXCEPT ![c] = "refused"] /\ UNCHANGED <<users, sessions>>
      BY <1>2 DEF IssueSession
    <2> QED
      BY <2>1, IdentityAssumption DEF IssueSession, CallsTyped, ClocksInPast,
         RowsAreCommitted, TokensAreAnswered, LateFindsRevoked, Revoked,
         SessionConstraintsHold, RegistrationIsAtomic
  <1>3. CASE users[u].hash = verified[c].hash
    <2>1. /\ users' = [users EXCEPT ![u].hash = new]
          /\ sessions' = [sessions EXCEPT ![c] = NewSession(u, now[c])]
          /\ cpc' = [cpc EXCEPT ![c] = "cleaning"]
      BY <1>3 DEF IssueSession
    <2>2. users[u] # NoUser
      BY <1>1, <1>3, IdentityAssumption
    <2>3. \A v \in UserIds : /\ users'[v] = NoUser <=> users[v] = NoUser
                             /\ users[v] # NoUser => users'[v].email = users[v].email
      <3>1. \A v \in UserIds : v # u => users'[v] = users[v]
        BY <2>1
      <3>2. users'[u] # NoUser /\ users'[u].email = users[u].email
        <4>1. users[u] \in User /\ new \in UserIds
          BY <1>1, <1>3, <2>2
        <4>2. users'[u] = [users[u] EXCEPT !.hash = new]
          BY <1>1, <2>1
        <4> HIDE DEF new
        <4> QED
          BY <4>1, <4>2, IdentityAssumption
      <3> QED
        BY <2>2, <3>1, <3>2
    <2>4. /\ NewSession(u, now[c]) # NoSession
          /\ NewSession(u, now[c]).user_id = u
          /\ NewSession(u, now[c]).created_at = now[c]
          /\ NewSession(u, now[c]).last_seen_at = now[c]
          /\ NewSession(u, now[c]).revoked_at = NotRevoked
          /\ NewSession(u, now[c]).absolute_expires_at = now[c] + ABSOLUTE_TIMEOUT
      BY <1>1, NewSessionFits
    <2> HIDE DEF u, new
    <2>5. CallsTyped' /\ TokensAreAnswered' /\ LateFindsRevoked'
      BY <2>1 DEF IssueSession, CallsTyped, TokensAreAnswered, LateFindsRevoked,
         Revoked
    <2>6. RowsAreCommitted'
      BY <2>1, <2>3 DEF IssueSession, RowsAreCommitted
    <2>7. ClocksInPast' /\ SessionConstraintsHold'
      BY <2>1, <2>4, IdentityAssumption DEF IssueSession, ClocksInPast,
         SessionConstraintsHold
    <2>8. RegistrationIsAtomic'
      <3>1. \A s \in Calls : sessions[s] # NoSession => sessions[s].user_id \in UserIds
        BY AbsentRows
      <3>2. \A v, w \in UserIds :
               users'[v] # NoUser /\ users'[w] # NoUser /\ users'[v].email = users'[w].email
                  => v = w
        BY <2>3 DEF RegistrationIsAtomic
      <3>3. \A s \in Calls : sessions'[s] # NoSession => users'[sessions'[s].user_id] # NoUser
        BY <1>1, <2>1, <2>2, <2>3, <2>4, <3>1 DEF RegistrationIsAtomic
      <3>4. \A b \in Calls :
               cpc'[b] = "refused" => users'[b] = NoUser /\ sessions'[b] = NoSession
        BY <2>1, <2>3 DEF RegistrationIsAtomic
      <3> QED
        BY <3>2, <3>3, <3>4 DEF RegistrationIsAtomic
    <2> QED
      BY <2>5, <2>6, <2>7, <2>8
  <1> QED
    BY <1>2, <1>3

\* Rows only go.
LEMMA CleanupInv ==
  ASSUME NEW c \in Calls, IdentityInv, IdentityTypeOK', Cleanup(c)
  PROVE  IdentityInv'
  <1>1. \A s \in Calls : sessions'[s] = sessions[s] \/ sessions'[s] = NoSession
    BY DEF Cleanup
  <1>2. /\ cpc' = [cpc EXCEPT ![c] = "done"] /\ cpc[c] = "cleaning"
        /\ UNCHANGED <<clock, users, call, now, verified, late, refused>>
    BY DEF Cleanup
  <1>3. CallsTyped' /\ ClocksInPast' /\ RowsAreCommitted'
    BY <1>1, <1>2 DEF CallsTyped, ClocksInPast, RowsAreCommitted
  <1>4. TokensAreAnswered' /\ LateFindsRevoked'
    BY <1>1, <1>2 DEF CallsTyped, TokensAreAnswered, LateFindsRevoked, Revoked
  <1>5. SessionConstraintsHold' /\ RegistrationIsAtomic'
    BY <1>1, <1>2 DEF SessionConstraintsHold, RegistrationIsAtomic
  <1> QED
    BY <1>3, <1>4, <1>5

\* A touch moves last_seen_at forward and stays below the absolute limit.
LEMMA TouchInv ==
  ASSUME NEW c \in Calls, IdentityInv, IdentityTypeOK', AuthenticateAndTouch(c)
  PROVE  IdentityInv'
  <1> DEFINE s == call[c].token
  <1>1. s \in Calls /\ cpc[c] = "touching" /\ cpc[s] = "done"
    BY DEF AuthenticateAndTouch, CallsTyped, TokensAreAnswered
  <1>2. CASE ~(sessions[s] # NoSession /\ Touchable(sessions[s], now[c]))
    <2>1. cpc' = [cpc EXCEPT ![c] = "refused"] /\ UNCHANGED sessions
      BY <1>2 DEF AuthenticateAndTouch
    <2> HIDE DEF s
    <2> QED
      BY <1>1, <2>1 DEF AuthenticateAndTouch, CallsTyped, ClocksInPast,
         RowsAreCommitted, TokensAreAnswered, LateFindsRevoked, Revoked,
         SessionConstraintsHold, RegistrationIsAtomic
  <1>3. CASE sessions[s] # NoSession /\ Touchable(sessions[s], now[c])
    <2> DEFINE seen == IF sessions[s].last_seen_at < now[c]
                       THEN now[c] ELSE sessions[s].last_seen_at
    <2>1. /\ sessions' = [sessions EXCEPT ![s].last_seen_at = seen]
          /\ cpc' = [cpc EXCEPT ![c] = "granted"]
      BY <1>3 DEF AuthenticateAndTouch
    <2>2. sessions[s] \in UserSession
      BY <1>1, <1>3
    <2>3. /\ \A x \in Calls : x # s => sessions'[x] = sessions[x]
          /\ sessions'[s] = [sessions[s] EXCEPT !.last_seen_at = seen]
      BY <1>1, <2>1
    <2>4. /\ sessions'[s] # NoSession
          /\ sessions'[s].user_id = sessions[s].user_id
          /\ sessions'[s].created_at = sessions[s].created_at
          /\ sessions'[s].absolute_expires_at = sessions[s].absolute_expires_at
          /\ sessions'[s].revoked_at = sessions[s].revoked_at
          /\ sessions'[s].last_seen_at = seen
      <3> HIDE DEF s, seen
      <3> QED
        BY <2>2, <2>3, IdentityAssumption
    <2>5. /\ sessions[s].last_seen_at <= seen
          /\ seen <= sessions[s].absolute_expires_at
      BY <1>1, <1>3, <2>2, IdentityAssumption DEF Touchable, SessionConstraintsHold
    <2>6. c \notin late
      BY <1>1, <1>3 DEF LateFindsRevoked, Revoked, Touchable
    <2> HIDE DEF s, seen
    <2>7. CallsTyped' /\ RowsAreCommitted'
      BY <1>1, <1>3, <2>1, <2>3, <2>4 DEF AuthenticateAndTouch, CallsTyped,
         RowsAreCommitted
    <2>8. ClocksInPast'
      BY <1>1, <1>3, <2>1, <2>3, <2>4 DEF AuthenticateAndTouch, ClocksInPast
    <2>9. TokensAreAnswered'
      BY <1>1, <1>3, <2>1, <2>3, <2>4 DEF AuthenticateAndTouch, TokensAreAnswered,
         CallsTyped
    <2>10. LateFindsRevoked'
      BY <1>1, <1>3, <2>1, <2>3, <2>4, <2>6 DEF AuthenticateAndTouch,
         LateFindsRevoked, Revoked, CallsTyped
    <2>11. SessionConstraintsHold'
      <3>1. seen \in Time
        BY <1>1, <2>2 DEF seen
      <3> QED
        BY <1>1, <1>3, <2>2, <2>3, <2>4, <2>5, <3>1 DEF SessionConstraintsHold
    <2>12. RegistrationIsAtomic'
      BY <1>1, <1>3, <2>1, <2>3, <2>4 DEF AuthenticateAndTouch, RegistrationIsAtomic
    <2> QED
      BY <2>7, <2>8, <2>9, <2>10, <2>11, <2>12
  <1> QED
    BY <1>2, <1>3

\* A revocation is stored with a clock value read after the session began.
LEMMA LogoutInv ==
  ASSUME NEW c \in Calls, IdentityInv, IdentityTypeOK', Logout(c)
  PROVE  IdentityInv'
  <1> DEFINE s == call[c].token
  <1>1. /\ s \in Calls /\ cpc[c] = "revoking" /\ cpc[s] = "done"
        /\ sessions[s] # NoSession => sessions[s].created_at <= now[c]
    BY DEF Logout, CallsTyped, TokensAreAnswered
  <1>2. /\ cpc' = [cpc EXCEPT ![c] = cpc'[c]] /\ cpc'[c] \in {"refused", "done"}
        /\ UNCHANGED <<clock, users, call, now, verified, late, refused>>
    BY DEF Logout
  <1>3. CASE UNCHANGED sessions
    <2> HIDE DEF s
    <2>1. CallsTyped' /\ RowsAreCommitted'
      BY <1>1, <1>2, <1>3 DEF CallsTyped, RowsAreCommitted
    <2>2. ClocksInPast' /\ SessionConstraintsHold'
      BY <1>2, <1>3 DEF ClocksInPast, SessionConstraintsHold
    <2>3. TokensAreAnswered' /\ LateFindsRevoked'
      BY <1>1, <1>2, <1>3 DEF TokensAreAnswered, LateFindsRevoked, Revoked, CallsTyped
    <2>4. RegistrationIsAtomic'
      BY <1>1, <1>2, <1>3 DEF RegistrationIsAtomic, RowsAreCommitted
    <2> QED
      BY <2>1, <2>2, <2>3, <2>4
  <1>4. CASE /\ sessions[s] # NoSession
             /\ sessions' = [sessions EXCEPT ![s].revoked_at = now[c]]
    <2>1. sessions[s] \in UserSession
      BY <1>1, <1>4
    <2>2. /\ \A x \in Calls : x # s => sessions'[x] = sessions[x]
          /\ sessions'[s] = [sessions[s] EXCEPT !.revoked_at = now[c]]
      BY <1>1, <1>4
    <2> HIDE DEF s
    <2>3. /\ sessions'[s] # NoSession
          /\ sessions'[s].user_id = sessions[s].user_id
          /\ sessions'[s].created_at = sessions[s].created_at
          /\ sessions'[s].absolute_expires_at = sessions[s].absolute_expires_at
          /\ sessions'[s].last_seen_at = sessions[s].last_seen_at
          /\ sessions'[s].revoked_at = now[c]
          /\ now[c] # NotRevoked
      BY <2>1, <2>2, IdentityAssumption
    <2>4. CallsTyped' /\ RowsAreCommitted'
      BY <1>1, <1>2, <1>4, <2>2, <2>3 DEF CallsTyped, RowsAreCommitted
    <2>5. ClocksInPast' /\ SessionConstraintsHold'
      BY <1>1, <1>2, <1>4, <2>1, <2>2, <2>3 DEF ClocksInPast, SessionConstraintsHold
    <2>6. TokensAreAnswered' /\ LateFindsRevoked'
      BY <1>1, <1>2, <1>4, <2>2, <2>3 DEF TokensAreAnswered, LateFindsRevoked,
         Revoked, CallsTyped
    <2>7. RegistrationIsAtomic'
      BY <1>1, <1>2, <1>4, <2>2, <2>3 DEF RegistrationIsAtomic, RowsAreCommitted
    <2> QED
      BY <2>4, <2>5, <2>6, <2>7
  <1> QED
    BY <1>3, <1>4 DEF Logout

----------------------------------------------------------------------------
(* The theorems.                                                           *)

\* Before the first call there are the veterans, each with its own address,
\* and no session.
LEMMA InvInit == Init => IdentityInv
  <1> SUFFICES ASSUME Init PROVE IdentityInv
    OBVIOUS
  <1>1. IdentityTypeOK
    BY IdentityAssumption DEF Init
  <1>2. CallsTyped /\ ClocksInPast /\ TokensAreAnswered /\ LateFindsRevoked
    BY DEF Init, CallsTyped, ClocksInPast, TokensAreAnswered, LateFindsRevoked
  <1>3. RowsAreCommitted /\ SessionConstraintsHold
    BY IdentityAssumption DEF Init, RowsAreCommitted, SessionConstraintsHold
  <1>4. RegistrationIsAtomic
    BY IdentityAssumption DEF Init, RegistrationIsAtomic
  <1> QED
    BY <1>1, <1>2, <1>3, <1>4

\* Every step of the identity service preserves the invariant.
LEMMA InvStep == IdentityInv /\ [Next]_vars => IdentityInv'
  <1> SUFFICES ASSUME IdentityInv, [Next]_vars PROVE IdentityInv'
    OBVIOUS
  <1>1. IdentityTypeOK'
    BY TypeStep
  <1>2. CASE UNCHANGED vars
    BY <1>2 DEF vars, CallsTyped, ClocksInPast, RowsAreCommitted,
       TokensAreAnswered, LateFindsRevoked, Revoked, SessionConstraintsHold,
       RegistrationIsAtomic
  <1> HIDE DEF IdentityInv, IdentityTypeOK
  <1>3. ASSUME NEW c \in Calls, StartCall(c) PROVE IdentityInv'
    BY <1>1, <1>3, StartRegisterInv, StartLoginInv, StartAuthenticateInv,
       StartLogoutInv DEF StartCall
  <1>4. ASSUME NEW c \in Calls, StepCall(c) PROVE IdentityInv'
    BY <1>1, <1>4, RegisterInv, ReadCredentialsInv, VerifyPasswordInv,
       IssueSessionInv, CleanupInv, TouchInv, LogoutInv DEF StepCall
  <1> QED
    BY <1>1, <1>2, <1>3, <1>4, TickInv DEF Next, Quiescent

\* The invariant holds in every reachable state of the identity service.
THEOREM IdentityInvariance == Spec => []IdentityInv
  BY InvInit, InvStep, PTL DEF Spec

\* Type correctness of the identity service.
THEOREM IdentityTypes == Spec => []IdentityTypeOK
  BY IdentityInvariance, PTL DEF IdentityInv

\* The CHECK constraints of table sessions never fire, however late a
\* statement of _issue_session, authenticate_and_touch or logout runs with
\* the clock value its call has read.
THEOREM SessionConstraints == Spec => []SessionConstraintsHold
  BY IdentityInvariance, PTL DEF IdentityInv

\* _classify_session and the WHERE clauses of authenticate_and_touch and
\* delete_inactive_batch agree on every stored session at every instant.
THEOREM SessionPredicates == Spec => []PredicatesAgree
  <1>1. IdentityInv => PredicatesAgree
    BY OneBoundary DEF PredicatesAgree
  <1> QED
    BY <1>1, IdentityInvariance, PTL

\* authenticate never lets in a request that arrived after the session was
\* revoked, whatever clock values older requests still carry.
THEOREM RevocationHolds == Spec => []RevokedStaysOut
  <1>1. IdentityInv => RevokedStaysOut
    BY DEF LateFindsRevoked, RevokedStaysOut
  <1> QED
    BY <1>1, IdentityInvariance, PTL

\* register stores the account and its first session together or not at all,
\* one account per address however registrations race.
THEOREM RegistrationAtomic == Spec => []RegistrationIsAtomic
  BY IdentityInvariance, PTL DEF IdentityInv

----------------------------------------------------------------------------
(* What a step may never do.                                               *)

\* The steps that write table sessions.
LEMMA SessionWriters ==
  ASSUME IdentityInv, Next
  PROVE  \/ UNCHANGED sessions
         \/ \E c \in Calls : \/ Register(c) \/ IssueSession(c) \/ Cleanup(c)
                             \/ AuthenticateAndTouch(c) \/ Logout(c)
  BY DEF Next, Tick, StartCall, StepCall, Quiescent, vars, StartRegister,
     StartLogin, StartAuthenticate, StartLogout, ReadCredentials, VerifyPassword

\* No step moves last_seen_at back.
LEMMA SeenStep ==
  ASSUME IdentityInv, Next, NEW s \in Calls,
         sessions[s] # NoSession, sessions'[s] # NoSession
  PROVE  sessions'[s].last_seen_at >= sessions[s].last_seen_at
  <1>1. sessions[s] \in UserSession /\ sessions[s].last_seen_at \in Int
    OBVIOUS
  <1>2. ASSUME NEW c \in Calls, Register(c) \/ IssueSession(c)
        PROVE  sessions'[s] = sessions[s]
    BY <1>2 DEF Register, IssueSession, RowsAreCommitted
  <1>3. ASSUME NEW c \in Calls, Cleanup(c) PROVE sessions'[s] = sessions[s]
    BY <1>3 DEF Cleanup
  <1>4. ASSUME NEW c \in Calls, AuthenticateAndTouch(c)
        PROVE  sessions'[s].last_seen_at >= sessions[s].last_seen_at
    BY <1>1, <1>4 DEF AuthenticateAndTouch, CallsTyped
  <1>5. ASSUME NEW c \in Calls, Logout(c)
        PROVE  sessions'[s].last_seen_at = sessions[s].last_seen_at
    BY <1>1, <1>5 DEF Logout, CallsTyped
  <1> QED
    BY <1>1, <1>2, <1>3, <1>4, <1>5, SessionWriters

\* "so concurrent requests cannot ... regress a session": the GREATEST of
\* authenticate_and_touch keeps last_seen_at from moving back when an older
\* clock value is written last.
THEOREM SeenIsMonotonic == Spec => SeenNeverRegresses
  <1>1. IdentityInv /\ [Next]_vars =>
          [\A s \in Calls :
             sessions[s] # NoSession /\ sessions'[s] # NoSession =>
                 sessions'[s].last_seen_at >= sessions[s].last_seen_at]_vars
    BY SeenStep
  <1> QED
    BY <1>1, IdentityInvariance, PTL DEF Spec, SeenNeverRegresses

\* No step deletes an active session.
LEMMA CleanupStep ==
  ASSUME IdentityInv, Next, NEW s \in Calls,
         sessions[s] # NoSession, sessions'[s] = NoSession
  PROVE  ~Touchable(sessions[s], clock)
  <1>1. sessions[s] \in UserSession
    OBVIOUS
  <1>2. ASSUME NEW c \in Calls, Register(c) \/ IssueSession(c) PROVE FALSE
    BY <1>2 DEF Register, IssueSession, RowsAreCommitted
  <1>3. ASSUME NEW c \in Calls, AuthenticateAndTouch(c) \/ Logout(c) PROVE FALSE
    <2>1. call[c].token \in Calls
      BY <1>3 DEF AuthenticateAndTouch, Logout, CallsTyped
    <2>2. sessions'[s].user_id = sessions[s].user_id
      BY <1>1, <1>3, <2>1 DEF AuthenticateAndTouch, Logout
    <2> QED
      BY <1>1, <2>2, IdentityAssumption
  <1>4. ASSUME NEW c \in Calls, Cleanup(c) PROVE ~Touchable(sessions[s], clock)
    <2>1. Inactive(sessions[s], now[c])
      BY <1>4 DEF Cleanup, IsBatch
    <2>2. now[c] \in Time /\ clock \in Time /\ now[c] <= clock
      BY DEF ClocksInPast
    <2> QED
      BY <1>1, <2>1, <2>2, InactiveStays
  <1> QED
    BY <1>2, <1>3, <1>4, SessionWriters

\* delete_inactive_batch never deletes a session that authenticate_and_touch
\* would accept now, although it works with the clock value of the login it
\* follows: that value is not in the future, and inactivity only grows.
THEOREM CleanupIsSafe == Spec => CleanupSparesActive
  <1>1. IdentityInv /\ [Next]_vars =>
          [\A s \in Calls :
             sessions[s] # NoSession /\ sessions'[s] = NoSession =>
                 ~Touchable(sessions[s], clock)]_vars
    BY CleanupStep
  <1> QED
    BY <1>1, IdentityInvariance, PTL DEF Spec, CleanupSparesActive

\* No step replaces a current hash.
LEMMA RehashStep ==
  ASSUME IdentityInv, Next, NEW u \in UserIds,
         users[u] # NoUser, users[u].hash \notin Veterans
  PROVE  users'[u].hash = users[u].hash
  <1>1. \/ UNCHANGED users
        \/ \E c \in Calls : Register(c) \/ IssueSession(c)
    BY DEF Next, Tick, StartCall, StepCall, Quiescent, vars, StartRegister,
       StartLogin, StartAuthenticate, StartLogout, ReadCredentials,
       VerifyPassword, Cleanup, AuthenticateAndTouch, Logout
  <1>2. ASSUME NEW c \in Calls, Register(c) PROVE users'[u] = users[u]
    BY <1>2 DEF Register, RowsAreCommitted
  <1>3. ASSUME NEW c \in Calls, IssueSession(c) PROVE users'[u].hash = users[u].hash
    <2>1. verified[c].user_id \in UserIds
      BY <1>3 DEF IssueSession, CallsTyped
    <2> QED
      BY <1>3, <2>1 DEF IssueSession, NeedsRehash
  <1> QED
    BY <1>1, <1>2, <1>3

\* login replaces a hash only if it has old parameters and is still the one
\* whose password was verified: the second of two concurrent logins that both
\* decided to rehash finds the hash of the first and gives up.
THEOREM RehashIsOnce == Spec => RehashedOnce
  <1>1. IdentityInv /\ [Next]_vars =>
          [\A u \in UserIds :
             users[u] # NoUser /\ users[u].hash \notin Veterans =>
                 users'[u].hash = users[u].hash]_vars
    BY RehashStep
  <1> QED
    BY <1>1, IdentityInvariance, PTL DEF Spec, RehashedOnce

=============================================================================
