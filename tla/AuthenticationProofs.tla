-------------------------- MODULE AuthenticationProofs --------------------------
(*****************************************************************************)
(* What the authentication layer promises for any number of requests, ids,   *)
(* users and ticks of the clock, over any store that keeps the contract; and *)
(* what that means for the authorization layers inside it.                   *)
(*                                                                           *)
(* The first part is about Authentication alone.  The second is about which  *)
(* sessions a request can be given and which nobody can lose: its inductive  *)
(* invariant is BoundsEnclose, the records in force enclosed between what    *)
(* login and logout have promised at every moment of every restoration.  The *)
(* third goes from there through the extensions, which no handler changes,   *)
(* to the decisions of an authorization layer.                               *)
(*****************************************************************************)
EXTENDS AuthorizedRequests, TLAPS

LEMMA RecordTyped == ASSUME NEW s \in Session PROVE RecordOf(s) \in StoredSession
BY DEF Session, StoredSession, RecordOf, User

LEMMA ProposedTyped ==
    ASSUME TypeOK, NEW r \in Requests, NEW u \in user[r], NEW id \in Ids
    PROVE  Proposed(r, u, id) \in Session
BY DEF TypeOK, Proposed, Session, Time

LEMMA CurrentUserTyped ==
    ASSUME TypeOK, NEW u \in UserIds
    PROVE  CurrentUser(u) \subseteq User
BY DEF TypeOK, CurrentUser, User, Account

LEMMA CreateTyped ==
    ASSUME TypeOK, NEW s \in Session, Create(RecordOf(s))
    PROVE  store' \subseteq StoredSession
BY RecordTyped DEF TypeOK, StoreTypeOK, Create

LEMMA UnansweredTyped ==
    ASSUME TypeOK, NEW r \in Requests, CreateUnanswered(r)
    PROVE  store' \subseteq StoredSession
BY CreateTyped, ProposedTyped DEF CreateUnanswered

LEMMA RevokeTyped ==
    ASSUME TypeOK, NEW r \in Requests, RevokeLeaving(r)
    PROVE  store' \subseteq StoredSession
BY DEF TypeOK, StoreTypeOK, RevokeLeaving, Revoke

-------------------------------------------------------------------------------

LEMMA MiddlewareTyped ==
    ASSUME TypeOK, NEW r \in Requests, Middleware(r)
    PROVE  TypeOK'
<1>1. CASE Receive(r)
  BY <1>1 DEF TypeOK, StoreTypeOK, Receive, GoTo, Places, Options
<1>2. CASE StoreGet(r)
  <2>1. stored' \in [Requests -> SUBSET StoredSession]
    BY <1>2 DEF TypeOK, StoreTypeOK, StoreGet, Lookup
  <2> QED
    BY <1>2, <2>1 DEF TypeOK, StoreTypeOK, StoreGet, GoTo, Places
<1>3. CASE CheckStored(r)
  <2>1. stored' \in [Requests -> SUBSET StoredSession]
    BY <1>3 DEF TypeOK, CheckStored, Unexpired
  <2> QED
    BY <1>3, <2>1 DEF TypeOK, StoreTypeOK, CheckStored, GoTo, Places
<1>4. CASE BackendGet(r)
  <2>1. PICK s \in stored[r] : \E answer \in {CurrentUser(s.user_id), {}} :
          /\ extension' = [extension EXCEPT ![r] = Restored(s, answer)]
          /\ current' = [current EXCEPT ![r] = Restored(s, answer)]
    BY <1>4 DEF BackendGet
  <2>2. PICK answer \in {CurrentUser(s.user_id), {}} :
          /\ extension' = [extension EXCEPT ![r] = Restored(s, answer)]
          /\ current' = [current EXCEPT ![r] = Restored(s, answer)]
    BY <2>1
  <2>3. s \in StoredSession
    BY DEF TypeOK
  <2>4. answer \subseteq User
    BY <2>3, CurrentUserTyped DEF StoredSession
  <2>5. Restored(s, answer) \subseteq Session
    BY <2>3, <2>4 DEF StoredSession, Session, Restored
  <2> QED
    BY <1>4, <2>2, <2>5 DEF TypeOK, StoreTypeOK, BackendGet, GoTo, Places
<1> QED
  BY <1>1, <1>2, <1>3, <1>4 DEF Middleware

LEMMA LoginSucceedsTyped ==
    ASSUME TypeOK, NEW r \in Requests, LoginSucceeds(r)
    PROVE  TypeOK'
<1>1. PICK u \in user[r], id \in Ids :
        LET s == Proposed(r, u, id)
        IN  /\ Create(RecordOf(s))
            /\ current' = [current EXCEPT ![r] = {s}]
            /\ fresh' = [fresh EXCEPT ![r] = {s}]
  BY DEF LoginSucceeds
<1>2. Proposed(r, u, id) \in Session
  BY ProposedTyped
<1>3. store' \subseteq StoredSession
  BY <1>1, <1>2, CreateTyped
<1>4. /\ current' \in [Requests -> SUBSET Session]
      /\ fresh' \in [Requests -> SUBSET Session]
  BY <1>1, <1>2 DEF TypeOK
<1> QED
  BY <1>3, <1>4
  DEF TypeOK, StoreTypeOK, LoginSucceeds, LeaveLogin, GoTo, Places, Time

LEMMA HandlerTyped ==
    ASSUME TypeOK, NEW r \in Requests, Handler(r)
    PROVE  TypeOK'
<1>1. CASE Authenticate(r)
  <2>1. user' \in [Requests -> SUBSET User]
    BY <1>1, CurrentUserTyped DEF TypeOK, Authenticate
  <2> QED
    BY <1>1, <2>1 DEF TypeOK, StoreTypeOK, Authenticate
<1>2. CASE BeginLogin(r)
  BY <1>2, LifetimeIsTime
  DEF TypeOK, StoreTypeOK, BeginLogin, Expiry, GoTo, Places, Time
<1>3. CASE LoginSucceeds(r)
  BY <1>3, LoginSucceedsTyped
<1>4. CASE LoginCollides(r)
  BY <1>4 DEF TypeOK, StoreTypeOK, LoginCollides, Collides, requestVars
<1>5. CASE LoginFails(r)
  <2>1. store' \subseteq StoredSession
    BY <1>5, UnansweredTyped DEF LoginFails, TypeOK, StoreTypeOK
  <2> QED
    BY <1>5, <2>1 DEF TypeOK, StoreTypeOK, LoginFails, LeaveLogin, GoTo, Places, Time
<1>6. CASE BeginLogout(r)
  <2>1. leaving' \in [Requests -> SUBSET Session]
    BY <1>6 DEF TypeOK, BeginLogout
  <2> QED
    BY <1>6, <2>1 DEF TypeOK, StoreTypeOK, BeginLogout, GoTo, Places
<1>7. CASE LogoutSucceeds(r)
  <2>1. store' \subseteq StoredSession
    BY <1>7, RevokeTyped DEF LogoutSucceeds
  <2> QED
    BY <1>7, <2>1 DEF TypeOK, StoreTypeOK, LogoutSucceeds, LeaveLogout, GoTo, Places
<1>8. CASE LogoutFails(r)
  <2>1. store' \subseteq StoredSession
    BY <1>8, RevokeTyped DEF LogoutFails, TypeOK, StoreTypeOK
  <2> QED
    BY <1>8, <2>1 DEF TypeOK, StoreTypeOK, LogoutFails, LeaveLogout, GoTo, Places
<1> QED
  BY <1>1, <1>2, <1>3, <1>4, <1>5, <1>6, <1>7, <1>8 DEF Handler

LEMMA ReleaseTyped ==
    ASSUME TypeOK, NEW r \in Requests, Release(r), store' \subseteq StoredSession
    PROVE  TypeOK'
BY DEF TypeOK, StoreTypeOK, Release, GoTo, Places, Time

LEMMA EnvironmentTyped ==
    ASSUME TypeOK, Environment
    PROVE  TypeOK'
<1>1. CASE PassTime
  <2>1. now' \in Time
    BY <1>1 DEF PassTime, Tick, TypeOK, StoreTypeOK, Time
  <2>2. store' \subseteq StoredSession
    BY <1>1 DEF PassTime, ForgetExpired, TypeOK, StoreTypeOK
  <2> QED
    BY <1>1, <2>1, <2>2 DEF PassTime, TypeOK, StoreTypeOK, requestVars
<1>2. ASSUME NEW u \in UserIds, EditAccount(u) PROVE TypeOK'
  <2>1. accounts' \in [UserIds -> Account]
    BY <1>2 DEF EditAccount, TypeOK, Account
  <2> QED
    BY <1>2, <2>1 DEF EditAccount, TypeOK, StoreTypeOK, requestVars
<1> QED
  BY <1>1, <1>2 DEF Environment

LEMMA StepTyped == TypeOK /\ [Next]_vars => TypeOK'
<1> SUFFICES ASSUME TypeOK, [Next]_vars PROVE TypeOK'
  OBVIOUS
<1>1. ASSUME NEW r \in Requests, Middleware(r) PROVE TypeOK'
  BY <1>1, MiddlewareTyped
<1>2. ASSUME NEW r \in Requests, Handler(r) PROVE TypeOK'
  BY <1>2, HandlerTyped
<1>3. ASSUME NEW r \in Requests, Respond(r) PROVE TypeOK'
  BY <1>3, ReleaseTyped DEF Respond, TypeOK, StoreTypeOK
<1>4. ASSUME NEW r \in Requests, Cancel(r) PROVE TypeOK'
  <2>1. store' \subseteq StoredSession
    BY <1>4, UnansweredTyped, RevokeTyped DEF Cancel, TypeOK, StoreTypeOK
  <2> QED
    BY <1>4, <2>1, ReleaseTyped DEF Cancel
<1>5. CASE Environment
  BY <1>5, EnvironmentTyped
<1>6. CASE UNCHANGED vars
  BY <1>6 DEF vars, requestVars, TypeOK, StoreTypeOK
<1> QED
  BY <1>1, <1>2, <1>3, <1>4, <1>5, <1>6 DEF Next

LEMMA InitTyped == Init => TypeOK
BY DEF Init, StoreInit, TypeOK, StoreTypeOK, Time, Account, Places

\* The state of the middleware and of every request stays well-typed.
THEOREM TypeCorrect == Spec => []TypeOK
BY InitTyped, StepTyped, PTL DEF Spec

-------------------------------------------------------------------------------
(* AuthenticationHistory: who is given which session.                        *)

LEMMA HistoryStepIsStep == [HistoryNext]_allVars => [Next]_vars
BY DEF HistoryNext, Unacknowledged, Next, Handler, allVars

-------------------------------------------------------------------------------
(* What one step of the program does to each part of the state.              *)

LEMMA ClockMonotone ==
    ASSUME TypeOK, [Next]_vars
    PROVE  now \in Nat /\ now' \in Nat /\ now <= now'
<1>1. now \in Nat
  BY DEF TypeOK, StoreTypeOK, Time
<1>2. ASSUME NEW r \in Requests, Middleware(r) PROVE now' = now
  BY <1>2 DEF Middleware, Receive, StoreGet, CheckStored, BackendGet
<1>3. ASSUME NEW r \in Requests, Handler(r) PROVE now' = now
  BY <1>3 DEF Handler, Authenticate, BeginLogin, LoginSucceeds, LoginCollides,
              LoginFails, BeginLogout, LogoutSucceeds, LogoutFails
<1>4. ASSUME NEW r \in Requests, Respond(r) \/ Cancel(r) PROVE now' = now
  BY <1>4 DEF Respond, Cancel, Release
<1>5. CASE Environment
  BY <1>1, <1>5 DEF Environment, PassTime, Tick, EditAccount
<1>6. CASE UNCHANGED vars
  BY <1>1, <1>6 DEF vars
<1> QED
  BY <1>1, <1>2, <1>3, <1>4, <1>5, <1>6 DEF Next

LEMMA VersionsMonotone ==
    ASSUME TypeOK, [Next]_vars, NEW u \in UserIds
    PROVE  /\ accounts[u].version \in Nat /\ accounts'[u].version \in Nat
           /\ accounts[u].version <= accounts'[u].version
<1>1. accounts[u].version \in Nat
  BY DEF TypeOK, Account
<1>2. ASSUME NEW r \in Requests, Middleware(r) PROVE accounts' = accounts
  BY <1>2 DEF Middleware, Receive, StoreGet, CheckStored, BackendGet
<1>3. ASSUME NEW r \in Requests, Handler(r) PROVE accounts' = accounts
  BY <1>3 DEF Handler, Authenticate, BeginLogin, LoginSucceeds, LoginCollides,
              LoginFails, BeginLogout, LogoutSucceeds, LogoutFails
<1>4. ASSUME NEW r \in Requests, Respond(r) \/ Cancel(r) PROVE accounts' = accounts
  BY <1>4 DEF Respond, Cancel, Release
<1>5. CASE PassTime
  BY <1>1, <1>5 DEF PassTime
<1>6. ASSUME NEW v \in UserIds, EditAccount(v)
      PROVE  accounts'[u].version \in {accounts[u].version, accounts[u].version + 1}
  BY <1>6 DEF EditAccount, TypeOK, Account
<1>7. CASE UNCHANGED vars
  BY <1>1, <1>7 DEF vars
<1> QED
  BY <1>1, <1>2, <1>3, <1>4, <1>5, <1>6, <1>7 DEF Next, Environment

\* A restoration starts when a request arrives, and nowhere else.
LEMMA RestorationStarts ==
    ASSUME TypeOK, [Next]_vars, NEW q \in Requests, pc'[q] \in Restoring
    PROVE  pc[q] = "idle" \/ pc[q] \in Restoring
<1>1. ASSUME NEW r \in Requests, Middleware(r) PROVE pc[q] = "idle" \/ pc[q] \in Restoring
  BY <1>1 DEF Middleware, Receive, StoreGet, CheckStored, BackendGet, GoTo, Restoring,
              TypeOK
<1>2. ASSUME NEW r \in Requests, Handler(r) PROVE pc[q] = "idle" \/ pc[q] \in Restoring
  BY <1>2 DEF Handler, Authenticate, BeginLogin, LoginSucceeds, LoginCollides,
              LoginFails, BeginLogout, LogoutSucceeds, LogoutFails, LeaveLogin,
              LeaveLogout, GoTo, Restoring, TypeOK, requestVars
<1>3. ASSUME NEW r \in Requests, Respond(r) \/ Cancel(r)
      PROVE  pc[q] = "idle" \/ pc[q] \in Restoring
  BY <1>3 DEF Respond, Cancel, Release, GoTo, Restoring, TypeOK
<1>4. CASE Environment \/ UNCHANGED vars
  BY <1>4 DEF Environment, PassTime, EditAccount, vars, requestVars
<1> QED
  BY <1>1, <1>2, <1>3, <1>4 DEF Next

LEMMA CreateKeeps ==
    ASSUME NEW s, Create(s)
    PROVE  store \subseteq store' /\ store' \subseteq store \cup {s}
BY DEF Create

LEMMA UnansweredKeeps ==
    ASSUME NEW r \in Requests, CreateUnanswered(r)
    PROVE  store \subseteq store'
BY CreateKeeps DEF CreateUnanswered

LEMMA RevokeLoses ==
    ASSUME NEW r \in Requests, RevokeLeaving(r)
    PROVE  \A s \in store \ store' : s.id \in Leaving
BY DEF RevokeLeaving, Revoke, Lookup, Leaving, IdsOf

\* The store loses a record only to a logout under way, or to the clock.
LEMMA StoreLoses ==
    ASSUME TypeOK, [Next]_vars
    PROVE  \A s \in store \ store' : s.id \in Leaving \/ s.expires <= now'
<1>1. ASSUME NEW r \in Requests, Middleware(r) PROVE store' = store
  BY <1>1 DEF Middleware, Receive, StoreGet, CheckStored, BackendGet
<1>2. ASSUME NEW r \in Requests, LoginSucceeds(r) PROVE store \subseteq store'
  BY <1>2, CreateKeeps DEF LoginSucceeds
<1>3. ASSUME NEW r \in Requests, LoginFails(r) PROVE store \subseteq store'
  BY <1>3, UnansweredKeeps DEF LoginFails
<1>4. ASSUME NEW r \in Requests,
             Authenticate(r) \/ BeginLogin(r) \/ LoginCollides(r) \/ BeginLogout(r)
               \/ Respond(r)
      PROVE  store' = store
  BY <1>4 DEF Authenticate, BeginLogin, LoginCollides, Collides, BeginLogout, Respond
<1>5. ASSUME NEW r \in Requests, LogoutSucceeds(r) \/ LogoutFails(r)
      PROVE  \A s \in store \ store' : s.id \in Leaving
  BY <1>5, RevokeLoses DEF LogoutSucceeds, LogoutFails
<1>6. ASSUME NEW r \in Requests, Cancel(r)
      PROVE  \A s \in store \ store' : s.id \in Leaving
  BY <1>6, RevokeLoses, UnansweredKeeps DEF Cancel
<1>7. CASE PassTime
  BY <1>7 DEF PassTime, ForgetExpired
<1>8. CASE (\E u \in UserIds : EditAccount(u)) \/ UNCHANGED vars
  BY <1>8 DEF EditAccount, vars
<1> QED
  BY <1>1, <1>2, <1>3, <1>4, <1>5, <1>6, <1>7, <1>8 DEF Next, Handler, Environment

\* Only the beginning of a logout puts a session among those being left.
LEMMA LeavingShrinks ==
    ASSUME TypeOK, [Next]_vars, NEW q \in Requests,
           ~ \E r \in Requests : BeginLogout(r)
    PROVE  leaving'[q] \subseteq leaving[q]
<1>1. ASSUME NEW r \in Requests, Middleware(r) PROVE leaving' = leaving
  BY <1>1 DEF Middleware, Receive, StoreGet, CheckStored, BackendGet
<1>2. ASSUME NEW r \in Requests,
             Authenticate(r) \/ BeginLogin(r) \/ LoginSucceeds(r) \/ LoginCollides(r)
               \/ LoginFails(r)
      PROVE  leaving' = leaving
  BY <1>2 DEF Authenticate, BeginLogin, LoginSucceeds, LoginCollides, LoginFails,
              requestVars
<1>3. ASSUME NEW r \in Requests,
             LogoutSucceeds(r) \/ LogoutFails(r) \/ Respond(r) \/ Cancel(r)
      PROVE  leaving' = [leaving EXCEPT ![r] = {}]
  BY <1>3 DEF LogoutSucceeds, LogoutFails, LeaveLogout, Respond, Cancel, Release
<1>4. CASE Environment \/ UNCHANGED vars
  BY <1>4 DEF Environment, PassTime, EditAccount, vars, requestVars
<1> QED
  BY <1>1, <1>2, <1>3, <1>4 DEF Next, Handler, TypeOK

\* What comes back from the store moves on with its request and nowhere else.
LEMMA StoredMoves ==
    ASSUME TypeOK, [Next]_vars, NEW q \in Requests, NEW s \in stored'[q],
           ~StoreGet(q), ~CheckStored(q)
    PROVE  s \in stored[q] /\ (pc[q] \in {"check", "load"} => pc'[q] = pc[q])
<1>1. ASSUME NEW r \in Requests, Middleware(r)
      PROVE  s \in stored[q] /\ (pc[q] \in {"check", "load"} => pc'[q] = pc[q])
  BY <1>1 DEF Middleware, Receive, StoreGet, CheckStored, BackendGet, GoTo, TypeOK
<1>2. ASSUME NEW r \in Requests, Handler(r)
      PROVE  s \in stored[q] /\ (pc[q] \in {"check", "load"} => pc'[q] = pc[q])
  BY <1>2 DEF Handler, Authenticate, BeginLogin, LoginSucceeds, LoginCollides,
              LoginFails, BeginLogout, LogoutSucceeds, LogoutFails, LeaveLogin,
              LeaveLogout, RevokeLeaving, GoTo, TypeOK, requestVars
<1>3. ASSUME NEW r \in Requests, Respond(r) \/ Cancel(r)
      PROVE  s \in stored[q] /\ (pc[q] \in {"check", "load"} => pc'[q] = pc[q])
  BY <1>3 DEF Respond, Cancel, Release, GoTo, TypeOK
<1>4. CASE Environment \/ UNCHANGED vars
  BY <1>4 DEF Environment, PassTime, EditAccount, vars, requestVars
<1> QED
  BY <1>1, <1>2, <1>3, <1>4 DEF Next

\* A session enters a request's extensions only when the backend has answered.
LEMMA ExtensionsGrow ==
    ASSUME TypeOK, [Next]_vars, NEW q \in Requests, extension'[q] \ extension[q] # {}
    PROVE  BackendGet(q)
<1>1. ASSUME NEW r \in Requests, Middleware(r) PROVE BackendGet(q)
  BY <1>1 DEF Middleware, Receive, StoreGet, CheckStored, BackendGet, TypeOK
<1>2. ASSUME NEW r \in Requests, Handler(r) PROVE FALSE
  BY <1>2 DEF Handler, Authenticate, BeginLogin, LoginSucceeds, LoginCollides,
              LoginFails, BeginLogout, LogoutSucceeds, LogoutFails, requestVars
<1>3. ASSUME NEW r \in Requests, Respond(r) \/ Cancel(r) PROVE FALSE
  BY <1>3 DEF Respond, Cancel, Release, TypeOK
<1>4. CASE Environment \/ UNCHANGED vars
  BY <1>4 DEF Environment, PassTime, EditAccount, vars, requestVars
<1> QED
  BY <1>1, <1>2, <1>3, <1>4 DEF Next

\* A request that is being received starts with the id of its cookie.
LEMMA Received ==
    ASSUME TypeOK, [Next]_vars, NEW q \in Requests,
           pc[q] = "idle", pc'[q] \in Restoring, NEW id \in cookie'[q]
    PROVE  pc'[q] = "get" /\ cookie'[q] = {id}
<1> DEFINE Starts == pc'[q] = "get" /\ cookie'[q] = {id}
<1>1. ASSUME NEW r \in Requests, Receive(r) PROVE Starts
  BY <1>1 DEF Receive, Options, GoTo, Restoring, TypeOK
<1>2. ASSUME NEW r \in Requests, StoreGet(r) \/ CheckStored(r) \/ BackendGet(r) PROVE Starts
  BY <1>2 DEF StoreGet, CheckStored, BackendGet, GoTo, Restoring, TypeOK
<1>3. ASSUME NEW r \in Requests, Handler(r) PROVE Starts
  BY <1>3 DEF Handler, Authenticate, BeginLogin, LoginSucceeds, LoginCollides,
              LoginFails, BeginLogout, LogoutSucceeds, LogoutFails, LeaveLogin,
              LeaveLogout, GoTo, Restoring, TypeOK, requestVars
<1>4. ASSUME NEW r \in Requests, Respond(r) \/ Cancel(r) PROVE Starts
  BY <1>4 DEF Respond, Cancel, Release, GoTo, Restoring, TypeOK
<1>5. CASE Environment \/ UNCHANGED vars
  BY <1>5 DEF Environment, PassTime, EditAccount, vars, requestVars, Restoring
<1> QED
  BY <1>1, <1>2, <1>3, <1>4, <1>5 DEF Next, Middleware

\* While a session is being restored, only the store's answer and the look at
\* the clock move its request on.
LEMMA RestorationWaits ==
    ASSUME TypeOK, [Next]_vars, NEW q \in Requests,
           pc[q] \in Restoring, pc'[q] \in Restoring, ~StoreGet(q), ~CheckStored(q)
    PROVE  pc'[q] = pc[q] /\ cookie'[q] = cookie[q] /\ stored'[q] = stored[q]
<1> DEFINE Waits == pc'[q] = pc[q] /\ cookie'[q] = cookie[q] /\ stored'[q] = stored[q]
<1>1. ASSUME NEW r \in Requests, Middleware(r) PROVE Waits
  BY <1>1 DEF Middleware, Receive, StoreGet, CheckStored, BackendGet, GoTo, Restoring,
              TypeOK
<1>2. ASSUME NEW r \in Requests, Handler(r) PROVE Waits
  BY <1>2 DEF Handler, Authenticate, BeginLogin, LoginSucceeds, LoginCollides,
              LoginFails, BeginLogout, LogoutSucceeds, LogoutFails, LeaveLogin,
              LeaveLogout, RevokeLeaving, GoTo, Restoring, TypeOK, requestVars
<1>3. ASSUME NEW r \in Requests, Respond(r) \/ Cancel(r) PROVE Waits
  BY <1>3 DEF Respond, Cancel, Release, GoTo, Restoring, TypeOK
<1>4. CASE Environment \/ UNCHANGED vars
  BY <1>4 DEF Environment, PassTime, EditAccount, vars, requestVars
<1> QED
  BY <1>1, <1>2, <1>3, <1>4 DEF Next

\* A restoration ends with the look at the clock or with the backend's answer.
LEMMA RestorationEnds ==
    ASSUME TypeOK, [Next]_vars, NEW q \in Requests,
           pc[q] \in Restoring, pc'[q] = "handler"
    PROVE  CheckStored(q) \/ BackendGet(q)
<1> DEFINE Ends == CheckStored(q) \/ BackendGet(q)
<1>1. ASSUME NEW r \in Requests, Middleware(r) PROVE Ends
  <2>1. r = q
    BY <1>1 DEF Middleware, Receive, StoreGet, CheckStored, BackendGet, GoTo, Restoring,
                TypeOK
  <2>2. ~Receive(q) /\ ~StoreGet(q)
    BY DEF Receive, StoreGet, GoTo, Restoring, TypeOK
  <2> QED
    BY <1>1, <2>1, <2>2 DEF Middleware
<1>2. ASSUME NEW r \in Requests, Handler(r) PROVE Ends
  BY <1>2 DEF Handler, Authenticate, BeginLogin, LoginSucceeds, LoginCollides,
              LoginFails, BeginLogout, LogoutSucceeds, LogoutFails, LeaveLogin,
              LeaveLogout, RevokeLeaving, GoTo, Restoring, TypeOK, requestVars
<1>3. ASSUME NEW r \in Requests, Respond(r) \/ Cancel(r) PROVE Ends
  BY <1>3 DEF Respond, Cancel, Release, GoTo, Restoring, TypeOK
<1>4. CASE Environment \/ UNCHANGED vars
  BY <1>4 DEF Environment, PassTime, EditAccount, vars, requestVars, Restoring
<1> QED
  BY <1>1, <1>2, <1>3, <1>4 DEF Next

\* What is in the store stays the only record of its id.
LEMMA DistinctStep ==
    ASSUME RecordsDistinct, [Next]_vars
    PROVE  RecordsDistinct'
<1>1. ASSUME NEW s, Create(s) PROVE RecordsDistinct'
  BY <1>1 DEF Create, Lookup, RecordsDistinct
<1>2. ASSUME store' \subseteq store PROVE RecordsDistinct'
  BY <1>2 DEF RecordsDistinct
<1>3. ASSUME NEW r \in Requests, Middleware(r) PROVE RecordsDistinct'
  BY <1>2, <1>3 DEF Middleware, Receive, StoreGet, CheckStored, BackendGet
<1>4. ASSUME NEW r \in Requests, CreateUnanswered(r) \/ LoginSucceeds(r)
      PROVE  RecordsDistinct'
  BY <1>1, <1>4 DEF CreateUnanswered, LoginSucceeds
<1>5. ASSUME NEW r \in Requests, RevokeLeaving(r) PROVE RecordsDistinct'
  BY <1>2, <1>5 DEF RevokeLeaving, Revoke
<1>6. ASSUME NEW r \in Requests, Handler(r) \/ Respond(r) \/ Cancel(r) PROVE RecordsDistinct'
  BY <1>2, <1>4, <1>5, <1>6
  DEF Handler, Authenticate, BeginLogin, LoginCollides, Collides, LoginFails,
      BeginLogout, LogoutSucceeds, LogoutFails, Respond, Cancel
<1>7. CASE Environment \/ UNCHANGED vars
  BY <1>2, <1>7 DEF Environment, PassTime, ForgetExpired, EditAccount, vars
<1> QED
  BY <1>3, <1>6, <1>7 DEF Next

-------------------------------------------------------------------------------
(* What one step does to the history variables.                              *)

\* Whatever the step, a window open after it has kept all it had and seen all
\* that is in force, and a baseline is fixed when its request arrives.
LEMMA WindowsGrow ==
    ASSUME HistoryNext, NEW q \in Requests, pc'[q] \in Restoring
    PROVE  /\ window'[q] = window[q] \cup issued'
           /\ baseline'[q] = IF pc[q] = "idle" THEN Versions ELSE baseline[q]
<1>1. ASSUME NEW upper, NEW lower, Bounds(upper, lower)
      PROVE  /\ window'[q] = window[q] \cup issued'
             /\ baseline'[q] = IF pc[q] = "idle" THEN Versions ELSE baseline[q]
  BY <1>1 DEF Bounds
<1> QED
  BY <1>1 DEF HistoryNext, Acknowledge, Forsake, Withdraw, Observe

\* A request is entitled to what was kept when it arrived, and still is.
LEMMA EntitledShrinks ==
    ASSUME HistoryNext, NEW q \in Requests, NEW s \in entitled'[q]
    PROVE  /\ pc'[q] \in Restoring /\ ~GetFails(q)
           /\ s \in kept' /\ s.expires > now'
           /\ IF pc[q] = "idle" THEN s.id \in cookie'[q] ELSE s \in entitled[q]
<1> DEFINE Still == /\ pc'[q] \in Restoring /\ ~GetFails(q)
                    /\ s \in kept' /\ s.expires > now'
                    /\ IF pc[q] = "idle" THEN s.id \in cookie'[q] ELSE s \in entitled[q]
<1>1. ASSUME NEW upper, NEW lower, Bounds(upper, lower) PROVE Still
  <2>1. s \in IF pc'[q] \notin Restoring \/ GetFails(q) THEN {}
              ELSE IF pc[q] = "idle" THEN {t \in kept' : t.id \in cookie'[q]}
              ELSE entitled[q] \cap kept'
    BY <1>1 DEF Bounds
  <2>2. kept' = {t \in lower : t.expires > now'}
    BY <1>1 DEF Bounds
  <2> QED
    BY <2>1, <2>2
<1> QED
  BY <1>1 DEF HistoryNext, Acknowledge, Forsake, Withdraw, Observe

LEMMA LoginIssues ==
    ASSUME TypeOK, NEW r \in Requests, LoginSucceeds(r)
    PROVE  \E s \in Session :
              /\ Create(RecordOf(s))
              /\ RecordsOf(fresh'[r]) = {RecordOf(s)}
<1>1. PICK u \in user[r], id \in Ids :
        LET s == Proposed(r, u, id)
        IN  /\ Create(RecordOf(s))
            /\ current' = [current EXCEPT ![r] = {s}]
            /\ fresh' = [fresh EXCEPT ![r] = {s}]
  BY DEF LoginSucceeds
<1>2. Proposed(r, u, id) \in Session
  BY ProposedTyped
<1>3. fresh'[r] = {Proposed(r, u, id)}
  BY <1>1 DEF TypeOK
<1> QED
  BY <1>1, <1>2, <1>3 DEF RecordsOf

LEMMA BoundsTyped ==
    ASSUME HistoryTypeOK, TypeOK', NEW upper, NEW lower, Bounds(upper, lower),
           upper \subseteq StoredSession, lower \subseteq StoredSession
    PROVE  HistoryTypeOK'
<1>1. issued' \subseteq StoredSession /\ kept' \subseteq StoredSession
  BY DEF Bounds
<1>2. window' \in [Requests -> SUBSET StoredSession]
  BY <1>1 DEF Bounds, HistoryTypeOK
<1>3. entitled' \in [Requests -> SUBSET StoredSession]
  BY <1>1 DEF Bounds, HistoryTypeOK
<1>4. Versions \in [UserIds -> Nat]
  BY DEF Versions, HistoryTypeOK, TypeOK, Account
<1>5. baseline' \in [Requests -> [UserIds -> Nat]]
  BY <1>4 DEF Bounds, HistoryTypeOK
<1> QED
  BY <1>1, <1>2, <1>3, <1>5 DEF HistoryTypeOK

LEMMA HistoryStepTyped == HistoryTypeOK /\ [HistoryNext]_allVars => HistoryTypeOK'
<1> SUFFICES ASSUME HistoryTypeOK, [HistoryNext]_allVars PROVE HistoryTypeOK'
  OBVIOUS
<1>1. TypeOK /\ TypeOK'
  BY HistoryStepIsStep, StepTyped DEF HistoryTypeOK
<1>2. store' \subseteq StoredSession
  BY <1>1 DEF TypeOK, StoreTypeOK
<1>3. ASSUME NEW r \in Requests, LoginSucceeds(r), Acknowledge(r) PROVE HistoryTypeOK'
  <2>1. RecordsOf(fresh'[r]) \subseteq StoredSession
    BY <1>1, <1>3, LoginIssues, RecordTyped
  <2> QED
    BY <1>1, <1>3, <2>1, BoundsTyped DEF Acknowledge, HistoryTypeOK
<1>4. ASSUME NEW r \in Requests, Forsake(r) \/ Withdraw(r) PROVE HistoryTypeOK'
  <2>1. issued \subseteq StoredSession /\ kept \subseteq StoredSession
    BY DEF HistoryTypeOK
  <2>2. CASE Forsake(r)
    BY <1>1, <2>1, <2>2, BoundsTyped DEF Forsake
  <2>3. CASE Withdraw(r)
    BY <1>1, <2>1, <2>3, BoundsTyped DEF Withdraw
  <2> QED
    BY <1>4, <2>2, <2>3
<1>5. CASE Observe
  BY <1>1, <1>2, <1>5, BoundsTyped DEF Observe, HistoryTypeOK
<1>6. CASE UNCHANGED allVars
  BY <1>1, <1>6 DEF allVars, historyVars, HistoryTypeOK
<1> QED
  BY <1>3, <1>4, <1>5, <1>6 DEF HistoryNext

\* The program's state and the record of what was promised stay well-typed.
THEOREM HistoryTypeCorrect == HistorySpec => []HistoryTypeOK
<1>1. HistoryInit => HistoryTypeOK
  BY InitTyped DEF HistoryInit, HistoryTypeOK
<1> QED
  BY <1>1, HistoryStepTyped, PTL DEF HistorySpec

-------------------------------------------------------------------------------
(* The invariant, one conjunct at a time.                                    *)

\* No record in force escapes `issued`: a create adds what it stored, and a
\* logout that returned Ok has removed what it withdraws.
LEMMA IssuedStep ==
    ASSUME HistoryTypeOK, BoundsEnclose, HistoryNext
    PROVE  IssuedCoversStore'
<1> USE DEF HistoryTypeOK
<1>1. now \in Nat /\ now' \in Nat /\ now <= now'
  BY HistoryStepIsStep, ClockMonotone
<1>2. \A s \in store : s.expires > now' => s \in issued
  BY <1>1 DEF BoundsEnclose, IssuedCoversStore, Unexpired, TypeOK, StoreTypeOK,
              StoredSession, Time
<1>3. ASSUME NEW upper, NEW lower, Bounds(upper, lower),
             \A s \in store' : s.expires > now' => s \in upper
      PROVE  IssuedCoversStore'
  BY <1>3 DEF Bounds, IssuedCoversStore, Unexpired
<1>4. ASSUME NEW r \in Requests, LoginSucceeds(r), Acknowledge(r)
      PROVE  IssuedCoversStore'
  <2>1. \A s \in store' : s.expires > now' => s \in issued \cup RecordsOf(fresh'[r])
    BY <1>2, <1>4, LoginIssues, CreateKeeps
  <2> QED
    BY <1>3, <1>4, <2>1 DEF Acknowledge
<1>5. ASSUME NEW r \in Requests, BeginLogout(r), Forsake(r)
      PROVE  IssuedCoversStore'
  <2>1. store' = store
    BY <1>5 DEF BeginLogout
  <2> QED
    BY <1>2, <1>3, <1>5, <2>1 DEF Forsake
<1>6. ASSUME NEW r \in Requests, LogoutSucceeds(r), Withdraw(r)
      PROVE  IssuedCoversStore'
  <2>1. PICK l \in leaving[r] : store' = store \ Lookup(l.id)
    BY <1>6 DEF LogoutSucceeds, RevokeLeaving, Revoke
  <2>2. IdsOf(leaving[r]) = {l.id}
    BY DEF BoundsEnclose, LogoutsForsaken, IdsOf
  <2>3. \A s \in store' : s.expires > now' =>
            s \in {t \in issued : t.id \notin IdsOf(leaving[r])}
    BY <1>2, <2>1, <2>2 DEF Lookup
  <2> QED
    BY <1>3, <1>6, <2>3 DEF Withdraw
<1>7. CASE Observe
  BY <1>2, <1>3, <1>7 DEF Observe
<1> QED
  BY <1>4, <1>5, <1>6, <1>7 DEF HistoryNext

LEMMA WindowsStep ==
    ASSUME HistoryNext
    PROVE  WindowsOpen'
BY WindowsGrow DEF WindowsOpen

\* A record taken from the store while it was in force is in the window.
LEMMA StoredStep ==
    ASSUME HistoryTypeOK, BoundsEnclose, HistoryNext
    PROVE  StoredExplained'
<1> USE DEF HistoryTypeOK
<1> SUFFICES ASSUME NEW q \in Requests, NEW s \in stored'[q]
             PROVE  \/ pc'[q] = "check" /\ (s.expires > now' => s \in window'[q])
                    \/ pc'[q] = "load" /\ s \in window'[q]
  BY DEF StoredExplained
<1>1. now \in Nat /\ now' \in Nat /\ now <= now'
  BY HistoryStepIsStep, ClockMonotone
<1>2. TypeOK'
  BY HistoryStepIsStep, StepTyped
<1>3. s.expires \in Nat
  BY <1>2 DEF TypeOK, StoredSession, Time
<1>4. CASE StoreGet(q)
  <2>1. pc'[q] = "check" /\ pc[q] = "get" /\ s \in store /\ now' = now
    BY <1>4 DEF StoreGet, Lookup, GoTo, TypeOK
  <2>2. s.expires > now' => s \in issued
    BY <2>1 DEF BoundsEnclose, IssuedCoversStore, Unexpired
  <2>3. issued \subseteq window[q]
    BY <2>1 DEF BoundsEnclose, WindowsOpen, Restoring
  <2> QED
    BY <2>1, <2>2, <2>3, WindowsGrow DEF Restoring
<1>5. CASE CheckStored(q)
  <2>1. s \in stored[q] /\ s.expires > now /\ pc[q] = "check" /\ pc'[q] = "load"
    BY <1>5 DEF CheckStored, Unexpired, GoTo, TypeOK
  <2>2. s \in window[q]
    BY <2>1 DEF BoundsEnclose, StoredExplained
  <2> QED
    BY <2>1, <2>2, WindowsGrow DEF Restoring
<1>6. CASE ~StoreGet(q) /\ ~CheckStored(q)
  <2>1. s \in stored[q] /\ (pc[q] \in {"check", "load"} => pc'[q] = pc[q])
    BY <1>6, HistoryStepIsStep, StoredMoves
  <2>2. \/ pc[q] = "check" /\ (s.expires > now => s \in window[q])
        \/ pc[q] = "load" /\ s \in window[q]
    BY <2>1 DEF BoundsEnclose, StoredExplained
  <2>3. window[q] \subseteq window'[q]
    BY <2>1, <2>2, WindowsGrow DEF Restoring
  <2> QED
    BY <1>1, <1>3, <2>1, <2>2, <2>3
<1> QED
  BY <1>4, <1>5, <1>6

\* Whoever begins a logout gives up the claim to the session, and login makes
\* no promise about an id whose revocation is on its way.
LEMMA LogoutsStep ==
    ASSUME HistoryTypeOK, BoundsEnclose, HistoryNext
    PROVE  LogoutsForsaken'
<1> USE DEF HistoryTypeOK
<1>1. ASSUME ~ \E r \in Requests : BeginLogout(r)
      PROVE  \A q \in Requests : leaving'[q] \subseteq leaving[q]
  BY <1>1, HistoryStepIsStep, LeavingShrinks
<1>2. ASSUME NEW upper, NEW lower, Bounds(upper, lower),
             \A q \in Requests : leaving'[q] \subseteq leaving[q],
             \A s \in lower : s.id \notin Leaving
      PROVE  LogoutsForsaken'
  <2>1. Leaving' \subseteq Leaving
    BY <1>2 DEF Leaving, IdsOf
  <2>2. \A s \in kept' : s.id \notin Leaving'
    BY <1>2, <2>1 DEF Bounds
  <2>3. \A q \in Requests : \A s, t \in leaving'[q] : s = t
    BY <1>2 DEF BoundsEnclose, LogoutsForsaken
  <2> QED
    BY <2>2, <2>3 DEF LogoutsForsaken
<1>3. \A s \in kept : s.id \notin Leaving
  BY DEF BoundsEnclose, LogoutsForsaken
<1>4. ASSUME NEW r \in Requests, LoginSucceeds(r), Acknowledge(r)
      PROVE  LogoutsForsaken'
  <2>1. leaving' = leaving
    BY <1>4 DEF LoginSucceeds
  <2> QED
    BY <1>2, <1>3, <1>4, <2>1 DEF Acknowledge
<1>5. ASSUME NEW r \in Requests, BeginLogout(r), Forsake(r)
      PROVE  LogoutsForsaken'
  <2>1. PICK l : leaving' = [leaving EXCEPT ![r] = {l}]
    BY <1>5 DEF BeginLogout
  <2>2. \A q \in Requests : leaving'[q] = IF q = r THEN {l} ELSE leaving[q]
    BY <2>1 DEF TypeOK
  <2>3. \A q \in Requests : \A s, t \in leaving'[q] : s = t
    BY <2>2 DEF BoundsEnclose, LogoutsForsaken
  <2>4. Leaving' \subseteq Leaving \cup IdsOf(leaving'[r])
    BY <2>2 DEF Leaving, IdsOf
  <2>5. kept' \subseteq {s \in kept : s.id \notin IdsOf(leaving'[r])}
    BY <1>5 DEF Forsake, Bounds
  <2>6. \A s \in kept' : s.id \notin Leaving'
    BY <1>3, <2>4, <2>5
  <2> QED
    BY <2>3, <2>6 DEF LogoutsForsaken
<1>6. ASSUME NEW r \in Requests, LogoutSucceeds(r), Withdraw(r)
      PROVE  LogoutsForsaken'
  <2>1. leaving' = [leaving EXCEPT ![r] = {}]
    BY <1>6 DEF LogoutSucceeds, LeaveLogout
  <2>2. \A q \in Requests : leaving'[q] \subseteq leaving[q]
    BY <2>1 DEF TypeOK
  <2> QED
    BY <1>2, <1>3, <1>6, <2>2 DEF Withdraw
<1>7. ASSUME Observe, ~ \E r \in Requests : BeginLogout(r)
      PROVE  LogoutsForsaken'
  BY <1>1, <1>2, <1>3, <1>7 DEF Observe
<1>8. ASSUME NEW r \in Requests, Unacknowledged(r) \/ Environment
      PROVE  ~ \E q \in Requests : BeginLogout(q)
  <2>1. SUFFICES ASSUME NEW q \in Requests, BeginLogout(q) PROVE FALSE
    OBVIOUS
  <2>2. /\ pc' = [pc EXCEPT ![q] = "revoke"] /\ pc[q] = "handler"
        /\ leaving[q] = {} => leaving' # leaving
    BY <2>1 DEF BeginLogout, GoTo, TypeOK
  <2>3. pc'[q] = "revoke" /\ pc[q] = "handler"
    BY <2>2 DEF TypeOK
  <2>4. CASE Environment
    BY <2>3, <2>4 DEF Environment, PassTime, EditAccount, requestVars
  <2>5. CASE Unacknowledged(r)
    BY <2>3, <2>5
    DEF Unacknowledged, Middleware, Receive, StoreGet, CheckStored, BackendGet,
        Authenticate, BeginLogin, LoginCollides, LoginFails, LogoutFails, Respond,
        Cancel, Release, LeaveLogin, LeaveLogout, GoTo, TypeOK, requestVars
  <2> QED
    BY <1>8, <2>4, <2>5
<1>9. CASE Environment /\ Observe
  <2>1. ~ \E q \in Requests : BeginLogout(q)
    BY <1>8, <1>9
  <2> QED
    BY <1>7, <1>9, <2>1
<1> QED
  BY <1>4, <1>5, <1>6, <1>7, <1>8, <1>9 DEF HistoryNext

\* Nothing that a caller is entitled to leaves the store.
LEMMA DurableStep ==
    ASSUME HistoryTypeOK, BoundsEnclose, HistoryNext
    PROVE  SessionsDurable'
<1> USE DEF HistoryTypeOK
<1>1. \A s \in store \ store' : s.id \in Leaving \/ s.expires <= now'
  BY HistoryStepIsStep, StoreLoses
<1>2. now \in Nat /\ now' \in Nat
  BY HistoryStepIsStep, ClockMonotone
<1>3. \A s \in kept : s.expires \in Nat /\ s.expires > now' => s \in store'
  BY <1>1, <1>2 DEF BoundsEnclose, SessionsDurable, LogoutsForsaken
<1>4. \A s \in kept : s.expires \in Nat
  BY DEF StoredSession, Time
<1>5. ASSUME NEW upper, NEW lower, Bounds(upper, lower),
             \A s \in lower : s.expires > now' => s \in store'
      PROVE  SessionsDurable'
  BY <1>5 DEF Bounds, SessionsDurable
<1>6. ASSUME NEW r \in Requests, LoginSucceeds(r), Acknowledge(r)
      PROVE  SessionsDurable'
  <2>1. PICK s \in Session :
          Create(RecordOf(s)) /\ RecordsOf(fresh'[r]) = {RecordOf(s)}
    BY <1>6, LoginIssues
  <2>2. now' = now
    BY <1>6 DEF LoginSucceeds
  <2>3. RecordOf(s).expires \in Nat
    BY RecordTyped DEF StoredSession, Time
  <2>4. RecordOf(s).expires > now' => RecordOf(s) \in store'
    BY <1>2, <2>1, <2>2, <2>3 DEF Create
  <2> QED
    BY <1>3, <1>4, <1>5, <1>6, <2>1, <2>4 DEF Acknowledge
<1>7. ASSUME NEW r \in Requests, Forsake(r) \/ Withdraw(r)
      PROVE  SessionsDurable'
  BY <1>3, <1>4, <1>5, <1>7 DEF Forsake, Withdraw
<1>8. CASE Observe
  BY <1>3, <1>4, <1>5, <1>8 DEF Observe
<1> QED
  BY <1>6, <1>7, <1>8 DEF HistoryNext

\* No account's version is ever behind one that an open request started from.
LEMMA BaselinesStep ==
    ASSUME HistoryTypeOK, BoundsEnclose, HistoryNext
    PROVE  BaselinesPast'
<1> USE DEF HistoryTypeOK
<1> SUFFICES ASSUME NEW q \in Requests, pc'[q] \in Restoring, NEW u \in UserIds
             PROVE  baseline'[q][u] <= accounts'[u].version
  BY DEF BaselinesPast
<1>1. /\ accounts[u].version \in Nat /\ accounts'[u].version \in Nat
      /\ accounts[u].version <= accounts'[u].version
  BY HistoryStepIsStep, VersionsMonotone
<1>2. pc[q] = "idle" \/ pc[q] \in Restoring
  BY HistoryStepIsStep, RestorationStarts
<1>3. CASE pc[q] = "idle"
  BY <1>1, <1>3, WindowsGrow DEF Versions
<1>4. CASE pc[q] \in Restoring
  <2>1. baseline'[q] = baseline[q]
    BY <1>4, WindowsGrow DEF Restoring
  <2>2. baseline[q][u] \in Nat /\ baseline[q][u] <= accounts[u].version
    BY <1>4 DEF BoundsEnclose, BaselinesPast
  <2> QED
    BY <1>1, <2>1, <2>2
<1> QED
  BY <1>2, <1>3, <1>4

\* The store has the record that the request is entitled to and no other of
\* its id, and the clock does not reject it.
LEMMA EntitledStep ==
    ASSUME HistoryTypeOK, BoundsEnclose, HistoryNext
    PROVE  EntitledCarried'
<1> USE DEF HistoryTypeOK
<1> SUFFICES ASSUME NEW q \in Requests, NEW s \in entitled'[q]
             PROVE  /\ s \in kept' /\ s.expires > now'
                    /\ \/ pc'[q] = "get" /\ cookie'[q] = {s.id}
                       \/ pc'[q] \in {"check", "load"} /\ stored'[q] = {s}
  BY DEF EntitledCarried
<1>1. /\ pc'[q] \in Restoring /\ ~GetFails(q)
      /\ s \in kept' /\ s.expires > now'
      /\ IF pc[q] = "idle" THEN s.id \in cookie'[q] ELSE s \in entitled[q]
  BY EntitledShrinks
<1>2. CASE pc[q] = "idle"
  BY <1>1, <1>2, HistoryStepIsStep, Received
<1>3. CASE pc[q] # "idle"
  <2>1. /\ s \in kept
        /\ \/ pc[q] = "get" /\ cookie[q] = {s.id}
           \/ pc[q] \in {"check", "load"} /\ stored[q] = {s}
    BY <1>1, <1>3 DEF BoundsEnclose, EntitledCarried
  <2>2. CASE StoreGet(q)
    <3>1. pc[q] = "get" /\ pc'[q] = "check" /\ cookie[q] = {s.id}
      BY <2>1, <2>2 DEF StoreGet, GoTo, TypeOK
    <3>2. stored'[q] = Lookup(s.id)
      BY <1>1, <3>1 DEF GetFails
    <3>3. Lookup(s.id) = {s}
      BY <2>1 DEF Lookup, BoundsEnclose, SessionsDurable, RecordsDistinct
    <3> QED
      BY <1>1, <3>1, <3>2, <3>3
  <2>3. CASE CheckStored(q)
    <3>1. pc[q] = "check" /\ now' = now /\ stored'[q] = Unexpired(stored[q])
      BY <2>3 DEF CheckStored, TypeOK
    <3>2. Unexpired(stored[q]) = {s}
      BY <1>1, <2>1, <3>1 DEF Unexpired
    <3>3. pc'[q] = "load"
      BY <2>3, <3>2 DEF CheckStored, GoTo, TypeOK
    <3> QED
      BY <1>1, <3>1, <3>2, <3>3
  <2>4. CASE ~StoreGet(q) /\ ~CheckStored(q)
    <3>1. pc[q] \in Restoring
      BY <2>1 DEF Restoring
    <3>2. pc'[q] = pc[q] /\ cookie'[q] = cookie[q] /\ stored'[q] = stored[q]
      BY <1>1, <2>4, <3>1, HistoryStepIsStep, RestorationWaits
    <3> QED
      BY <1>1, <2>1, <3>2
  <2> QED
    BY <2>2, <2>3, <2>4
<1> QED
  BY <1>2, <1>3

LEMMA Inductive ==
    HistoryTypeOK /\ BoundsEnclose /\ [HistoryNext]_allVars => BoundsEnclose'
<1> SUFFICES ASSUME HistoryTypeOK, BoundsEnclose, [HistoryNext]_allVars
             PROVE  BoundsEnclose'
  OBVIOUS
<1>1. CASE HistoryNext
  <2>1. RecordsDistinct'
    BY HistoryStepIsStep, DistinctStep DEF BoundsEnclose
  <2> QED
    BY <1>1, <2>1, IssuedStep, WindowsStep, StoredStep, LogoutsStep, DurableStep,
       BaselinesStep, EntitledStep
    DEF BoundsEnclose
<1>2. CASE UNCHANGED allVars
  BY <1>2
  DEF allVars, vars, requestVars, historyVars, BoundsEnclose, IssuedCoversStore,
      Unexpired, WindowsOpen, StoredExplained, LogoutsForsaken, Leaving,
      SessionsDurable, BaselinesPast, RecordsDistinct, EntitledCarried
<1> QED
  BY <1>1, <1>2

LEMMA InitEnclosed == HistoryInit => BoundsEnclose
BY DEF HistoryInit, Init, StoreInit, BoundsEnclose, IssuedCoversStore, Unexpired,
       WindowsOpen, StoredExplained, LogoutsForsaken, Leaving, IdsOf, SessionsDurable,
       BaselinesPast, Restoring, RecordsDistinct, EntitledCarried

-------------------------------------------------------------------------------

\* What a restore may find and what it must find enclose the store throughout.
THEOREM Enclosed == HistorySpec => []BoundsEnclose
BY InitEnclosed, Inductive, HistoryTypeCorrect, PTL DEF HistorySpec

\* No session that login returned is lost before it expires or is logged out.
THEOREM Durable == HistorySpec => []SessionsDurable
<1>1. BoundsEnclose => SessionsDurable
  BY DEF BoundsEnclose
<1> QED
  BY <1>1, Enclosed, PTL

\* No request is given a session that was not in force at some moment between
\* its arrival and the call of its handler.
THEOREM RestoredValid == HistorySpec => RestoredSessionValid
<1>1. HistoryTypeOK /\ BoundsEnclose /\ [HistoryNext]_allVars
        => [\A r \in Requests :
              RecordsOf(extension'[r] \ extension[r]) \subseteq window[r]]_allVars
  <2> SUFFICES ASSUME HistoryTypeOK, BoundsEnclose, [HistoryNext]_allVars,
                      NEW r \in Requests, NEW x \in extension'[r] \ extension[r]
               PROVE  RecordOf(x) \in window[r]
    BY DEF RecordsOf
  <2>1. BackendGet(r)
    BY HistoryStepIsStep, ExtensionsGrow DEF HistoryTypeOK
  <2>2. PICK s \in stored[r] : \E answer \in {CurrentUser(s.user_id), {}} :
          extension' = [extension EXCEPT ![r] = Restored(s, answer)]
    BY <2>1 DEF BackendGet
  <2>3. s \in window[r] /\ s \in StoredSession
    BY <2>1 DEF BackendGet, BoundsEnclose, StoredExplained, HistoryTypeOK, TypeOK
  <2>4. x \in Restored(s, CurrentUser(s.user_id))
    BY <2>2 DEF HistoryTypeOK, TypeOK, Restored
  <2>5. RecordOf(x) = s
    BY <2>3, <2>4 DEF Restored, CurrentUser, RecordOf, StoredSession
  <2> QED
    BY <2>3, <2>5
<1> QED
  BY <1>1, HistoryTypeCorrect, Enclosed, PTL DEF HistorySpec, RestoredSessionValid

\* Whoever is entitled to a session is given it, unless the store or the
\* backend fails or the account is gone.
THEOREM EntitledGiven == HistorySpec => EntitledRestored
<1>1. HistoryTypeOK /\ BoundsEnclose /\ [HistoryNext]_allVars
        => [\A r \in Requests : pc'[r] = "handler" =>
              \A s \in entitled[r] :
                  /\ pc[r] = "load" /\ stored[r] = {s}
                  /\ extension'[r] \in {Restored(s, CurrentUser(s.user_id)), {}}]_allVars
  <2> SUFFICES ASSUME HistoryTypeOK, BoundsEnclose, [HistoryNext]_allVars,
                      NEW r \in Requests, pc'[r] = "handler", NEW s \in entitled[r]
               PROVE  /\ pc[r] = "load" /\ stored[r] = {s}
                      /\ extension'[r] \in {Restored(s, CurrentUser(s.user_id)), {}}
    OBVIOUS
  <2>1. /\ s.expires > now
        /\ \/ pc[r] = "get"
           \/ pc[r] \in {"check", "load"} /\ stored[r] = {s}
    BY DEF BoundsEnclose, EntitledCarried
  <2>2. CheckStored(r) \/ BackendGet(r)
    BY <2>1, HistoryStepIsStep, RestorationEnds DEF HistoryTypeOK, Restoring
  <2>3. ~CheckStored(r)
    <3> SUFFICES ASSUME CheckStored(r) PROVE FALSE
      OBVIOUS
    <3>1. Unexpired(stored[r]) = {s}
      BY <2>1 DEF CheckStored, Unexpired
    <3> QED
      BY <3>1 DEF CheckStored, GoTo, HistoryTypeOK, TypeOK
  <2>4. BackendGet(r) /\ pc[r] = "load" /\ stored[r] = {s}
    BY <2>1, <2>2, <2>3 DEF BackendGet
  <2>5. \E answer \in {CurrentUser(s.user_id), {}} :
          extension' = [extension EXCEPT ![r] = Restored(s, answer)]
    BY <2>4 DEF BackendGet
  <2>6. Restored(s, {}) = {}
    BY DEF Restored
  <2> QED
    BY <2>4, <2>5, <2>6 DEF HistoryTypeOK, TypeOK
<1> QED
  BY <1>1, HistoryTypeCorrect, Enclosed, PTL DEF HistorySpec, EntitledRestored

\* No request is given a user older than the request.
THEOREM RestoredFresh == HistorySpec => RestoredUserFresh
<1>1. HistoryTypeOK /\ BoundsEnclose /\ [HistoryNext]_allVars
        => [\A r \in Requests : \A s \in extension'[r] \ extension[r] :
              s.user.version >= baseline[r][s.user.id]]_allVars
  <2> SUFFICES ASSUME HistoryTypeOK, BoundsEnclose, [HistoryNext]_allVars,
                      NEW r \in Requests, NEW x \in extension'[r] \ extension[r]
               PROVE  x.user.version >= baseline[r][x.user.id]
    OBVIOUS
  <2>1. BackendGet(r)
    BY HistoryStepIsStep, ExtensionsGrow DEF HistoryTypeOK
  <2>2. PICK s \in stored[r] : \E answer \in {CurrentUser(s.user_id), {}} :
          extension' = [extension EXCEPT ![r] = Restored(s, answer)]
    BY <2>1 DEF BackendGet
  <2>3. s.user_id \in UserIds /\ pc[r] \in Restoring
    BY <2>1 DEF BackendGet, Restoring, HistoryTypeOK, TypeOK, StoredSession
  <2>4. x \in Restored(s, CurrentUser(s.user_id))
    BY <2>2 DEF HistoryTypeOK, TypeOK, Restored
  <2>5. x.user.id = s.user_id /\ x.user.version = accounts[s.user_id].version
    BY <2>4 DEF Restored, CurrentUser
  <2>6. baseline[r][s.user_id] <= accounts[s.user_id].version
    BY <2>3 DEF BoundsEnclose, BaselinesPast
  <2>7. baseline[r][s.user_id] \in Nat /\ accounts[s.user_id].version \in Nat
    BY <2>3 DEF HistoryTypeOK, TypeOK, Account
  <2> QED
    BY <2>5, <2>6, <2>7
<1> QED
  BY <1>1, HistoryTypeCorrect, Enclosed, PTL DEF HistorySpec, RestoredUserFresh

-------------------------------------------------------------------------------
(* AuthorizedRequests: what is let through.                                  *)

LEMMA AuthorizationStepIsStep ==
    [AuthorizationNext]_authorizationVars => [HistoryNext]_allVars
BY DEF AuthorizationNext, Decide, Proceed, authorizationVars

LEMMA AuthorizationIsHistory == AuthorizationSpec => HistorySpec
<1>1. AuthorizationInit => HistoryInit
  BY DEF AuthorizationInit
<1> QED
  BY <1>1, AuthorizationStepIsStep, PTL DEF AuthorizationSpec, HistorySpec

-------------------------------------------------------------------------------
(* What a step of the program does to a request that has been restored.      *)

Served == {"handler", "create", "revoke"}

\* The extensions of a request stay as they are until the request is over.
LEMMA ServedStays ==
    ASSUME TypeOK, [Next]_vars, NEW q \in Requests, pc[q] \in Served
    PROVE  \/ pc'[q] = "idle"
           \/ pc'[q] \in Served /\ extension'[q] = extension[q]
<1> DEFINE Stays == \/ pc'[q] = "idle"
                    \/ pc'[q] \in Served /\ extension'[q] = extension[q]
<1>1. ASSUME NEW r \in Requests, Middleware(r) PROVE Stays
  BY <1>1 DEF Middleware, Receive, StoreGet, CheckStored, BackendGet, GoTo, TypeOK, Served
<1>2. ASSUME NEW r \in Requests, Handler(r) PROVE Stays
  BY <1>2 DEF Handler, Authenticate, BeginLogin, LoginSucceeds, LoginCollides,
              LoginFails, BeginLogout, LogoutSucceeds, LogoutFails, LeaveLogin,
              LeaveLogout, GoTo, TypeOK, Served, requestVars
<1>3. ASSUME NEW r \in Requests, Respond(r) \/ Cancel(r) PROVE Stays
  BY <1>3 DEF Respond, Cancel, Release, GoTo, TypeOK, Served
<1>4. CASE Environment \/ UNCHANGED vars
  BY <1>4 DEF Environment, PassTime, EditAccount, vars, requestVars, Served
<1> QED
  BY <1>1, <1>2, <1>3, <1>4 DEF Next

\* A request that is over, or was not under way, has no extensions.
LEMMA IdleHasNone ==
    ASSUME TypeOK, [Next]_vars, NEW q \in Requests, pc'[q] = "idle"
    PROVE  extension'[q] = {} \/ (pc[q] = "idle" /\ extension'[q] = extension[q])
<1> DEFINE None == extension'[q] = {} \/ (pc[q] = "idle" /\ extension'[q] = extension[q])
<1>1. ASSUME NEW r \in Requests, Middleware(r) PROVE None
  BY <1>1 DEF Middleware, Receive, StoreGet, CheckStored, BackendGet, GoTo, TypeOK
<1>2. ASSUME NEW r \in Requests, Handler(r) PROVE None
  BY <1>2 DEF Handler, Authenticate, BeginLogin, LoginSucceeds, LoginCollides,
              LoginFails, BeginLogout, LogoutSucceeds, LogoutFails, LeaveLogin,
              LeaveLogout, GoTo, TypeOK, requestVars
<1>3. ASSUME NEW r \in Requests, Respond(r) \/ Cancel(r) PROVE None
  BY <1>3 DEF Respond, Cancel, Release, GoTo, TypeOK
<1>4. CASE Environment \/ UNCHANGED vars
  BY <1>4 DEF Environment, PassTime, EditAccount, vars, requestVars
<1> QED
  BY <1>1, <1>2, <1>3, <1>4 DEF Next

\* A session new in the extensions joins a record from the request's window
\* with the account that its user has at that moment.
LEMMA RestoredExplained ==
    ASSUME HistoryTypeOK, BoundsEnclose, [HistoryNext]_allVars,
           NEW r \in Requests, NEW x \in extension'[r] \ extension[r]
    PROVE  /\ pc'[r] = "handler"
           /\ RecordOf(x) \in window[r]
           /\ x.user \in Users'
<1>1. BackendGet(r)
  BY HistoryStepIsStep, ExtensionsGrow DEF HistoryTypeOK
<1>2. PICK s \in stored[r] : \E answer \in {CurrentUser(s.user_id), {}} :
        extension' = [extension EXCEPT ![r] = Restored(s, answer)]
  BY <1>1 DEF BackendGet
<1>3. s \in window[r] /\ s \in StoredSession
  BY <1>1 DEF BackendGet, BoundsEnclose, StoredExplained, HistoryTypeOK, TypeOK
<1>4. x \in Restored(s, CurrentUser(s.user_id))
  BY <1>2 DEF HistoryTypeOK, TypeOK, Restored
<1>5. RecordOf(x) = s
  BY <1>3, <1>4 DEF Restored, CurrentUser, RecordOf, StoredSession
<1>6. /\ accounts[s.user_id].present
      /\ x.user = [id |-> s.user_id, version |-> accounts[s.user_id].version]
  BY <1>4 DEF Restored, CurrentUser
<1>7. x.user \in Users
  BY <1>3, <1>6 DEF Users, StoredSession
<1>8. accounts' = accounts
  BY <1>1 DEF BackendGet
<1>9. pc'[r] = "handler"
  BY <1>1 DEF BackendGet, GoTo, HistoryTypeOK, TypeOK
<1> QED
  BY <1>3, <1>5, <1>7, <1>8, <1>9 DEF Users

-------------------------------------------------------------------------------
(* Types.                                                                    *)

\* The decisions and the histories they are judged by stay well-typed.
THEOREM AuthorizationTypeCorrect == AuthorizationSpec => []AuthorizationTypeOK
<1>1. AuthorizationInit => AuthorizationTypeOK
  BY InitTyped
  DEF AuthorizationInit, HistoryInit, AuthorizationTypeOK, HistoryTypeOK, Verdicts
<1>2. AuthorizationTypeOK /\ [AuthorizationNext]_authorizationVars => AuthorizationTypeOK'
  <2> SUFFICES ASSUME AuthorizationTypeOK, [AuthorizationNext]_authorizationVars
               PROVE  AuthorizationTypeOK'
    OBVIOUS
  <2>1. HistoryTypeOK'
    BY AuthorizationStepIsStep, HistoryStepTyped DEF AuthorizationTypeOK
  <2>2. issued' \subseteq StoredSession /\ Users' \subseteq User
    BY <2>1 DEF HistoryTypeOK, TypeOK, Users, User, Account
  <2>3. CASE Proceed
    BY <2>1, <2>2, <2>3 DEF Proceed, Track, AuthorizationTypeOK, Verdicts
  <2>4. ASSUME NEW r \in Requests, Decide(r) PROVE AuthorizationTypeOK'
    BY <2>1, <2>4 DEF Decide, AuthorizationTypeOK, Verdicts
  <2>5. CASE UNCHANGED authorizationVars
    BY <2>1, <2>5 DEF authorizationVars, AuthorizationTypeOK
  <2> QED
    BY <2>3, <2>4, <2>5 DEF AuthorizationNext
<1> QED
  BY <1>1, <1>2, PTL DEF AuthorizationSpec

-------------------------------------------------------------------------------
(* The invariant, one conjunct at a time.                                    *)

LEMMA InForceStep ==
    ASSUME WindowsInForce, Proceed
    PROVE  WindowsInForce'
<1> SUFFICES ASSUME NEW r \in Requests PROVE window'[r] \subseteq inForce'[r]
  BY DEF WindowsInForce
<1>1. CASE pc'[r] \in Restoring
  BY <1>1, WindowsGrow DEF Proceed, Track, Restoring, WindowsInForce
<1>2. CASE pc'[r] \notin Restoring
  <2>1. ASSUME NEW upper, NEW lower, Bounds(upper, lower) PROVE window'[r] = {}
    BY <1>2, <2>1 DEF Bounds
  <2> QED
    BY <2>1 DEF Proceed, HistoryNext, Acknowledge, Forsake, Withdraw, Observe
<1> QED
  BY <1>1, <1>2

LEMMA ExtensionsStep ==
    ASSUME HistoryTypeOK, BoundsEnclose, WindowsInForce, ExtensionsExplained, Proceed
    PROVE  ExtensionsExplained'
<1> SUFFICES ASSUME NEW r \in Requests, NEW s \in extension'[r]
             PROVE  /\ pc'[r] # "idle"
                    /\ RecordOf(s) \in inForce'[r]
                    /\ s.user \in seen'[r]
  BY DEF ExtensionsExplained, RecordOf
<1>1. HistoryNext
  BY DEF Proceed
<1>2. CASE s \in extension[r]
  <2>1. pc'[r] # "idle"
    BY <1>1, <1>2, HistoryStepIsStep, IdleHasNone DEF ExtensionsExplained, HistoryTypeOK
  <2> QED
    BY <1>2, <2>1 DEF ExtensionsExplained, Proceed, Track
<1>3. CASE s \notin extension[r]
  <2>1. pc'[r] = "handler" /\ RecordOf(s) \in window[r] /\ s.user \in Users'
    BY <1>1, <1>3, RestoredExplained
  <2> QED
    BY <2>1 DEF WindowsInForce, Proceed, Track
<1> QED
  BY <1>2, <1>3

LEMMA VerdictsStep ==
    ASSUME TypeOK, VerdictsCurrent, Proceed
    PROVE  VerdictsCurrent'
<1> SUFFICES ASSUME NEW r \in Requests, verdict'[r] # "none"
             PROVE  /\ verdict'[r] = "authorized" =>
                           \E s \in extension'[r] : s.user.version \in Granted
                    /\ verdict'[r] = "rejected" =>
                           \A s \in extension'[r] : s.user.version \notin Granted
                    /\ pc'[r] \in Served
  BY DEF VerdictsCurrent, Served
<1>1. verdict'[r] = verdict[r] /\ pc'[r] # "idle"
  BY DEF Proceed
<1>2. pc[r] \in Served
  BY <1>1 DEF VerdictsCurrent, Served
<1>3. pc'[r] \in Served /\ extension'[r] = extension[r]
  BY <1>1, <1>2, HistoryStepIsStep, ServedStays DEF Proceed
<1> QED
  BY <1>1, <1>3 DEF VerdictsCurrent

\* A decision rests on what the extensions say when it is taken.
LEMMA DecisionStep ==
    ASSUME AuthorizationTypeOK, VerdictsCurrent, NEW q \in Requests, Decide(q)
    PROVE  VerdictsCurrent'
<1> SUFFICES ASSUME NEW r \in Requests
             PROVE  /\ verdict'[r] = "authorized" =>
                           \E s \in extension[r] : s.user.version \in Granted
                    /\ verdict'[r] = "rejected" =>
                           \A s \in extension[r] : s.user.version \notin Granted
                    /\ verdict'[r] # "none" => pc[r] \in {"handler", "create", "revoke"}
  BY DEF VerdictsCurrent, Decide, allVars, vars, requestVars
<1>1. CASE r = q
  BY <1>1 DEF Decide, SessionSeen, AuthorizationTypeOK
<1>2. CASE r # q
  BY <1>2 DEF Decide, VerdictsCurrent, AuthorizationTypeOK
<1> QED
  BY <1>1, <1>2

LEMMA ExplainedInductive ==
    ASSUME AuthorizationTypeOK, BoundsEnclose, DecisionsExplained,
           [AuthorizationNext]_authorizationVars
    PROVE  DecisionsExplained'
<1>1. HistoryTypeOK /\ TypeOK
  BY DEF AuthorizationTypeOK, HistoryTypeOK
<1>2. CASE Proceed
  BY <1>1, <1>2, InForceStep, ExtensionsStep, VerdictsStep DEF DecisionsExplained
<1>3. ASSUME NEW r \in Requests, Decide(r) PROVE DecisionsExplained'
  <2>1. VerdictsCurrent'
    BY <1>3, DecisionStep DEF DecisionsExplained
  <2>2. WindowsInForce' /\ ExtensionsExplained'
    BY <1>3 DEF DecisionsExplained, WindowsInForce, ExtensionsExplained, RecordOf, Decide,
                allVars, vars, requestVars, historyVars
  <2> QED
    BY <2>1, <2>2 DEF DecisionsExplained
<1>4. CASE UNCHANGED authorizationVars
  BY <1>4 DEF DecisionsExplained, WindowsInForce, ExtensionsExplained, VerdictsCurrent,
              RecordOf, authorizationVars, allVars, vars, requestVars, historyVars
<1> QED
  BY <1>2, <1>3, <1>4 DEF AuthorizationNext

-------------------------------------------------------------------------------

LEMMA HistoryHolds == AuthorizationSpec => [](AuthorizationTypeOK /\ BoundsEnclose)
BY AuthorizationTypeCorrect, AuthorizationIsHistory, Enclosed, PTL

\* Windows, extensions and decisions are explained by the request's history.
THEOREM Explained == AuthorizationSpec => []DecisionsExplained
<1>1. AuthorizationInit => DecisionsExplained
  BY DEF AuthorizationInit, HistoryInit, Init, DecisionsExplained, WindowsInForce,
         ExtensionsExplained, VerdictsCurrent
<1> QED
  BY <1>1, ExplainedInductive, HistoryHolds, PTL DEF AuthorizationSpec

\* Whoever is let through was entitled to it while the request was under way.
THEOREM Justified == AuthorizationSpec => []AuthorizationJustified
<1>1. DecisionsExplained => AuthorizationJustified
  <2> SUFFICES ASSUME DecisionsExplained, NEW r \in Requests, verdict[r] = "authorized"
               PROVE  \E s \in inForce[r], u \in seen[r] :
                          s.user_id = u.id /\ u.version \in Granted
    BY DEF AuthorizationJustified
  <2>1. PICK x \in extension[r] : x.user.version \in Granted
    BY DEF DecisionsExplained, VerdictsCurrent
  <2>2. RecordOf(x) \in inForce[r] /\ x.user \in seen[r]
    BY DEF DecisionsExplained, ExtensionsExplained
  <2>3. RecordOf(x).user_id = x.user.id
    BY DEF RecordOf
  <2> QED
    BY <2>1, <2>2, <2>3
<1> QED
  BY <1>1, Explained, PTL

\* All layers with the same authorizer decide alike about a request.
THEOREM Agreed == AuthorizationSpec => DecisionsAgree
<1>1. AuthorizationTypeOK /\ DecisionsExplained /\ [AuthorizationNext]_authorizationVars
        => [\A r \in Requests : verdict[r] # "none" /\ verdict'[r] # "none"
                => verdict'[r] = verdict[r]]_authorizationVars
  <2> SUFFICES ASSUME AuthorizationTypeOK, DecisionsExplained,
                      [AuthorizationNext]_authorizationVars,
                      NEW r \in Requests, verdict[r] # "none", verdict'[r] # "none"
               PROVE  verdict'[r] = verdict[r]
    OBVIOUS
  <2>1. CASE Proceed
    BY <2>1 DEF Proceed
  <2>2. ASSUME NEW q \in Requests, Decide(q) PROVE verdict'[r] = verdict[r]
    <3>1. CASE r # q
      BY <2>2, <3>1 DEF Decide, AuthorizationTypeOK
    <3>2. CASE r = q
      <4>1. verdict[r] \in {"authorized", "rejected"}
        BY DEF AuthorizationTypeOK, Verdicts
      <4>2. verdict'[r] = IF \E s \in extension[r] : s.user.version \in Granted
                          THEN "authorized" ELSE "rejected"
        BY <2>2, <3>2 DEF Decide, SessionSeen, AuthorizationTypeOK
      <4> QED
        BY <4>1, <4>2 DEF DecisionsExplained, VerdictsCurrent
    <3> QED
      BY <3>1, <3>2
  <2>3. CASE UNCHANGED authorizationVars
    BY <2>3 DEF authorizationVars
  <2> QED
    BY <2>1, <2>2, <2>3 DEF AuthorizationNext
<1> QED
  BY <1>1, AuthorizationTypeCorrect, Explained, PTL DEF AuthorizationSpec, DecisionsAgree

===============================================================================
