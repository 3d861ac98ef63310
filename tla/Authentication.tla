---------------------------- MODULE Authentication ----------------------------
(*****************************************************************************)
(* The authentication middleware and the operations of an Authentication     *)
(* handle (authentication.rs), serving several requests at once over one     *)
(* store and one backend.                                                    *)
(*                                                                           *)
(* A request is an asynchronous task: other tasks run, the clock advances,   *)
(* records are revoked and accounts are edited between any two of its        *)
(* actions.  An action is what a task does from one await to the next.  The  *)
(* answer of an awaited call is taken in the same action as the code that    *)
(* consumes it, except in StoreGet and CheckStored: there the code consults  *)
(* the clock when it resumes, which may be later than the answer.            *)
(*                                                                           *)
(* Requests are slots: a finished request leaves its slot to a later one.    *)
(*****************************************************************************)
EXTENDS SessionStore

CONSTANTS
    Requests,       \* request slots
    Lifetime,       \* how long a new session lasts (Days::new(30) in the code)
    MaxVersion      \* bound on the edits of an account

ASSUME LifetimeIsTime == Lifetime \in Time
ASSUME VersionBound == MaxVersion \in Nat

VARIABLES
    accounts,       \* the backend's current user data
    pc,             \* where each request's task is suspended
    cookie,         \* session id sent by the client, until it is looked up
    stored,         \* record that came back from the store
    extension,      \* Session in the request's extensions
    current,        \* Session in the request's session-local context
    user,           \* User the handler got from Backend::authenticate
    expires,        \* expiry that login computed before its loop
    fresh,          \* Session returned by the handler's last login
    leaving         \* Session the handler has passed to logout

requestVars == <<pc, cookie, stored, extension, current, user, expires, fresh, leaving>>

vars == <<now, store, accounts, requestVars>>

\* A user value is a copy of the account as it was at some version.
User == [id: UserIds, version: Nat]

Account == [present: BOOLEAN, version: Nat]

Session == [id: Ids, expires: Time, user: User]

\* The record a store keeps of a session.
RecordOf(s) == [id |-> s.id, expires |-> s.expires, user_id |-> s.user.id]

\* A request is being received, or is suspended in: Store::get, the resumption
\* after it, Backend::get, its handler, Store::create, Store::revoke.
Places == {"idle", "get", "check", "load", "handler", "create", "revoke"}

TypeOK ==
    /\ StoreTypeOK
    /\ accounts \in [UserIds -> Account]
    /\ pc \in [Requests -> Places]
    /\ cookie \in [Requests -> SUBSET Ids]
    /\ stored \in [Requests -> SUBSET StoredSession]
    /\ extension \in [Requests -> SUBSET Session]
    /\ current \in [Requests -> SUBSET Session]
    /\ user \in [Requests -> SUBSET User]
    /\ expires \in [Requests -> Time]
    /\ fresh \in [Requests -> SUBSET Session]
    /\ leaving \in [Requests -> SUBSET Session]

Init ==
    /\ StoreInit
    /\ accounts = [u \in UserIds |-> [present |-> TRUE, version |-> 0]]
    /\ pc = [r \in Requests |-> "idle"]
    /\ cookie = [r \in Requests |-> {}]
    /\ stored = [r \in Requests |-> {}]
    /\ extension = [r \in Requests |-> {}]
    /\ current = [r \in Requests |-> {}]
    /\ user = [r \in Requests |-> {}]
    /\ expires = [r \in Requests |-> 0]
    /\ fresh = [r \in Requests |-> {}]
    /\ leaving = [r \in Requests |-> {}]

GoTo(r, place) == pc' = [pc EXCEPT ![r] = place]

-------------------------------------------------------------------------------
(* The backend (external: supplied by the application).                      *)

\* Mutant of CurrentUser: the backend's answer is a copy cached long ago.
CachedUser(u) == IF accounts[u].present THEN {[id |-> u, version |-> 0]} ELSE {}

\* The user as the backend knows it: None once the account is gone.
CurrentUser(u) ==
    IF accounts[u].present THEN {[id |-> u, version |-> accounts[u].version]} ELSE {}

\* The application edits an account, removes it, or brings it back.
EditAccount(u) ==
    /\ accounts[u].version < MaxVersion
    /\ \E p \in BOOLEAN :
         accounts' = [accounts EXCEPT ![u] = [present |-> p, version |-> @.version + 1]]
    /\ UNCHANGED <<now, store, requestVars>>

-------------------------------------------------------------------------------
(* ProvideAuthentication: what happens before the inner service is called.   *)

\* A request arrives; its session-local context and extensions start empty.
\* Without a well-formed session cookie the inner service is called at once.
Receive(r) ==
    /\ pc[r] = "idle"
    /\ \E id \in Options(Ids) :
         /\ cookie' = [cookie EXCEPT ![r] = id]
         /\ GoTo(r, IF id = {} THEN "handler" ELSE "get")
    /\ UNCHANGED <<now, store, accounts, stored, extension, current, user, expires,
                   fresh, leaving>>

\* The store answers get; `.ok().flatten()` turns a failure into None.
StoreGet(r) ==
    /\ pc[r] = "get"
    /\ \E id \in cookie[r] : \E answer \in {Lookup(id), {}} :
         stored' = [stored EXCEPT ![r] = answer]
    /\ cookie' = [cookie EXCEPT ![r] = {}]
    /\ GoTo(r, "check")
    /\ UNCHANGED <<now, store, accounts, extension, current, user, expires, fresh,
                   leaving>>

\* Mutant of Unexpired: the comparison admits the instant of expiry.
UnexpiredOrExpiring(S) == {s \in S : s.expires >= now}

\* Mutant of Unexpired: the last instant of a session is lost.
UnexpiredLonger(S) == {s \in S : s.expires > now + 1}

Unexpired(S) == {s \in S : s.expires > now}

\* The task resumes and consults the clock: an expired record is no record,
\* and without one the inner service is called without a session.
CheckStored(r) ==
    /\ pc[r] = "check"
    /\ stored' = [stored EXCEPT ![r] = Unexpired(@)]
    /\ GoTo(r, IF Unexpired(stored[r]) = {} THEN "handler" ELSE "load")
    /\ UNCHANGED <<now, store, accounts, cookie, extension, current, user, expires,
                   fresh, leaving>>

\* The session made of a stored record and the user that came with it, if any.
Restored(s, users) == {[id |-> s.id, expires |-> s.expires, user |-> u] : u \in users}

\* The backend answers get.  With a user, the session enters the session-local
\* context and the extensions; without one, or when the backend fails, the
\* request is anonymous.  Either way the inner service is called.
BackendGet(r) ==
    /\ pc[r] = "load"
    /\ \E s \in stored[r] : \E answer \in {CurrentUser(s.user_id), {}} :
         /\ extension' = [extension EXCEPT ![r] = Restored(s, answer)]
         /\ current' = [current EXCEPT ![r] = Restored(s, answer)]
    /\ stored' = [stored EXCEPT ![r] = {}]
    /\ GoTo(r, "handler")
    /\ UNCHANGED <<now, store, accounts, cookie, user, expires, fresh, leaving>>

-------------------------------------------------------------------------------
(* What a handler does with its Authentication handle.                       *)

\* authenticate: the backend accepts the credentials of some user, rejects
\* them, or fails.
Authenticate(r) ==
    /\ pc[r] = "handler"
    /\ \E u \in UserIds : \E answer \in {CurrentUser(u), {}} :
         user' = [user EXCEPT ![r] = answer]
    /\ UNCHANGED <<now, store, accounts, pc, cookie, stored, extension, current,
                   expires, fresh, leaving>>

\* Mutant of Expiry: the lifetime is subtracted.
ExpiryInPast == now - Lifetime

Expiry == now + Lifetime

\* login, up to its first await: the expiry is computed once, before the loop.
BeginLogin(r) ==
    /\ pc[r] = "handler"
    /\ user[r] # {}
    /\ expires' = [expires EXCEPT ![r] = Expiry]
    /\ GoTo(r, "create")
    /\ UNCHANGED <<now, store, accounts, cookie, stored, extension, current, user,
                   fresh, leaving>>

\* Mutant of Proposed: the id is drawn once, before the loop.
ProposedOnce(r, u, id) ==
    [id |-> CHOOSE i \in Ids : TRUE, expires |-> expires[r], user |-> u]

\* The session that a round of login's loop proposes under a random id.
Proposed(r, u, id) == [id |-> id, expires |-> expires[r], user |-> u]

\* login returns: its user value is used up and its expiry is out of scope.
LeaveLogin(r) ==
    /\ user' = [user EXCEPT ![r] = {}]
    /\ expires' = [expires EXCEPT ![r] = 0]
    /\ GoTo(r, "handler")

\* create returned Ok: login records the session in the session-local context
\* and returns it.
LoginSucceeds(r) ==
    /\ pc[r] = "create"
    /\ \E u \in user[r], id \in Ids :
         LET s == Proposed(r, u, id)
         IN  /\ Create(RecordOf(s))
             /\ current' = [current EXCEPT ![r] = {s}]
             /\ fresh' = [fresh EXCEPT ![r] = {s}]
    /\ LeaveLogin(r)
    /\ UNCHANGED <<now, accounts, cookie, stored, extension, leaving>>

\* create returned AlreadyExists: the loop draws another id.
LoginCollides(r) ==
    /\ pc[r] = "create"
    /\ \E u \in user[r], id \in Ids : Collides(RecordOf(Proposed(r, u, id)))
    /\ UNCHANGED <<now, accounts, requestVars>>

\* The record of a create whose Ok never reached its caller.
CreateUnanswered(r) ==
    /\ pc[r] = "create"
    /\ \E u \in user[r], id \in Ids : Create(RecordOf(Proposed(r, u, id)))

\* create returned another error: login fails.  The store may have kept the
\* record all the same.
LoginFails(r) ==
    /\ pc[r] = "create"
    /\ UNCHANGED store \/ CreateUnanswered(r)
    /\ LeaveLogin(r)
    /\ UNCHANGED <<now, accounts, cookie, stored, extension, current, fresh, leaving>>

\* logout, up to its await, of any session the handler holds.
BeginLogout(r) ==
    /\ pc[r] = "handler"
    /\ \E s \in extension[r] \cup fresh[r] : leaving' = [leaving EXCEPT ![r] = {s}]
    /\ GoTo(r, "revoke")
    /\ UNCHANGED <<now, store, accounts, cookie, stored, extension, current, user,
                   expires, fresh>>

RevokeLeaving(r) ==
    /\ pc[r] = "revoke"
    /\ \E s \in leaving[r] : Revoke(s.id)

LeaveLogout(r) ==
    /\ leaving' = [leaving EXCEPT ![r] = {}]
    /\ GoTo(r, "handler")

\* revoke returned Ok: whatever session is current leaves the session-local
\* context.  The extensions are not touched.
LogoutSucceeds(r) ==
    /\ RevokeLeaving(r)
    /\ current' = [current EXCEPT ![r] = {}]
    /\ LeaveLogout(r)
    /\ UNCHANGED <<now, accounts, cookie, stored, extension, user, expires, fresh>>

\* revoke failed, with or without effect in the store; `?` returns early.
LogoutFails(r) ==
    /\ pc[r] = "revoke"
    /\ UNCHANGED store \/ RevokeLeaving(r)
    /\ LeaveLogout(r)
    /\ UNCHANGED <<now, accounts, cookie, stored, extension, current, user, expires,
                   fresh>>

-------------------------------------------------------------------------------
(* The end of a request, and the environment.                                *)

\* The request's future is dropped, with its context, extensions and locals.
Release(r) ==
    /\ GoTo(r, "idle")
    /\ cookie' = [cookie EXCEPT ![r] = {}]
    /\ stored' = [stored EXCEPT ![r] = {}]
    /\ extension' = [extension EXCEPT ![r] = {}]
    /\ current' = [current EXCEPT ![r] = {}]
    /\ user' = [user EXCEPT ![r] = {}]
    /\ expires' = [expires EXCEPT ![r] = 0]
    /\ fresh' = [fresh EXCEPT ![r] = {}]
    /\ leaving' = [leaving EXCEPT ![r] = {}]
    /\ UNCHANGED <<now, accounts>>

\* The handler has returned its response.
Respond(r) ==
    /\ pc[r] = "handler"
    /\ Release(r)
    /\ UNCHANGED store

\* The client went away while the task was suspended: the call it was waiting
\* for may have taken effect all the same.
Cancel(r) ==
    /\ pc[r] \notin {"idle", "handler"}
    /\ UNCHANGED store \/ CreateUnanswered(r) \/ RevokeLeaving(r)
    /\ Release(r)

\* The clock advances, or stands still while the store drops expired records.
PassTime ==
    /\ Tick \/ UNCHANGED now
    /\ ForgetExpired
    /\ UNCHANGED <<accounts, requestVars>>

Middleware(r) == Receive(r) \/ StoreGet(r) \/ CheckStored(r) \/ BackendGet(r)

Handler(r) ==
    \/ Authenticate(r)
    \/ BeginLogin(r) \/ LoginSucceeds(r) \/ LoginCollides(r) \/ LoginFails(r)
    \/ BeginLogout(r) \/ LogoutSucceeds(r) \/ LogoutFails(r)

Environment == PassTime \/ \E u \in UserIds : EditAccount(u)

Next ==
    \/ \E r \in Requests : Middleware(r) \/ Handler(r) \/ Respond(r) \/ Cancel(r)
    \/ Environment

Spec == Init /\ [][Next]_vars

\* The store and the backend answer the calls made to them, a task whose call
\* was answered is polled again, and while some id stays free, login
\* eventually draws a free one.
Fairness ==
    \A r \in Requests :
        /\ WF_vars(StoreGet(r))
        /\ WF_vars(CheckStored(r))
        /\ WF_vars(BackendGet(r))
        /\ WF_vars(LoginSucceeds(r))
        /\ WF_vars(LogoutSucceeds(r))

FairSpec == Spec /\ Fairness

-------------------------------------------------------------------------------

\* The doc comment of logout (authentication.rs:112): "Revokes `session` and
\* clears it from the session-local context."  Logging out one session leaves
\* another that is current in place.
LogoutClearsOnlyItsSession ==
    [][\A r \in Requests :
         LogoutSucceeds(r) /\ current[r] \cap leaving[r] = {} => current'[r] = current[r]]_vars

\* No request hangs in the middleware, in login or in logout, whatever the
\* others do.  Only a login may: while it draws, all ids may be taken.
CallsReturn ==
    \A r \in Requests :
        pc[r] \notin {"idle", "handler"} ~>
            \/ pc[r] \in {"idle", "handler"}
            \/ pc[r] = "create" /\ \A id \in Ids : Lookup(id) # {}

=============================================================================
