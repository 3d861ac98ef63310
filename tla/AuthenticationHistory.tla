------------------------ MODULE AuthenticationHistory ------------------------
(*****************************************************************************)
(* Authentication with history variables: what the callers of login and      *)
(* logout have been told, against which the sessions that later requests are *)
(* given can be judged.  They observe and never constrain.                   *)
(*                                                                           *)
(* An id is drawn at random and may come back; a record is told from an      *)
(* earlier one of the same id by its owner and its expiry.                   *)
(*****************************************************************************)
EXTENDS Authentication

VARIABLES
    issued,     \* upper bound: unexpired records that a restore may still find
    kept,       \* lower bound: unexpired records that a restore must find
    window,     \* what was issued at some moment of a request's restoration
    entitled,   \* the records that a request must be given, by its id
    baseline    \* the accounts' versions when a request arrived

historyVars == <<issued, kept, window, entitled, baseline>>

allVars == <<vars, historyVars>>

Versions == [u \in UserIds |-> accounts[u].version]

HistoryTypeOK ==
    /\ TypeOK
    /\ issued \subseteq StoredSession
    /\ kept \subseteq StoredSession
    /\ window \in [Requests -> SUBSET StoredSession]
    /\ entitled \in [Requests -> SUBSET StoredSession]
    /\ baseline \in [Requests -> [UserIds -> Nat]]

HistoryInit ==
    /\ Init
    /\ issued = {}
    /\ kept = {}
    /\ window = [r \in Requests |-> {}]
    /\ entitled = [r \in Requests |-> {}]
    /\ baseline = [r \in Requests |-> [u \in UserIds |-> 0]]

-------------------------------------------------------------------------------

Restoring == {"get", "check", "load"}

RecordsOf(S) == {RecordOf(s) : s \in S}

IdsOf(S) == {s.id : s \in S}

\* The store answers a request's get with an error, which becomes None.
GetFails(r) ==
    /\ pc[r] = "get"
    /\ pc'[r] = "check"
    /\ \E id \in cookie[r] : stored'[r] # Lookup(id)

\* Each step leaves these bounds on what may and what must be restored; what
\* the step lets expire leaves both.  A request's window collects what was
\* issued while its session was being restored, and it is entitled to what was
\* kept all the while.
Bounds(upper, lower) ==
    /\ issued' = {s \in upper : s.expires > now'}
    /\ kept' = {s \in lower : s.expires > now'}
    /\ window' = [r \in Requests |->
            IF pc'[r] \in Restoring THEN window[r] \cup issued' ELSE {}]
    /\ entitled' = [r \in Requests |->
            IF pc'[r] \notin Restoring \/ GetFails(r) THEN {}
            ELSE IF pc[r] = "idle" THEN {s \in kept' : s.id \in cookie'[r]}
            ELSE entitled[r] \cap kept']
    /\ baseline' = [r \in Requests |->
            IF pc'[r] \notin Restoring THEN [u \in UserIds |-> 0]
            ELSE IF pc[r] = "idle" THEN Versions
            ELSE baseline[r]]

\* The ids whose revocation is on its way to the store.
Leaving == UNION {IdsOf(leaving[r]) : r \in Requests}

\* login has returned a session: later requests are entitled to it, unless a
\* logout of that id is still under way.
Acknowledge(r) ==
    LET new == RecordsOf(fresh'[r])
    IN  Bounds(issued \cup new, kept \cup {s \in new : s.id \notin Leaving})

\* A logout has been asked for: nobody is entitled to the session any more.
Forsake(r) == Bounds(issued, {s \in kept : s.id \notin IdsOf(leaving'[r])})

\* logout has returned Ok: no later request may be given the session.
Withdraw(r) == Bounds({s \in issued : s.id \notin IdsOf(leaving[r])}, kept)

\* Every other step: a create nobody acknowledged may have stored its record.
Observe == Bounds(issued \cup (store' \ store), kept)

Unacknowledged(r) ==
    \/ Middleware(r)
    \/ Authenticate(r) \/ BeginLogin(r) \/ LoginCollides(r) \/ LoginFails(r)
    \/ LogoutFails(r) \/ Respond(r) \/ Cancel(r)

HistoryNext ==
    \/ \E r \in Requests :
         \/ LoginSucceeds(r) /\ Acknowledge(r)
         \/ BeginLogout(r) /\ Forsake(r)
         \/ LogoutSucceeds(r) /\ Withdraw(r)
         \/ Unacknowledged(r) /\ Observe
    \/ Environment /\ Observe

HistorySpec == HistoryInit /\ [][HistoryNext]_allVars

-------------------------------------------------------------------------------

\* A request is only ever given a session that was in force at some moment
\* between its arrival and the call of its inner service: issued to that user,
\* not yet expired, and not yet withdrawn by a logout that had returned.
RestoredSessionValid ==
    [][\A r \in Requests :
         RecordsOf(extension'[r] \ extension[r]) \subseteq window[r]]_allVars

\* A request whose cookie names a session that login has returned, that has not
\* expired, and that nobody has asked to log out while it is being restored, is
\* given that session with its user as the backend then knows it.  It goes
\* without only if the store fails, or the backend has no such user or fails;
\* it is never turned away because of what others do.
EntitledRestored ==
    [][\A r \in Requests : pc'[r] = "handler" =>
         \A s \in entitled[r] :
             /\ pc[r] = "load" /\ stored[r] = {s}
             /\ extension'[r] \in {Restored(s, CurrentUser(s.user_id)), {}}]_allVars

\* The user a request is given is no older than the request: whatever was
\* changed before it arrived is seen by its handler.
RestoredUserFresh ==
    [][\A r \in Requests : \A s \in extension'[r] \ extension[r] :
         s.user.version >= baseline[r][s.user.id]]_allVars

\* A session that login returned stays in the store until it expires or
\* somebody asks for its logout, whatever other requests log in, fail or are
\* cancelled meanwhile.
SessionsDurable == kept \subseteq store

-------------------------------------------------------------------------------
(* Why these hold: the bounds enclose the store, and a restoration in        *)
(* progress carries nothing that its window does not explain.                *)

\* What a restore may find in the store has been issued.
IssuedCoversStore == Unexpired(store) \subseteq issued

\* A window has seen everything that is in force.
WindowsOpen ==
    \A r \in Requests : pc[r] \in Restoring => issued \subseteq window[r]

\* An unexpired record on its way from the store was in force when the store
\* gave it up; past the check of its expiry it counts whatever the time.
StoredExplained ==
    \A r \in Requests : \A s \in stored[r] :
        \/ pc[r] = "check" /\ (s.expires > now => s \in window[r])
        \/ pc[r] = "load" /\ s \in window[r]

\* A logout concerns one session, to which nobody is entitled any more.
LogoutsForsaken ==
    /\ \A r \in Requests : \A s, t \in leaving[r] : s = t
    /\ \A s \in kept : s.id \notin Leaving

BaselinesPast ==
    \A r \in Requests : pc[r] \in Restoring =>
        \A u \in UserIds : baseline[r][u] <= accounts[u].version

\* A store has one record of an id, so that no other answers in its place.
RecordsDistinct == \A s, t \in store : s.id = t.id => s = t

\* The record that a request is entitled to is still in the store when it is
\* looked up, and carried from there to the backend.
EntitledCarried ==
    \A r \in Requests : \A s \in entitled[r] :
        /\ s \in kept /\ s.expires > now
        /\ \/ pc[r] = "get" /\ cookie[r] = {s.id}
           \/ pc[r] \in {"check", "load"} /\ stored[r] = {s}

\* The bounds enclose the store at every moment: nothing a restore could find
\* lies outside what login, logout and the clock have left in force, and
\* nothing a caller is entitled to is missing.  Inductive.
BoundsEnclose ==
    /\ IssuedCoversStore
    /\ WindowsOpen
    /\ StoredExplained
    /\ LogoutsForsaken
    /\ SessionsDurable
    /\ BaselinesPast
    /\ RecordsDistinct
    /\ EntitledCarried

=============================================================================
