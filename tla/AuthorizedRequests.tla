-------------------------- MODULE AuthorizedRequests --------------------------
(*****************************************************************************)
(* RequireAuthorization (authorization.rs) inside ProvideAuthentication:     *)
(* authorizers decide over the session in a request's extensions, at any     *)
(* moment between the restoration and the response, while the request itself *)
(* logs in and out, sessions expire and accounts are edited.                 *)
(*                                                                           *)
(* Several layers with the same authorizer may lie on a request's way, with  *)
(* other middleware between them: each takes its decision when it is called. *)
(* What an authorizer makes of a user depends on the version of the account  *)
(* that the user value is a copy of.                                         *)
(*****************************************************************************)
EXTENDS AuthenticationHistory

CONSTANT Granted        \* the account versions that the authorizer accepts

ASSUME GrantedVersions == Granted \subseteq Nat

VARIABLES
    verdict,    \* the last decision about a request
    inForce,    \* history: what was issued at some moment since it arrived
    seen        \* history: the users there were at some moment since

authorizationVars == <<allVars, verdict, inForce, seen>>

Verdicts == {"none", "authorized", "rejected"}

AuthorizationTypeOK ==
    /\ HistoryTypeOK
    /\ verdict \in [Requests -> Verdicts]
    /\ inForce \in [Requests -> SUBSET StoredSession]
    /\ seen \in [Requests -> SUBSET User]

AuthorizationInit ==
    /\ HistoryInit
    /\ verdict = [r \in Requests |-> "none"]
    /\ inForce = [r \in Requests |-> {}]
    /\ seen = [r \in Requests |-> {}]

\* The users that have an account now.
Users == {[id |-> u, version |-> accounts[u].version] : u \in {v \in UserIds : accounts[v].present}}

\* Every step extends the histories of the requests under way.
Track ==
    /\ inForce' = [r \in Requests |->
            IF pc'[r] = "idle" THEN {} ELSE inForce[r] \cup issued']
    /\ seen' = [r \in Requests |-> IF pc'[r] = "idle" THEN {} ELSE seen[r] \cup Users']

-------------------------------------------------------------------------------

\* Mutant of SessionSeen: the session-local context is consulted.
SessionCurrent(r) == current[r]

\* req.extensions().get::<Session<A::User>>()
SessionSeen(r) == extension[r]

\* RequireAuthorization::call
Decide(r) ==
    /\ pc[r] = "handler"
    /\ verdict' = [verdict EXCEPT ![r] =
            IF \E s \in SessionSeen(r) : s.user.version \in Granted
            THEN "authorized" ELSE "rejected"]
    /\ UNCHANGED <<allVars, inForce, seen>>

Proceed ==
    /\ HistoryNext
    /\ Track
    /\ verdict' = [r \in Requests |-> IF pc'[r] = "idle" THEN "none" ELSE verdict[r]]

AuthorizationNext == Proceed \/ \E r \in Requests : Decide(r)

AuthorizationSpec == AuthorizationInit /\ [][AuthorizationNext]_authorizationVars

-------------------------------------------------------------------------------

\* Whoever is let through had, at some moment since the request arrived, a
\* session in force, and an account, at some moment since then, that the
\* authorizer accepts.
AuthorizationJustified ==
    \A r \in Requests : verdict[r] = "authorized" =>
        \E s \in inForce[r], u \in seen[r] : s.user_id = u.id /\ u.version \in Granted

\* All layers with the same authorizer decide alike about a request: neither
\* its own logins and logouts nor expiries and edits come between them.
DecisionsAgree ==
    [][\A r \in Requests :
         verdict[r] # "none" /\ verdict'[r] # "none" => verdict'[r] = verdict[r]]_authorizationVars

-------------------------------------------------------------------------------
(* Why these hold: a restored session and its user are in the histories, and *)
(* stay there for as long as the request.                                    *)

WindowsInForce == \A r \in Requests : window[r] \subseteq inForce[r]

ExtensionsExplained ==
    \A r \in Requests : \A s \in extension[r] :
        /\ pc[r] # "idle"
        /\ RecordOf(s) \in inForce[r]
        /\ s.user \in seen[r]

\* A decision is what the extensions, which no handler changes, still say.
VerdictsCurrent ==
    \A r \in Requests :
        /\ verdict[r] = "authorized" => \E s \in extension[r] : s.user.version \in Granted
        /\ verdict[r] = "rejected" => \A s \in extension[r] : s.user.version \notin Granted
        /\ verdict[r] # "none" => pc[r] \in {"handler", "create", "revoke"}

\* Inductive, together with BoundsEnclose.
DecisionsExplained == WindowsInForce /\ ExtensionsExplained /\ VerdictsCurrent

=============================================================================
