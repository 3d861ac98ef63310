---------------------------- MODULE ServiceReadiness ----------------------------
(*****************************************************************************)
(* The readiness protocol of the two Tower services: ProvideAuthentication   *)
(* (authentication.rs) around RequireAuthorization (authorization.rs) around *)
(* an inner service whose poll_ready reserves one of a few permits, as a     *)
(* concurrency limit or a connection pool does.                              *)
(*                                                                           *)
(* A permit belongs to the instance that was polled; a clone has none, and   *)
(* an instance that is called without one panics.  Each connection owns an   *)
(* instance of the stack and calls it for one request after another, several *)
(* of which may be in flight.                                                *)
(*****************************************************************************)
EXTENDS Naturals, FiniteSets

CONSTANTS
    Connections,
    Requests,       \* slots for the futures returned by call
    Permits         \* how many permits the inner service has

ASSUME PermitsExist == Permits \in Nat \ {0}

VARIABLES
    wants,          \* does the connection have a request to serve?
    ready,          \* does the connection's instance hold a permit?
    future,         \* stage of each request's future
    moved,          \* does the instance that a future owns hold a permit?
    panicked        \* was the inner service called without a permit?

readinessVars == <<wants, ready, future, moved, panicked>>

\* No future; restoring the session; rejected; running the inner service.
Stages == {"none", "restoring", "rejected", "inner"}

ReadinessTypeOK ==
    /\ wants \in [Connections -> BOOLEAN]
    /\ ready \in [Connections -> BOOLEAN]
    /\ future \in [Requests -> Stages]
    /\ moved \in [Requests -> BOOLEAN]
    /\ panicked \in BOOLEAN

ReadinessInit ==
    /\ wants = [c \in Connections |-> FALSE]
    /\ ready = [c \in Connections |-> FALSE]
    /\ future = [r \in Requests |-> "none"]
    /\ moved = [r \in Requests |-> FALSE]
    /\ panicked = FALSE

\* Permits are held by instances polled ready, by the instances that futures
\* own, and by the calls that the inner service is running.
InUse ==
    Cardinality({c \in Connections : ready[c]})
        + Cardinality({r \in Requests : moved[r]})
        + Cardinality({r \in Requests : future[r] = "inner"})

-------------------------------------------------------------------------------

\* A request arrives on an idle connection.
Arrive(c) ==
    /\ ~wants[c]
    /\ wants' = [wants EXCEPT ![c] = TRUE]
    /\ UNCHANGED <<ready, future, moved, panicked>>

\* poll_ready, twice delegated to the inner service: it reserves a permit when
\* one is free, and is pending otherwise.
PollReady(c) ==
    /\ wants[c]
    /\ ~ready[c]
    /\ InUse < Permits
    /\ ready' = [ready EXCEPT ![c] = TRUE]
    /\ UNCHANGED <<wants, future, moved, panicked>>

\* Mutant of Call: the clone goes into the future, and the instance that was
\* polled stays.
CallClone(c, r) ==
    /\ wants[c]
    /\ ready[c]
    /\ future[r] = "none"
    /\ wants' = [wants EXCEPT ![c] = FALSE]
    /\ future' = [future EXCEPT ![r] = "restoring"]
    /\ UNCHANGED <<ready, moved, panicked>>

\* ProvideAuthentication::call: the instance that was polled goes into the
\* future, and a clone takes its place.
Call(c, r) ==
    /\ wants[c]
    /\ ready[c]
    /\ future[r] = "none"
    /\ wants' = [wants EXCEPT ![c] = FALSE]
    /\ ready' = [ready EXCEPT ![c] = FALSE]
    /\ moved' = [moved EXCEPT ![r] = ready[c]]
    /\ future' = [future EXCEPT ![r] = "restoring"]
    /\ UNCHANGED panicked

\* The session is restored and RequireAuthorization is called with a session
\* that its authorizer accepts: the inner service is called, which takes over
\* the permit.
Authorized(r) ==
    /\ future[r] = "restoring"
    /\ future' = [future EXCEPT ![r] = "inner"]
    /\ moved' = [moved EXCEPT ![r] = FALSE]
    /\ panicked' = (panicked \/ ~moved[r])
    /\ UNCHANGED <<wants, ready>>

\* There is no session, or the authorizer refuses its user: the inner service
\* is not called, and its permit stays with the future's instance.
NotAuthorized(r) ==
    /\ future[r] = "restoring"
    /\ future' = [future EXCEPT ![r] = "rejected"]
    /\ UNCHANGED <<wants, ready, moved, panicked>>

\* Mutant of Complete: the instance of a rejected request survives its future.
CompleteKeeping(r) ==
    /\ future[r] \in {"rejected", "inner"}
    /\ future' = [future EXCEPT ![r] = "none"]
    /\ UNCHANGED <<wants, ready, moved, panicked>>

\* The future has its response, and is dropped with the instance it owns.
Complete(r) ==
    /\ future[r] \in {"rejected", "inner"}
    /\ future' = [future EXCEPT ![r] = "none"]
    /\ moved' = [moved EXCEPT ![r] = FALSE]
    /\ UNCHANGED <<wants, ready, panicked>>

\* The future is dropped at an await.
Cancel(r) ==
    /\ future[r] \in {"restoring", "inner"}
    /\ future' = [future EXCEPT ![r] = "none"]
    /\ moved' = [moved EXCEPT ![r] = FALSE]
    /\ UNCHANGED <<wants, ready, panicked>>

Serve(r) == Authorized(r) \/ NotAuthorized(r) \/ Complete(r) \/ Cancel(r)

ReadinessNext ==
    \/ \E c \in Connections :
         \/ Arrive(c) \/ PollReady(c)
         \/ \E r \in Requests : Call(c, r)
    \/ \E r \in Requests : Serve(r)

ReadinessSpec == ReadinessInit /\ [][ReadinessNext]_readinessVars

\* Permits are handed out fairly to those who keep asking, a server calls a
\* service that is ready, and every future runs to its end.
Fairness ==
    /\ \A c \in Connections :
         /\ SF_readinessVars(PollReady(c))
         /\ SF_readinessVars(\E r \in Requests : Call(c, r))
    /\ \A r \in Requests : WF_readinessVars(Serve(r))

FairSpec == ReadinessSpec /\ Fairness

-------------------------------------------------------------------------------

\* The inner service is only ever called through an instance that was polled
\* ready, however many requests a connection has in flight.
CalledReady == ~panicked

\* A permit is held only on behalf of a request: once nothing is in flight
\* and nobody asks, all permits are free, rejected and cancelled requests
\* included.
PermitsReturn ==
    /\ \A r \in Requests : moved[r] => future[r] \in {"restoring", "rejected"}
    /\ \A c \in Connections : ready[c] => wants[c]

\* No connection waits for ever for the inner service, although rejected
\* requests reserve permits they never use.
RequestsServed ==
    \A c \in Connections : wants[c] ~> ~wants[c]

=============================================================================
