----------------------------- MODULE SessionContext -----------------------------
(*****************************************************************************)
(* What the session-local context promises (session.rs): every future that   *)
(* with_session_local wraps has a private map from user types to sessions,   *)
(* wherever and however it is polled, and code sees the map of the innermost *)
(* wrapper around it.  Futures may be polled inside one another (join,       *)
(* select) and move between worker threads from one poll to the next.        *)
(*****************************************************************************)
EXTENDS Naturals, SequencesExt

CONSTANTS
    Futures,        \* futures, spawned tasks among them
    Workers,        \* threads that poll
    UserTypes,      \* the keys of the map, `TypeId::of::<User>()`
    Sessions,       \* session values
    MaxDepth        \* bound on with_session_local nested in one future

VARIABLES
    nest,           \* the maps of the wrappers a future has entered, outermost first
    stack,          \* the futures a worker is polling, each inside the one before it
    answer          \* what the last call of try_current returned

contextVars == <<nest, stack, answer>>

\* A map with at most one session per user type.
Maps == [UserTypes -> {{}} \cup {{s} : s \in Sessions}]

EmptyMap == [u \in UserTypes |-> {}]

ContextTypeOK ==
    /\ nest \in [Futures -> Seq(Maps)]
    /\ stack \in [Workers -> Seq(Futures)]
    /\ answer \in {{}} \cup {{s} : s \in Sessions}

ContextInit ==
    /\ nest = [f \in Futures |-> <<>>]
    /\ stack = [w \in Workers |-> <<>>]
    /\ answer = {}

Polled == UNION {ToSet(stack[w]) : w \in Workers}

\* The levels of a worker's stack that have a map of their own.
Wrapped(w) == {k \in DOMAIN stack[w] : nest[stack[w][k]] # <<>>}

Innermost(w) == stack[w][CHOOSE k \in Wrapped(w) : \A j \in Wrapped(w) : j <= k]

-------------------------------------------------------------------------------

\* A worker polls a future that nobody else is polling: at the top of its
\* loop, or from within the future that it is polling already.
BeginPoll(w, f) ==
    /\ f \notin Polled
    /\ stack' = [stack EXCEPT ![w] = Append(@, f)]
    /\ UNCHANGED <<nest, answer>>

\* The innermost poll returns, pending or ready.
EndPoll(w) ==
    /\ stack[w] # <<>>
    /\ stack' = [stack EXCEPT ![w] = Front(@)]
    /\ UNCHANGED <<nest, answer>>

\* The innermost future enters with_session_local, with an empty map.
Enter(w) ==
    /\ stack[w] # <<>>
    /\ Len(nest[Last(stack[w])]) < MaxDepth
    /\ nest' = [nest EXCEPT ![Last(stack[w])] = Append(@, EmptyMap)]
    /\ UNCHANGED <<stack, answer>>

\* The innermost wrapper of the innermost future completes.
Leave(w) ==
    /\ stack[w] # <<>>
    /\ nest[Last(stack[w])] # <<>>
    /\ nest' = [nest EXCEPT ![Last(stack[w])] = Front(@)]
    /\ UNCHANGED <<stack, answer>>

\* A future that is not being polled is dropped, with its maps.
Abandon(f) ==
    /\ f \notin Polled
    /\ nest' = [nest EXCEPT ![f] = <<>>]
    /\ UNCHANGED <<stack, answer>>

\* insert and remove: the entry of one user type in the innermost map, if any.
Assign(w, u, value) ==
    /\ stack[w] # <<>>
    /\ nest' = IF Wrapped(w) = {} THEN nest
               ELSE [nest EXCEPT ![Innermost(w)] =
                        Append(Front(@), [Last(@) EXCEPT ![u] = value])]
    /\ UNCHANGED <<stack, answer>>

\* try_current
Read(w, u) ==
    /\ stack[w] # <<>>
    /\ answer' = IF Wrapped(w) = {} THEN {} ELSE Last(nest[Innermost(w)])[u]
    /\ UNCHANGED <<nest, stack>>

ContextNext ==
    \/ \E w \in Workers :
         \/ \E f \in Futures : BeginPoll(w, f)
         \/ EndPoll(w) \/ Enter(w) \/ Leave(w)
         \/ \E u \in UserTypes :
              \/ \E value \in {{}} \cup {{s} : s \in Sessions} : Assign(w, u, value)
              \/ Read(w, u)
    \/ \E f \in Futures : Abandon(f)

ContextSpec == ContextInit /\ [][ContextNext]_contextVars

=============================================================================
