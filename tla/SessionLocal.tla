------------------------------ MODULE SessionLocal ------------------------------
(*****************************************************************************)
(* The session-local context as it is built (session.rs, module              *)
(* session_local): a tokio task-local, that is, one thread-local cell per    *)
(* worker and, in every future returned by SESSIONS.scope, a slot whose      *)
(* content is swapped with the cell when a poll starts and swapped back when *)
(* it ends.  At rest a future's slots hold its own maps; while it is polled  *)
(* each slot holds what the cell held before, and the cell holds the         *)
(* innermost map.                                                            *)
(*****************************************************************************)
EXTENDS Naturals, SequencesExt

CONSTANTS
    Futures,        \* futures, spawned tasks among them
    Workers,        \* threads that poll
    UserTypes,      \* the keys of a map, `TypeId::of::<User>()`
    Sessions,       \* session values
    MaxDepth        \* bound on with_session_local nested in one future

ASSUME DepthBound == MaxDepth \in Nat

VARIABLES
    cell,           \* each worker's thread-local: an optional map
    slots,          \* the slots of a future's wrappers, outermost first
    stack,          \* the futures a worker is polling, each inside the one before it
    answer          \* what the last call of try_current returned

vars == <<cell, slots, stack, answer>>

\* The content of the cell as the future at level k of worker w left it: what
\* the next wrapper further in has saved.
CellAt(w, k) ==
    LET inner == {j \in DOMAIN stack[w] : j > k /\ slots[stack[w][j]] # <<>>}
    IN  IF inner = {} THEN cell[w]
        ELSE slots[stack[w][CHOOSE j \in inner : \A i \in inner : j <= i]][1]

Positions(f) ==
    UNION {{<<w, k>> : k \in {j \in DOMAIN stack[w] : stack[w][j] = f}} : w \in Workers}

Values(opts) == [i \in DOMAIN opts |-> CHOOSE m \in opts[i] : TRUE]

\* The slots of a future as they are when it is at rest: those of one that is
\* being polled, without what they have saved, and what it left in the cell.
OwnSlots(f) ==
    IF slots[f] = <<>> \/ Positions(f) = {} THEN slots[f]
    ELSE LET p == CHOOSE q \in Positions(f) : TRUE
         IN  Append(Tail(slots[f]), CellAt(p[1], p[2]))

\* The maps that belong to a future, wherever they are.
OwnMaps(f) == Values(OwnSlots(f))

Context == INSTANCE SessionContext WITH nest <- [f \in Futures |-> OwnMaps(f)]

OptionalMaps == {{}} \cup {{m} : m \in Context!Maps}

TypeOK ==
    /\ cell \in [Workers -> OptionalMaps]
    /\ slots \in [Futures -> Seq(OptionalMaps)]
    /\ stack \in [Workers -> Seq(Futures)]
    /\ answer \in {{}} \cup {{s} : s \in Sessions}

Init ==
    /\ cell = [w \in Workers |-> {}]
    /\ slots = [f \in Futures |-> <<>>]
    /\ stack = [w \in Workers |-> <<>>]
    /\ answer = {}

Polled == UNION {ToSet(stack[w]) : w \in Workers}

-------------------------------------------------------------------------------
(* The task-local machinery (external: tokio).                               *)

\* Every wrapper swaps its slot with the cell, outermost first.
BeginPoll(w, f) ==
    /\ f \notin Polled
    /\ stack' = [stack EXCEPT ![w] = Append(@, f)]
    /\ IF slots[f] = <<>> THEN UNCHANGED <<cell, slots>>
       ELSE /\ cell' = [cell EXCEPT ![w] = Last(slots[f])]
            /\ slots' = [slots EXCEPT ![f] = <<cell[w]>> \o Front(@)]
    /\ UNCHANGED answer

\* Every wrapper swaps back, innermost first.
EndPoll(w) ==
    /\ stack[w] # <<>>
    /\ stack' = [stack EXCEPT ![w] = Front(@)]
    /\ LET f == Last(stack[w])
       IN  IF slots[f] = <<>> THEN UNCHANGED <<cell, slots>>
           ELSE /\ cell' = [cell EXCEPT ![w] = Head(slots[f])]
                /\ slots' = [slots EXCEPT ![f] = Append(Tail(@), cell[w])]
    /\ UNCHANGED answer

\* A wrapper completes: it swaps back and its map is dropped.
Leave(w) ==
    /\ stack[w] # <<>>
    /\ slots[Last(stack[w])] # <<>>
    /\ cell' = [cell EXCEPT ![w] = Last(slots[Last(stack[w])])]
    /\ slots' = [slots EXCEPT ![Last(stack[w])] = Front(@)]
    /\ UNCHANGED <<stack, answer>>

\* A future that is not being polled is dropped, with its slots.
Abandon(f) ==
    /\ f \notin Polled
    /\ slots' = [slots EXCEPT ![f] = <<>>]
    /\ UNCHANGED <<cell, stack, answer>>

-------------------------------------------------------------------------------
(* session_local                                                             *)

\* Mutant of Enter: a plain thread-local, set and never restored.
EnterUnscoped(w) ==
    /\ stack[w] # <<>>
    /\ cell' = [cell EXCEPT ![w] = {Context!EmptyMap}]
    /\ UNCHANGED <<slots, stack, answer>>

\* scope: SESSIONS.scope(RefCell::new(HashMap::new()), future), first polled
\* from within the future that is being polled.
Enter(w) ==
    /\ stack[w] # <<>>
    /\ Len(slots[Last(stack[w])]) < MaxDepth
    /\ slots' = [slots EXCEPT ![Last(stack[w])] = Append(@, cell[w])]
    /\ cell' = [cell EXCEPT ![w] = {Context!EmptyMap}]
    /\ UNCHANGED <<stack, answer>>

\* insert: nothing happens outside a context.
InsertCurrent(w, u, s) ==
    /\ stack[w] # <<>>
    /\ cell' = [cell EXCEPT ![w] = {[m EXCEPT ![u] = {s}] : m \in @}]
    /\ UNCHANGED <<slots, stack, answer>>

\* Mutant of RemoveCurrent: the whole context is cleared.
RemoveAll(w, u) ==
    /\ stack[w] # <<>>
    /\ cell' = [cell EXCEPT ![w] = {Context!EmptyMap : m \in @}]
    /\ UNCHANGED <<slots, stack, answer>>

RemoveCurrent(w, u) ==
    /\ stack[w] # <<>>
    /\ cell' = [cell EXCEPT ![w] = {[m EXCEPT ![u] = {}] : m \in @}]
    /\ UNCHANGED <<slots, stack, answer>>

\* try_current: None outside a context and without a session of that type.
TryCurrent(w, u) ==
    /\ stack[w] # <<>>
    /\ answer' = UNION {m[u] : m \in cell[w]}
    /\ UNCHANGED <<cell, slots, stack>>

Next ==
    \/ \E w \in Workers :
         \/ \E f \in Futures : BeginPoll(w, f)
         \/ EndPoll(w) \/ Enter(w) \/ Leave(w)
         \/ \E u \in UserTypes :
              \/ \E s \in Sessions : InsertCurrent(w, u, s)
              \/ RemoveCurrent(w, u) \/ TryCurrent(w, u)
    \/ \E f \in Futures : Abandon(f)

Spec == Init /\ [][Next]_vars

-------------------------------------------------------------------------------

\* A worker that polls nothing holds no session: whatever a request left in
\* its context does not reach the next request polled on that thread.
IdleWorkersClean ==
    \A w \in Workers : stack[w] = <<>> => cell[w] = {}

\* Swapping maps in and out of threads gives every wrapped future a context
\* of its own: no interleaving of polls, nested polls, migrations between
\* workers and cancellations shows a session to code outside its wrapper.
ImplementsContext == Context!ContextSpec

=============================================================================
