------------------------------ MODULE MemoryStore ------------------------------
(*****************************************************************************)
(* `MemoryStore` (store.rs): the trait `Store` over a moka cache.            *)
(*                                                                           *)
(* Two clocks meet here.  A session carries a wall-clock expiry, while the   *)
(* cache counts a monotonic duration that SessionExpiry computes once, when  *)
(* the entry is inserted.  An entry whose duration has elapsed is invisible  *)
(* at once and is removed later by the cache's housekeeping.                 *)
(*****************************************************************************)
EXTENDS Integers

CONSTANTS
    Ids,
    UserIds,
    MaxNow,         \* bound on the wall clock
    Expiries        \* the expiry instants callers ask for

ASSUME BoundsAreTimes == MaxNow \in Nat /\ Expiries \subseteq Nat

VARIABLES
    wall,           \* `Utc::now()`
    mono,           \* the cache's clock, `Instant::now()`
    cache,          \* the entries in the cache's table, elapsed ones included
    reply           \* the last call and its answer

vars == <<wall, mono, cache, reply>>

\* Elapsed entries are invisible to every call: the records a caller can see.
Visible == {e \in cache : e.deadline > mono}

VisibleSessions == {e.session : e \in Visible}

Contract == INSTANCE StoreContract WITH now <- wall, store <- VisibleSessions

Entry == [session: Contract!StoredSession, deadline: Nat]

TypeOK ==
    /\ wall \in Nat
    /\ mono \in Nat
    /\ cache \subseteq Entry
    /\ reply \in Contract!Replies

Init ==
    /\ wall = 0
    /\ mono = 0
    /\ cache = {}
    /\ reply = Contract!NoCall

-------------------------------------------------------------------------------

\* Mutant of ExpireAfterCreate: the duration is one unit short.
ExpireTooSoon(s) == IF s.expires > wall THEN s.expires - wall - 1 ELSE 0

\* Mutant of ExpireAfterCreate: a session that has already expired is not
\* given the zero duration.
ExpireUnclamped(s) == s.expires - wall

\* SessionExpiry::expire_after_create: the time left on the wall clock, and
\* zero for a session that has already expired.
ExpireAfterCreate(s) == IF s.expires > wall THEN s.expires - wall ELSE 0

\* An elapsed entry is no answer, whether it is still in the table or not.
Get(id) ==
    /\ reply' = Contract!Answer("get", id, {s \in VisibleSessions : s.id = id})
    /\ UNCHANGED <<wall, mono, cache>>

\* Mutant of Create: insert() in place of entry().or_insert().
CreateInserting(s) ==
    /\ cache' = {e \in cache : e.session.id # s.id}
                    \cup {[session |-> s, deadline |-> mono + ExpireAfterCreate(s)]}
    /\ reply' = Contract!Answer("create", s, "ok")
    /\ UNCHANGED <<wall, mono>>

\* entry(id).or_insert(s): an elapsed entry does not count as present, and is
\* replaced.
Create(s) ==
    /\ IF \E e \in Visible : e.session.id = s.id
         THEN /\ reply' = Contract!Answer("create", s, "already_exists")
              /\ UNCHANGED cache
         ELSE /\ cache' = {e \in cache : e.session.id # s.id}
                    \cup {[session |-> s, deadline |-> mono + ExpireAfterCreate(s)]}
              /\ reply' = Contract!Answer("create", s, "ok")
    /\ UNCHANGED <<wall, mono>>

\* invalidate(id)
Revoke(id) ==
    /\ cache' = {e \in cache : e.session.id # id}
    /\ reply' = Contract!Answer("revoke", id, "ok")
    /\ UNCHANGED <<wall, mono>>

\* The cache's housekeeping removes elapsed entries from the table.
Evict ==
    /\ cache # Visible
    /\ cache' = Visible
    /\ UNCHANGED <<wall, mono, reply>>

Tick ==
    /\ wall < MaxNow
    /\ wall' = wall + 1
    /\ mono' = mono + 1
    /\ UNCHANGED <<cache, reply>>

\* The wall clock is set forward, or the host was suspended, during which a
\* monotonic clock stands still.
WallOnlyTick ==
    /\ wall < MaxNow
    /\ wall' = wall + 1
    /\ UNCHANGED <<mono, cache, reply>>

Next ==
    \/ \E id \in Ids : Get(id) \/ Revoke(id)
    \/ \E s \in Contract!Requested : Create(s)
    \/ Evict
    \/ Tick
    \/ WallOnlyTick

Spec == Init /\ [][Next]_vars

-------------------------------------------------------------------------------

\* The cache's deadline never comes before the session's expiry: what is left
\* to the session on the wall clock is at most what is left to its entry.
DeadlineCoversExpiry ==
    \A e \in cache : e.session.expires - wall <= e.deadline - mono

\* No session is lost early: whatever the cache hides has expired.  This is
\* the half of "Entries expire according to Session::expires" that the store
\* keeps even when the two clocks drift apart.
NeverForgottenEarly ==
    \A e \in cache \ Visible : e.session.expires <= wall

\* The wall clock has not run ahead so far: neither clock goes back, so that
\* they never meet again once it has.
InStep == wall = mono

\* The doc comment of MemoryStore (store.rs:167): "Entries expire according
\* to Session::expires."  As long as the clocks are in step, an entry is
\* visible exactly while its session has not expired.
ExpiresAsDocumented ==
    InStep => \A e \in cache : e \in Visible <=> e.session.expires > wall

\* As long as the clocks are in step, an entry has exactly as much time left
\* as its session, and none once the session has expired.
DeadlineTracksExpiry ==
    InStep => \A e \in cache :
        /\ e.session.expires > wall => e.deadline - mono = e.session.expires - wall
        /\ e.session.expires <= wall => e.deadline <= mono

\* The store answers every call as the trait's contract says: the visible
\* entries are the abstract store, and hiding, evicting and replacing elapsed
\* entries are steps in which the contract lets expired records go.
ImplementsContract == Contract!ContractSpec

=============================================================================
