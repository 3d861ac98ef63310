------------------------------ MODULE SessionStore ------------------------------
(*****************************************************************************)
(* The session store as the authentication layer sees it: the trait `Store`  *)
(* of store.rs, whose three asynchronous methods each take effect at one     *)
(* instant.  A store is the set of compact records it would return.          *)
(*                                                                           *)
(* Throughout the project a Rust Option<T> is a set with at most one         *)
(* element: None is {}, Some(x) is {x}, and Option::filter is the filtering  *)
(* of that set.                                                              *)
(*****************************************************************************)
EXTENDS Naturals

CONSTANTS
    Ids,        \* session identifiers (u128 in the code)
    UserIds,    \* user identifiers (`User::Id`)
    MaxNow      \* bound on the clock

ASSUME ClockBound == MaxNow \in Nat

VARIABLES
    now,        \* the wall clock, `Utc::now()`
    store       \* the records the store holds

storeVars == <<now, store>>

Time == Nat

\* The compact value persisted by a store.
StoredSession == [id: Ids, expires: Time, user_id: UserIds]

Options(S) == {{}} \cup {{x} : x \in S}

StoreTypeOK ==
    /\ now \in Time
    /\ store \subseteq StoredSession

StoreInit ==
    /\ now = 0
    /\ store = {}

-------------------------------------------------------------------------------
(* The outcomes of the methods.                                              *)

\* get(id) -> Ok(Some(record)) or Ok(None)
Lookup(id) == {s \in store : s.id = id}

\* Mutant of Create: the insertion does not look for a record with that id.
CreateOverwriting(s) == store' = (store \ Lookup(s.id)) \cup {s}

\* create(s) -> Ok(()).  A record that has expired by then need not be kept.
Create(s) ==
    /\ Lookup(s.id) = {}
    /\ \/ store' = store \cup {s}
       \/ s.expires <= now /\ UNCHANGED store

\* create(s) -> Err(AlreadyExists)
Collides(s) ==
    /\ Lookup(s.id) # {}
    /\ UNCHANGED store

\* Mutant of Revoke: the answer is Ok(()) but the record stays.
RevokeNothing(id) == UNCHANGED store

\* revoke(id) -> Ok(()), whether or not the record exists
Revoke(id) == store' = store \ Lookup(id)

\* A store may forget a record, at any time, once it has expired.
ForgetExpired ==
    \E gone \in SUBSET {s \in store : s.expires <= now'} : store' = store \ gone

Tick ==
    /\ now < MaxNow
    /\ now' = now + 1

=============================================================================
