----------------------------- MODULE StoreContract -----------------------------
(*****************************************************************************)
(* What every store promises to its callers: the closed specification of the *)
(* trait `Store`.  `reply` is the last call with the answer its caller got.  *)
(*****************************************************************************)
EXTENDS SessionStore

CONSTANT Expiries       \* the expiry instants callers ask for

VARIABLE reply

contractVars == <<now, store, reply>>

NoCall == [call |-> "none"]

Answer(call, s, result) == [call |-> call, about |-> s, result |-> result]

Replies ==
    {NoCall}
        \cup [call: {"get"}, about: Ids, result: SUBSET StoredSession]
        \cup [call: {"create"}, about: StoredSession, result: {"ok", "already_exists"}]
        \cup [call: {"revoke"}, about: Ids, result: {"ok"}]

Requested == {[id |-> i, expires |-> e, user_id |-> u] :
                 i \in Ids, e \in Expiries, u \in UserIds}

ContractInit == StoreInit /\ reply = NoCall

GetAnswers(id) ==
    /\ reply' = Answer("get", id, Lookup(id))
    /\ UNCHANGED <<now, store>>

CreateAnswers(s) ==
    /\ \/ Create(s) /\ reply' = Answer("create", s, "ok")
       \/ Collides(s) /\ reply' = Answer("create", s, "already_exists")
    /\ UNCHANGED now

RevokeAnswers(id) ==
    /\ Revoke(id)
    /\ reply' = Answer("revoke", id, "ok")
    /\ UNCHANGED now

\* The clock may jump forward; expired records may be forgotten.
TimePasses ==
    /\ now' \in Time
    /\ now' >= now
    /\ ForgetExpired
    /\ UNCHANGED reply

ContractNext ==
    \/ \E id \in Ids : GetAnswers(id) \/ RevokeAnswers(id)
    \/ \E s \in Requested : CreateAnswers(s)
    \/ TimePasses

ContractSpec == ContractInit /\ [][ContractNext]_contractVars

=============================================================================
