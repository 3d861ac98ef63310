--------------------------- MODULE MemoryStoreProofs ---------------------------
(*****************************************************************************)
(* What MemoryStore promises for every set of ids and users, every bound on  *)
(* the clock and every choice of expiries.                                   *)
(*****************************************************************************)
EXTENDS MemoryStore, TLAPS

LEMMA RequestedAreStored == Contract!Requested \subseteq Contract!StoredSession
BY BoundsAreTimes DEF Contract!Requested, Contract!StoredSession, Contract!Time

LEMMA LifetimeType ==
    ASSUME wall \in Nat, NEW s \in Contract!StoredSession
    PROVE  /\ ExpireAfterCreate(s) \in Nat
           /\ s.expires - wall <= ExpireAfterCreate(s)
           /\ s.expires <= wall => ExpireAfterCreate(s) = 0
           /\ s.expires > wall => ExpireAfterCreate(s) = s.expires - wall
BY DEF ExpireAfterCreate, Contract!StoredSession, Contract!Time

\* The state stays well-typed; in particular the duration that SessionExpiry
\* hands to the cache is never negative.
THEOREM TypeCorrect == Spec => []TypeOK
<1>1. Init => TypeOK
  BY DEF Init, TypeOK, Contract!NoCall, Contract!Replies
<1>2. TypeOK /\ [Next]_vars => TypeOK'
  <2> SUFFICES ASSUME TypeOK, [Next]_vars PROVE TypeOK'
    OBVIOUS
  <2>1. ASSUME NEW id \in Ids, Get(id) PROVE TypeOK'
    BY <2>1 DEF TypeOK, Get, VisibleSessions, Visible, Entry, Contract!Answer,
                Contract!Replies
  <2>2. ASSUME NEW id \in Ids, Revoke(id) PROVE TypeOK'
    BY <2>2 DEF TypeOK, Revoke, Contract!Answer, Contract!Replies
  <2>3. ASSUME NEW s \in Contract!Requested, Create(s) PROVE TypeOK'
    <3>1. s \in Contract!StoredSession
      BY RequestedAreStored
    <3>2. [session |-> s, deadline |-> mono + ExpireAfterCreate(s)] \in Entry
      BY <3>1, LifetimeType DEF TypeOK, Entry
    <3>3. cache' \subseteq Entry
      BY <2>3, <3>2 DEF TypeOK, Create
    <3>4. reply' \in Contract!Replies
      BY <2>3, <3>1 DEF Create, Contract!Answer, Contract!Replies
    <3> QED
      BY <2>3, <3>3, <3>4 DEF TypeOK, Create
  <2>4. CASE Evict
    BY <2>4 DEF TypeOK, Evict, Visible
  <2>5. CASE Tick
    BY <2>5 DEF TypeOK, Tick
  <2>6. CASE WallOnlyTick
    BY <2>6 DEF TypeOK, WallOnlyTick
  <2>7. CASE UNCHANGED vars
    BY <2>7 DEF TypeOK, vars
  <2> QED
    BY <2>1, <2>2, <2>3, <2>4, <2>5, <2>6, <2>7 DEF Next
<1> QED
  BY <1>1, <1>2, PTL DEF Spec

-------------------------------------------------------------------------------

\* However far the wall clock runs ahead of the cache's clock, no entry has
\* less time left than its session.
THEOREM DeadlinesCover == Spec => []DeadlineCoversExpiry
<1>1. Init => DeadlineCoversExpiry
  BY DEF Init, DeadlineCoversExpiry
<1>2. TypeOK /\ DeadlineCoversExpiry /\ [Next]_vars => DeadlineCoversExpiry'
  <2> SUFFICES ASSUME TypeOK, DeadlineCoversExpiry, [Next]_vars,
                      NEW e \in cache'
               PROVE  (e.session.expires - wall <= e.deadline - mono)'
    BY DEF DeadlineCoversExpiry
  <2>1. ASSUME e \in cache, UNCHANGED <<wall, mono>>
        PROVE  (e.session.expires - wall <= e.deadline - mono)'
    BY <2>1 DEF DeadlineCoversExpiry
  <2>2. ASSUME NEW id \in Ids, Get(id) \/ Revoke(id)
        PROVE  (e.session.expires - wall <= e.deadline - mono)'
    BY <2>1, <2>2 DEF Get, Revoke
  <2>3. ASSUME NEW s \in Contract!Requested, Create(s)
        PROVE  (e.session.expires - wall <= e.deadline - mono)'
    <3>1. s \in Contract!StoredSession
      BY RequestedAreStored
    <3>2. CASE e = [session |-> s, deadline |-> mono + ExpireAfterCreate(s)]
      BY <2>3, <3>1, <3>2, LifetimeType
      DEF TypeOK, Create, Contract!StoredSession, Contract!Time
    <3>3. CASE e \in cache
      BY <2>1, <2>3, <3>3 DEF Create
    <3> QED
      BY <2>3, <3>2, <3>3 DEF Create
  <2>4. CASE Evict
    BY <2>1, <2>4 DEF Evict, Visible
  <2>5. CASE Tick \/ WallOnlyTick
    <3>1. e \in cache /\ e \in Entry
      BY <2>5 DEF Tick, WallOnlyTick, TypeOK
    <3>2. e.session.expires \in Nat /\ e.deadline \in Nat
      BY <3>1 DEF Entry, Contract!StoredSession, Contract!Time
    <3> QED
      BY <2>5, <3>1, <3>2 DEF Tick, WallOnlyTick, TypeOK, DeadlineCoversExpiry
  <2>6. CASE UNCHANGED vars
    BY <2>1, <2>6 DEF vars
  <2> QED
    BY <2>2, <2>3, <2>4, <2>5, <2>6 DEF Next
<1> QED
  BY <1>1, <1>2, TypeCorrect, PTL DEF Spec

LEMMA HiddenHasExpired ==
    TypeOK /\ DeadlineCoversExpiry => NeverForgottenEarly
<1> SUFFICES ASSUME TypeOK, DeadlineCoversExpiry, NEW e \in cache \ Visible
             PROVE  e.session.expires <= wall
  BY DEF NeverForgottenEarly
<1>1. e.session.expires \in Nat /\ e.deadline \in Nat /\ mono \in Nat /\ wall \in Nat
  BY DEF TypeOK, Entry, Contract!StoredSession, Contract!Time
<1>2. e.deadline <= mono
  BY <1>1 DEF Visible
<1> QED
  BY <1>1, <1>2 DEF DeadlineCoversExpiry

\* No session is lost before it expires.
THEOREM NoEarlyLoss == Spec => []NeverForgottenEarly
BY TypeCorrect, DeadlinesCover, HiddenHasExpired, PTL

-------------------------------------------------------------------------------

LEMMA EntriesTyped ==
    ASSUME TypeOK, NEW e \in cache
    PROVE  /\ e.session \in Contract!StoredSession
           /\ e.session.expires \in Nat /\ e.deadline \in Nat
           /\ mono \in Nat /\ wall \in Nat
BY DEF TypeOK, Entry, Contract!StoredSession, Contract!Time

\* As long as the wall clock has not run ahead of the cache's, an entry's
\* deadline and its session's expiry stay equally far away.  A clock that has
\* run ahead never comes back into step, which takes mono <= wall to see.
THEOREM LockstepDeadlines == Spec => []DeadlineTracksExpiry
<1> DEFINE Behind == mono <= wall
<1>1. Init => Behind /\ DeadlineTracksExpiry
  BY DEF Init, DeadlineTracksExpiry
<1>2. TypeOK /\ Behind /\ [Next]_vars => Behind'
  <2> SUFFICES ASSUME TypeOK, Behind, [Next]_vars PROVE Behind'
    OBVIOUS
  <2>1. CASE Tick \/ WallOnlyTick
    BY <2>1 DEF Tick, WallOnlyTick, TypeOK
  <2>2. CASE UNCHANGED <<wall, mono>>
    BY <2>2
  <2>3. \A s \in Contract!Requested : Create(s) => UNCHANGED <<wall, mono>>
    BY DEF Create
  <2>4. /\ Evict => UNCHANGED <<wall, mono>>
        /\ \A id \in Ids : Get(id) \/ Revoke(id) => UNCHANGED <<wall, mono>>
        /\ UNCHANGED vars => UNCHANGED <<wall, mono>>
    BY DEF Evict, Get, Revoke, vars
  <2> QED
    BY <2>1, <2>2, <2>3, <2>4 DEF Next
<1>3. TypeOK /\ Behind /\ DeadlineTracksExpiry /\ [Next]_vars => DeadlineTracksExpiry'
  <2> DEFINE Tracks(e) ==
        /\ e.session.expires > wall => e.deadline - mono = e.session.expires - wall
        /\ e.session.expires <= wall => e.deadline <= mono
  <2> SUFFICES ASSUME TypeOK, Behind, DeadlineTracksExpiry, [Next]_vars, InStep', NEW e \in cache'
               PROVE  Tracks(e)'
    BY DEF DeadlineTracksExpiry
  <2>1. ASSUME e \in cache, UNCHANGED <<wall, mono>> PROVE Tracks(e)'
    <3>1. InStep
      BY <2>1 DEF InStep
    <3> QED
      BY <2>1, <3>1 DEF DeadlineTracksExpiry
  <2>2. ASSUME NEW id \in Ids, Get(id) \/ Revoke(id) PROVE Tracks(e)'
    <3>1. e \in cache /\ UNCHANGED <<wall, mono>>
      BY <2>2 DEF Get, Revoke
    <3> QED
      BY <2>1, <3>1
  <2>3. ASSUME NEW s \in Contract!Requested, Create(s) PROVE Tracks(e)'
    <3>1. UNCHANGED <<wall, mono>>
      BY <2>3 DEF Create
    <3>2. CASE e = [session |-> s, deadline |-> mono + ExpireAfterCreate(s)]
      <4>1. s \in Contract!StoredSession
        BY RequestedAreStored
      <4> QED
        BY <3>1, <3>2, <4>1, LifetimeType
        DEF TypeOK, Contract!StoredSession, Contract!Time
    <3>3. CASE e \in cache
      BY <2>1, <3>1, <3>3
    <3> QED
      BY <2>3, <3>2, <3>3 DEF Create
  <2>4. CASE Evict
    <3>1. e \in cache /\ UNCHANGED <<wall, mono>>
      BY <2>4 DEF Evict, Visible
    <3> QED
      BY <2>1, <3>1
  <2>5. CASE Tick
    <3>1. /\ wall' = wall + 1 /\ mono' = mono + 1
          /\ e \in cache
          /\ wall' = mono'
      BY <2>5 DEF Tick, InStep
    <3>2. wall = mono
      BY <3>1 DEF TypeOK
    <3>3. Tracks(e)
      BY <3>1, <3>2 DEF DeadlineTracksExpiry, InStep
    <3>4. /\ e.session.expires \in Nat /\ e.deadline \in Nat
          /\ mono \in Nat /\ wall \in Nat
      BY <3>1, EntriesTyped
    <3> QED
      BY <3>1, <3>3, <3>4
  <2>6. CASE WallOnlyTick
    <3>1. wall' = wall + 1 /\ mono' = mono /\ wall' = mono'
      BY <2>6 DEF WallOnlyTick, InStep
    <3>2. mono \in Nat /\ wall \in Nat /\ mono <= wall
      BY DEF TypeOK
    <3> QED
      BY <3>1, <3>2
  <2>7. CASE UNCHANGED vars
    BY <2>1, <2>7 DEF vars
  <2> QED
    BY <2>2, <2>3, <2>4, <2>5, <2>6, <2>7 DEF Next
<1> QED
  BY <1>1, <1>2, <1>3, TypeCorrect, PTL DEF Spec

\* Then an entry is visible exactly until its session expires.
THEOREM LockstepExpiry == Spec => []ExpiresAsDocumented
<1>1. TypeOK /\ DeadlineTracksExpiry => ExpiresAsDocumented
  <2> SUFFICES ASSUME TypeOK, DeadlineTracksExpiry, InStep, NEW e \in cache
               PROVE  e.deadline > mono <=> e.session.expires > wall
    BY DEF ExpiresAsDocumented, Visible
  <2> QED
    BY EntriesTyped DEF DeadlineTracksExpiry
<1>2. Spec => []DeadlineTracksExpiry
  BY LockstepDeadlines
<1> QED
  BY <1>1, <1>2, TypeCorrect, PTL

-------------------------------------------------------------------------------

LEMMA VisibleSessionsTyped == TypeOK => VisibleSessions \subseteq Contract!StoredSession
BY EntriesTyped DEF VisibleSessions, Visible

LEMMA CreateImplements ==
    ASSUME TypeOK, NEW s \in Contract!Requested, Create(s)
    PROVE  Contract!CreateAnswers(s)
<1>1. s \in Contract!StoredSession /\ UNCHANGED wall
  BY RequestedAreStored DEF Create
<1>2. CASE \E e \in Visible : e.session.id = s.id
  <2>1. Contract!Lookup(s.id) # {}
    BY <1>2 DEF VisibleSessions, Contract!Lookup
  <2>2. UNCHANGED VisibleSessions /\ reply' = Contract!Answer("create", s, "already_exists")
    BY <1>2 DEF Create, VisibleSessions, Visible
  <2> QED
    BY <1>1, <2>1, <2>2 DEF Contract!CreateAnswers, Contract!Collides
<1>3. CASE ~ \E e \in Visible : e.session.id = s.id
  <2> DEFINE new == [session |-> s, deadline |-> mono + ExpireAfterCreate(s)]
  <2>1. /\ cache' = {e \in cache : e.session.id # s.id} \cup {new}
        /\ reply' = Contract!Answer("create", s, "ok")
        /\ mono' = mono
    BY <1>3 DEF Create
  <2>2. Contract!Lookup(s.id) = {}
    BY <1>3 DEF VisibleSessions, Contract!Lookup
  <2>3. CASE s.expires > wall
    <3>1. new.deadline > mono
      BY <1>1, <2>3, LifetimeType
      DEF TypeOK, Contract!StoredSession, Contract!Time
    <3>2. Visible' = Visible \cup {new}
      BY <1>3, <2>1, <3>1 DEF Visible
    <3>3. VisibleSessions' = VisibleSessions \cup {s}
      <4>1. new.session = s
        OBVIOUS
      <4> HIDE DEF new
      <4> QED
        BY <3>2, <4>1 DEF VisibleSessions
    <3> QED
      BY <1>1, <2>1, <2>2, <3>3 DEF Contract!CreateAnswers, Contract!Create
  <2>4. CASE s.expires <= wall
    <3>1. ~(new.deadline > mono)
      BY <1>1, <2>4, LifetimeType
      DEF TypeOK, Contract!StoredSession, Contract!Time
    <3>2. Visible' = Visible
      BY <1>3, <2>1, <3>1 DEF Visible
    <3>3. UNCHANGED VisibleSessions
      BY <3>2 DEF VisibleSessions
    <3> QED
      BY <1>1, <2>1, <2>2, <2>4, <3>3 DEF Contract!CreateAnswers, Contract!Create
  <2> QED
    BY <1>1, <2>3, <2>4 DEF TypeOK, Contract!StoredSession, Contract!Time
<1> QED
  BY <1>2, <1>3

\* What becomes invisible when the clocks advance has expired by then.
LEMMA TimeImplements ==
    ASSUME TypeOK, (DeadlineCoversExpiry /\ TypeOK)', Tick \/ WallOnlyTick
    PROVE  Contract!TimePasses
<1>1. /\ wall' \in Nat /\ wall' >= wall
      /\ mono' >= mono
      /\ UNCHANGED <<cache, reply>>
  BY DEF Tick, WallOnlyTick, TypeOK
<1>2. Visible' \subseteq Visible
  BY <1>1, EntriesTyped DEF Visible, TypeOK
<1>3. \A e \in Visible \ Visible' : e.session.expires <= wall'
  <2>1. NeverForgottenEarly'
    BY HiddenHasExpired, PTL
  <2> QED
    BY <1>1, <2>1 DEF NeverForgottenEarly, Visible
<1> DEFINE gone == VisibleSessions \ VisibleSessions'
<1>4. gone \subseteq {s \in VisibleSessions : s.expires <= wall'}
  BY <1>3 DEF VisibleSessions
<1>5. VisibleSessions' = VisibleSessions \ gone
  BY <1>2 DEF VisibleSessions
<1>6. Contract!ForgetExpired
  BY <1>4, <1>5 DEF Contract!ForgetExpired
<1> QED
  BY <1>1, <1>6 DEF Contract!TimePasses, Contract!Time

\* MemoryStore implements the contract of the trait Store, for every drift
\* between the two clocks.
THEOREM Implements == Spec => ImplementsContract
<1>1. Init => Contract!ContractInit
  BY DEF Init, VisibleSessions, Visible, Contract!ContractInit, Contract!StoreInit
<1>2. /\ TypeOK /\ TypeOK'
      /\ DeadlineCoversExpiry'
      /\ [Next]_vars
      => [Contract!ContractNext]_(Contract!contractVars)
  <2> SUFFICES ASSUME TypeOK, TypeOK', DeadlineCoversExpiry', [Next]_vars
               PROVE  Contract!ContractNext \/ UNCHANGED Contract!contractVars
    OBVIOUS
  <2>1. ASSUME NEW id \in Ids, Get(id) PROVE Contract!GetAnswers(id)
    BY <2>1 DEF Get, VisibleSessions, Visible, Contract!GetAnswers, Contract!Lookup
  <2>2. ASSUME NEW id \in Ids, Revoke(id) PROVE Contract!RevokeAnswers(id)
    <3>1. Visible' = {e \in Visible : e.session.id # id}
      BY <2>2 DEF Revoke, Visible
    <3>2. VisibleSessions' = VisibleSessions \ Contract!Lookup(id)
      BY <3>1 DEF VisibleSessions, Contract!Lookup
    <3> QED
      BY <2>2, <3>2 DEF Revoke, Contract!RevokeAnswers, Contract!Revoke
  <2>3. ASSUME NEW s \in Contract!Requested, Create(s) PROVE Contract!CreateAnswers(s)
    BY <2>3, CreateImplements
  <2>4. CASE Evict
    <3>1. Visible' = Visible /\ UNCHANGED <<wall, reply>>
      BY <2>4 DEF Evict, Visible
    <3> QED
      BY <3>1 DEF VisibleSessions, Contract!contractVars
  <2>5. CASE Tick \/ WallOnlyTick
    BY <2>5, TimeImplements DEF Contract!ContractNext
  <2>6. CASE UNCHANGED vars
    BY <2>6 DEF vars, VisibleSessions, Visible, Contract!contractVars
  <2> QED
    BY <2>1, <2>2, <2>3, <2>4, <2>5, <2>6 DEF Next, Contract!ContractNext
<1> QED
  BY <1>1, <1>2, TypeCorrect, DeadlinesCover, PTL
  DEF Spec, ImplementsContract, Contract!ContractSpec

=============================================================================
