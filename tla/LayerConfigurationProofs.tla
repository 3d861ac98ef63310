----------------------- MODULE LayerConfigurationProofs -----------------------
(*****************************************************************************)
(* Which sessions a configured service restores, for any number of variables,*)
(* backends, ids and stores.  KinExplained is inductive, and how a request   *)
(* is answered follows from it in one step.  Last, the readiness protocol of *)
(* the services that layers make.                                            *)
(*****************************************************************************)
EXTENDS LayerConfiguration, ServiceReadiness, TLAPS

USE StoresBound DEF StoreNumbers, Noop

-------------------------------------------------------------------------------
(* The invariant in two halves: what the variables of the program hold, and  *)
(* what the stores keep.                                                     *)

\* An object as the program can hold it while there are m stores.
Sound(o, m) ==
    /\ o \in Object
    /\ o.kind \in {"service", "handle"} => o.backend # {} /\ o.store # {}
    /\ o.kin <= m
    /\ o.store \subseteq {o.kin}
    /\ o.kin # 0 => o.store # {}
    /\ o.kind = "store" => o.kin # 0

\* What a slot holds: nothing, or one such object.
Holding(S, m) == \A o \in S : S = {o} /\ Sound(o, m)

AllHolding(slots, m) ==
    /\ DOMAIN slots = Slots
    /\ slots = [x \in Slots |-> slots[x]]
    /\ \A x \in Slots : Holding(slots[x], m)

SessionsExplained ==
    /\ stores \in Seq(SUBSET Ids)
    /\ Len(stores) <= MaxStores
    /\ logins \in [Ids -> Optional(StoreNumbers)]
    /\ restored \in BOOLEAN
    /\ \A id \in Ids : logins[id] \subseteq 0 .. Len(stores)
    /\ \A n \in DOMAIN stores, id \in Ids : id \in stores[n] <=> logins[id] = {n}

Explained == AllHolding(objects, Len(stores)) /\ SessionsExplained

LEMMA Parts == Explained <=> TypeOK /\ KinExplained
<1>1. Explained => TypeOK
  <2>1. ASSUME Explained PROVE objects \in [Slots -> SUBSET Object]
    BY <2>1 DEF Explained, AllHolding, Holding, Sound
  <2> QED
    BY <2>1 DEF Explained, AllHolding, Holding, Sound, SessionsExplained, TypeOK
<1>2. Explained => KinExplained
  BY DEF Explained, AllHolding, Holding, Sound, SessionsExplained, KinExplained
<1>3. TypeOK /\ KinExplained => Explained
  BY DEF Explained, AllHolding, Holding, Sound, SessionsExplained, TypeOK, KinExplained
<1> QED
  BY <1>1, <1>2, <1>3

\* One slot gets something else, maybe over more stores than before.
LEMMA OneReplaced ==
    ASSUME NEW m \in Nat, NEW n \in Nat, m <= n, AllHolding(objects, m),
           NEW x \in Slots, NEW S, Holding(S, n),
           objects' = [objects EXCEPT ![x] = S]
    PROVE  AllHolding(objects', n)
BY DEF AllHolding, Holding, Sound, Object

LEMMA NothingHeld == ASSUME NEW m PROVE Holding({}, m)
BY DEF Holding

LEMMA OneHeld == ASSUME NEW m, NEW o, Sound(o, m) PROVE Holding({o}, m)
BY DEF Holding

LEMMA OneOptional ==
    ASSUME NEW S, NEW e \in S
    PROVE  {e} \in Optional(S)
BY DEF Optional

LEMMA HeldSound ==
    ASSUME NEW m, AllHolding(objects, m), NEW x \in Slots, NEW o \in objects[x]
    PROVE  Sound(o, m)
BY DEF AllHolding, Holding

LEMMA StoresCounted ==
    ASSUME SessionsExplained
    PROVE  Len(stores) \in Nat /\ DOMAIN stores = 1 .. Len(stores)
BY DEF SessionsExplained

\* A store that was just created is empty.
LEMMA StoreAdded ==
    ASSUME SessionsExplained, Len(stores) < MaxStores, stores' = Append(stores, {}),
           UNCHANGED <<logins, restored>>
    PROVE  SessionsExplained' /\ Len(stores') = Len(stores) + 1
<1>1. /\ Len(stores) \in Nat /\ Len(stores') = Len(stores) + 1
      /\ stores' \in Seq(SUBSET Ids)
      /\ DOMAIN stores' = 1 .. Len(stores) + 1
      /\ DOMAIN stores = 1 .. Len(stores)
      /\ \A n \in 1 .. Len(stores) : stores'[n] = stores[n]
      /\ stores'[Len(stores) + 1] = {}
  BY DEF SessionsExplained
<1>2. \A id \in Ids : logins[id] # {Len(stores) + 1}
  BY <1>1 DEF SessionsExplained
<1>3. \A n \in DOMAIN stores', id \in Ids : id \in stores'[n] <=> logins'[id] = {n}
  BY <1>1, <1>2 DEF SessionsExplained
<1> QED
  BY <1>1, <1>3 DEF SessionsExplained

-------------------------------------------------------------------------------
(* Building keeps both halves.                                               *)

LEMMA NewStoreExplained ==
    ASSUME Explained, NEW x \in Slots, NewStore(x)
    PROVE  Explained'
<1> DEFINE o == [kind |-> "store", backend |-> {}, store |-> {Len(stores')},
                 kin |-> Len(stores')]
<1>1. SessionsExplained' /\ Len(stores') = Len(stores) + 1 /\ Len(stores) \in Nat
      /\ Len(stores') <= MaxStores
  BY StoreAdded, StoresCounted DEF Explained, NewStore, SessionsExplained
<1>2. Sound(o, Len(stores'))
  BY <1>1 DEF Sound, Object, Optional, Kinds
<1>3. Len(stores') \in Nat /\ Len(stores) <= Len(stores')
  BY <1>1
<1>4. AllHolding(objects', Len(stores'))
  BY <1>1, <1>2, <1>3, OneHeld, OneReplaced, Zenon DEF Explained, NewStore, Put
<1> QED
  BY <1>1, <1>4 DEF Explained

\* Whatever replaces one object, no store being touched.
LEMMA ReplacedExplained ==
    ASSUME Explained, NEW x \in Slots, NEW S, Holding(S, Len(stores)),
           objects' = [objects EXCEPT ![x] = S],
           UNCHANGED <<stores, logins, restored>>
    PROVE  Explained'
<1>1. SessionsExplained'
  BY DEF Explained, SessionsExplained
<1>2. Len(stores) \in Nat /\ Len(stores) <= Len(stores)
  BY StoresCounted DEF Explained
<1>3. AllHolding(objects, Len(stores))
  BY DEF Explained
<1>4. AllHolding(objects', Len(stores))
  BY <1>2, <1>3, OneReplaced, Zenon
<1> QED
  BY <1>1, <1>4 DEF Explained

LEMMA NewLayerExplained ==
    ASSUME Explained, NEW x \in Slots, NewLayer(x)
    PROVE  Explained'
<1> DEFINE o == [kind |-> "layer", backend |-> {}, store |-> {}, kin |-> 0]
<1>1. Sound(o, Len(stores))
  BY StoresCounted DEF Explained, Sound, Object, Optional, Kinds
<1> QED
  BY <1>1, OneHeld, ReplacedExplained DEF NewLayer, Put

LEMMA WithBackendExplained ==
    ASSUME Explained, NEW x \in Slots, NEW b \in Backends, WithBackend(x, b)
    PROVE  Explained'
<1>1. PICK o \in objects[x] : Becomes(x, o, [o EXCEPT !.backend = {b}])
  BY DEF WithBackend
<1>2. Sound(o, Len(stores))
  BY HeldSound DEF Explained
<1>3. Sound([o EXCEPT !.backend = {b}], Len(stores))
  BY <1>2 DEF Sound, Object, Optional
<1> QED
  BY <1>1, <1>3, OneHeld, ReplacedExplained DEF WithBackend, Becomes, Put

LEMMA WithStoreExplained ==
    ASSUME Explained, NEW x \in Slots, NEW y \in Slots, WithStore(x, y)
    PROVE  Explained'
<1>1. PICK o \in objects[x], s \in objects[y] :
        /\ o.kind = "layer" /\ s.kind = "store"
        /\ objects' = [objects EXCEPT
               ![x] = {[o EXCEPT !.store = s.store, !.kin = s.kin]}, ![y] = {}]
  BY DEF WithStore
<1> DEFINE p == [o EXCEPT !.store = s.store, !.kin = s.kin]
<1>2. Sound(o, Len(stores)) /\ Sound(s, Len(stores))
  BY HeldSound DEF Explained
<1>3. Sound(p, Len(stores))
  BY <1>1, <1>2 DEF Sound, Object
<1>4. AllHolding(objects', Len(stores))
  BY <1>1, <1>3, OneHeld, NothingHeld DEF Explained, AllHolding
<1>5. SessionsExplained'
  BY DEF Explained, SessionsExplained, WithStore
<1> QED
  BY <1>4, <1>5 DEF Explained, WithStore

\* A layer that gets a store, or NoopStore, is sound again.
LEMMA StoreGiven ==
    ASSUME NEW m, NEW k, NEW n \in StoreNumbers, n <= k,
           NEW o, Sound(o, m), o.kind = "layer"
    PROVE  Sound([o EXCEPT !.store = {n}, !.kin = n], k)
<1>1. {n} \in Optional(StoreNumbers)
  BY OneOptional, Zenon
<1>2. o \in Object
  BY DEF Sound
<1> DEFINE p == [o EXCEPT !.store = {n}, !.kin = n]
<1>3. p \in Object /\ p.kind = "layer" /\ p.store = {n} /\ p.kin = n
  BY <1>1, <1>2 DEF Object
<1> HIDE DEF p
<1>4. Sound(p, k)
  BY <1>3 DEF Sound
<1> QED
  BY <1>4 DEF p

LEMMA WithNoopStoreExplained ==
    ASSUME Explained, NEW x \in Slots, WithNoopStore(x)
    PROVE  Explained'
<1>1. PICK o \in objects[x] : Becomes(x, o, [o EXCEPT !.store = {Noop}, !.kin = 0])
  BY DEF WithNoopStore
<1>2. Sound(o, Len(stores))
  BY HeldSound DEF Explained
<1>3. 0 \in StoreNumbers /\ 0 <= Len(stores)
  BY StoresCounted DEF Explained
<1>4. Sound([o EXCEPT !.store = {Noop}, !.kin = 0], Len(stores))
  BY <1>1, <1>2, <1>3, StoreGiven DEF Becomes
<1> QED
  BY <1>1, <1>4, OneHeld, ReplacedExplained DEF WithNoopStore, Becomes, Put

LEMMA WithMemoryStoreExplained ==
    ASSUME Explained, NEW x \in Slots, WithMemoryStore(x)
    PROVE  Explained'
<1> DEFINE n == Len(stores')
<1>1. SessionsExplained' /\ n = Len(stores) + 1 /\ Len(stores) \in Nat /\ n <= MaxStores
  BY StoreAdded, StoresCounted DEF Explained, WithMemoryStore, SessionsExplained
<1>2. PICK o \in objects[x] : Becomes(x, o, [o EXCEPT !.store = {n}, !.kin = n])
  BY DEF WithMemoryStore
<1>3. Sound(o, Len(stores))
  BY HeldSound DEF Explained
<1>4. n \in Nat /\ Len(stores) <= n /\ n # 0
  BY <1>1
<1>5. Sound([o EXCEPT !.store = {n}, !.kin = n], n)
  <2>1. n \in StoreNumbers /\ n <= n
    BY <1>1, <1>4
  <2> HIDE DEF n
  <2> QED
    BY <1>2, <1>3, <2>1, StoreGiven DEF Becomes
<1>6. AllHolding(objects', n)
  BY <1>1, <1>2, <1>4, <1>5, OneHeld, OneReplaced, Zenon DEF Explained, Becomes, Put
<1> QED
  BY <1>1, <1>6 DEF Explained

-------------------------------------------------------------------------------
(* So does what is made from a layer, and what becomes of it.                *)

LEMMA MakeServiceExplained ==
    ASSUME Explained, NEW x \in Slots, NEW y \in Slots, MakeService(x, y)
    PROVE  Explained'
<1> DEFINE Service(o) == [o EXCEPT !.kind = "service",
                                   !.store = IF o.store = {} THEN {Noop} ELSE o.store]
<1>1. PICK o \in objects[x] : o.backend # {} /\ Put(y, Service(o))
  BY DEF MakeService
<1>2. Sound(o, Len(stores))
  BY HeldSound DEF Explained
<1>3. Sound(Service(o), Len(stores))
  BY <1>1, <1>2 DEF Sound, Object, Optional, Kinds
<1> QED
  BY <1>1, <1>3, OneHeld, ReplacedExplained DEF MakeService, Put

LEMMA NewHandleExplained ==
    ASSUME Explained, NEW b \in Backends, NEW y \in Slots, NewHandle(b, y)
    PROVE  Explained'
<1>1. PICK s \in objects[y] :
        s.kind = "store" /\ Put(y, [s EXCEPT !.kind = "handle", !.backend = {b}])
  BY DEF NewHandle
<1>2. Sound(s, Len(stores))
  BY HeldSound DEF Explained
<1>3. Sound([s EXCEPT !.kind = "handle", !.backend = {b}], Len(stores))
  BY <1>1, <1>2 DEF Sound, Object, Optional, Kinds
<1> QED
  BY <1>1, <1>3, OneHeld, ReplacedExplained DEF NewHandle, Put

LEMMA ExtractExplained ==
    ASSUME Explained, NEW x \in Slots, NEW y \in Slots, Extract(x, y)
    PROVE  Explained'
<1>1. PICK o \in objects[x] :
        o.kind = "service" /\ Put(y, [o EXCEPT !.kind = "handle"])
  BY DEF Extract
<1>2. Sound(o, Len(stores))
  BY HeldSound DEF Explained
<1>3. Sound([o EXCEPT !.kind = "handle"], Len(stores))
  BY <1>1, <1>2 DEF Sound, Object, Kinds
<1> QED
  BY <1>1, <1>3, OneHeld, ReplacedExplained DEF Extract, Put

LEMMA CloneExplained ==
    ASSUME Explained, NEW x \in Slots, NEW y \in Slots, Clone(x, y)
    PROVE  Explained'
<1>1. PICK o \in objects[x] : Put(y, o)
  BY DEF Clone
<1>2. Sound(o, Len(stores))
  BY HeldSound DEF Explained
<1> QED
  BY <1>1, <1>2, OneHeld, ReplacedExplained DEF Clone, Put

LEMMA DropExplained ==
    ASSUME Explained, NEW x \in Slots, Drop(x)
    PROVE  Explained'
BY NothingHeld, ReplacedExplained DEF Drop

-------------------------------------------------------------------------------
(* Logging in and out keeps the stores and the history of logins in step.    *)

\* The stores of a handle: at most the one of its kin.
LEMMA KinStore ==
    ASSUME Explained, NEW x \in Slots, NEW o \in objects[x], o.kind \in {"service", "handle"}
    PROVE  /\ o.kin \in 0 .. Len(stores)
           /\ o.store = {o.kin}
           /\ Len(stores) \in Nat
           /\ DOMAIN stores = 1 .. Len(stores)
BY HeldSound, StoresCounted DEF Explained, Sound, Object

LEMMA LoginExplained ==
    ASSUME Explained, NEW x \in Slots, NEW id \in Ids, Login(x, id)
    PROVE  Explained'
<1>1. PICK o \in objects[x] :
        /\ o.kind = "handle"
        /\ stores' = Created(o.store, id)
        /\ logins' = [logins EXCEPT ![id] = {o.kin}]
  BY DEF Login
<1>2. /\ o.kin \in 0 .. Len(stores) /\ o.store = {o.kin}
      /\ Len(stores) \in Nat /\ DOMAIN stores = 1 .. Len(stores)
  BY <1>1, KinStore
<1>3. /\ stores' \in Seq(SUBSET Ids)
      /\ Len(stores') = Len(stores)
      /\ DOMAIN stores' = 1 .. Len(stores)
      /\ \A n \in 1 .. Len(stores) :
           stores'[n] = IF n = o.kin THEN stores[n] \cup {id} ELSE stores[n]
  BY <1>1, <1>2 DEF Created, Explained, SessionsExplained
<1>4. /\ logins' \in [Ids -> Optional(StoreNumbers)]
      /\ \A i \in Ids : logins'[i] = IF i = id THEN {o.kin} ELSE logins[i]
  <2>1. o.kin \in StoreNumbers
    BY <1>2 DEF Explained, SessionsExplained
  <2>2. {o.kin} \in Optional(StoreNumbers)
    BY <2>1, OneOptional
  <2> QED
    BY <1>1, <2>2 DEF Explained, SessionsExplained
<1>5. \A n \in 1 .. Len(stores), i \in Ids : i \in stores'[n] <=> logins'[i] = {n}
  <2> SUFFICES ASSUME NEW n \in 1 .. Len(stores), NEW i \in Ids
               PROVE  i \in stores'[n] <=> logins'[i] = {n}
    OBVIOUS
  <2>1. i \in stores[n] <=> logins[i] = {n}
    BY <1>2 DEF Explained, SessionsExplained
  <2>2. logins[id] = {}
    BY DEF Login
  <2> QED
    BY <1>3, <1>4, <2>1, <2>2
<1>6. SessionsExplained'
  <2>1. \A i \in Ids : logins'[i] \subseteq 0 .. Len(stores)
    BY <1>2, <1>4 DEF Explained, SessionsExplained
  <2> QED
    BY <1>3, <1>4, <1>5, <2>1 DEF Explained, SessionsExplained, Login
<1> QED
  BY <1>3, <1>6 DEF Explained, Login

LEMMA LogoutExplained ==
    ASSUME Explained, NEW x \in Slots, NEW id \in Ids, Logout(x, id)
    PROVE  Explained'
<1>1. PICK o \in objects[x] :
        /\ o.kind = "handle"
        /\ stores' = Revoked(o.store, id)
        /\ logins' = [logins EXCEPT ![id] = @ \ {o.kin}]
  BY DEF Logout
<1>2. /\ o.kin \in 0 .. Len(stores) /\ o.store = {o.kin}
      /\ Len(stores) \in Nat /\ DOMAIN stores = 1 .. Len(stores)
  BY <1>1, KinStore
<1>3. /\ stores' \in Seq(SUBSET Ids)
      /\ Len(stores') = Len(stores)
      /\ DOMAIN stores' = 1 .. Len(stores)
      /\ \A n \in 1 .. Len(stores) :
           stores'[n] = IF n = o.kin THEN stores[n] \ {id} ELSE stores[n]
  BY <1>1, <1>2 DEF Revoked, Explained, SessionsExplained
<1>4. PICK k \in StoreNumbers : logins[id] = {k}
  BY DEF Logout, Explained, SessionsExplained, Optional
<1>5. /\ logins' \in [Ids -> Optional(StoreNumbers)]
      /\ \A i \in Ids : logins'[i] = IF i # id THEN logins[i]
                                    ELSE IF k = o.kin THEN {} ELSE {k}
  <2>1. {k} \ {o.kin} = IF k = o.kin THEN {} ELSE {k}
    OBVIOUS
  <2>2. {k} \ {o.kin} \in Optional(StoreNumbers)
    BY <2>1 DEF Optional
  <2> QED
    BY <1>1, <1>4, <2>1, <2>2 DEF Explained, SessionsExplained
<1>6. \A n \in 1 .. Len(stores), i \in Ids : i \in stores'[n] <=> logins'[i] = {n}
  <2> SUFFICES ASSUME NEW n \in 1 .. Len(stores), NEW i \in Ids
               PROVE  i \in stores'[n] <=> logins'[i] = {n}
    OBVIOUS
  <2>1. i \in stores[n] <=> logins[i] = {n}
    BY <1>2 DEF Explained, SessionsExplained
  <2>2. CASE i # id
    BY <1>3, <1>5, <2>1, <2>2
  <2>3. CASE i = id
    <3>1. id \in stores[n] <=> n = k
      BY <1>4, <2>1, <2>3
    <3>2. id \in stores'[n] <=> n = k /\ n # o.kin
      BY <1>3, <3>1
    <3>3. logins'[id] = {n} <=> n = k /\ n # o.kin
      BY <1>5
    <3> QED
      BY <2>3, <3>2, <3>3
  <2> QED
    BY <2>2, <2>3
<1>7. SessionsExplained'
  <2>1. \A i \in Ids : logins'[i] \subseteq 0 .. Len(stores)
    BY <1>4, <1>5 DEF Explained, SessionsExplained
  <2> QED
    BY <1>3, <1>5, <1>6, <2>1 DEF Explained, SessionsExplained, Logout
<1> QED
  BY <1>3, <1>7 DEF Explained, Logout

LEMMA RequestExplained ==
    ASSUME Explained, NEW x \in Slots, NEW id \in Ids, Request(x, id)
    PROVE  Explained'
BY DEF Request, Holds, Explained, SessionsExplained

-------------------------------------------------------------------------------

LEMMA InitExplained == Init => Explained
<1> SUFFICES ASSUME Init PROVE Explained
  OBVIOUS
<1>1. AllHolding(objects, Len(stores))
  BY NothingHeld DEF Init, AllHolding
<1>2. stores \in Seq(SUBSET Ids) /\ Len(stores) = 0 /\ DOMAIN stores = {}
  BY DEF Init
<1>3. logins \in [Ids -> Optional(StoreNumbers)]
  BY DEF Init, Optional
<1>4. \A id \in Ids : logins[id] \subseteq 0 .. Len(stores)
  BY DEF Init
<1>5. Len(stores) <= MaxStores
  BY <1>2
<1>6. restored \in BOOLEAN
  BY DEF Init
<1>7. SessionsExplained
  BY <1>2, <1>3, <1>4, <1>5, <1>6 DEF SessionsExplained
<1> QED
  BY <1>1, <1>7 DEF Explained

LEMMA StepExplained == Explained /\ [Next]_vars => Explained'
<1> SUFFICES ASSUME Explained, [Next]_vars PROVE Explained'
  OBVIOUS
<1>1. CASE UNCHANGED vars
  BY <1>1 DEF vars, Explained, SessionsExplained
<1>2. CASE Next
  <2>1. PICK x \in Slots :
          \/ NewStore(x) \/ NewLayer(x)
          \/ \E b \in Backends : WithBackend(x, b) \/ NewHandle(b, x)
          \/ WithNoopStore(x) \/ WithMemoryStore(x) \/ Drop(x)
          \/ \E y \in Slots :
               WithStore(x, y) \/ MakeService(x, y) \/ Extract(x, y) \/ Clone(x, y)
          \/ \E id \in Ids : Login(x, id) \/ Logout(x, id) \/ Request(x, id)
    BY <1>2 DEF Next
  <2>2. CASE NewStore(x) \/ NewLayer(x)
    BY <2>2, NewStoreExplained, NewLayerExplained
  <2>3. CASE \E b \in Backends : WithBackend(x, b) \/ NewHandle(b, x)
    BY <2>3, WithBackendExplained, NewHandleExplained
  <2>4. CASE WithNoopStore(x) \/ WithMemoryStore(x) \/ Drop(x)
    BY <2>4, WithNoopStoreExplained, WithMemoryStoreExplained, DropExplained
  <2>5. CASE \E y \in Slots :
               WithStore(x, y) \/ MakeService(x, y) \/ Extract(x, y) \/ Clone(x, y)
    BY <2>5, WithStoreExplained, MakeServiceExplained, ExtractExplained, CloneExplained
  <2>6. CASE \E id \in Ids : Login(x, id) \/ Logout(x, id) \/ Request(x, id)
    BY <2>6, LoginExplained, LogoutExplained, RequestExplained
  <2> QED
    BY <2>1, <2>2, <2>3, <2>4, <2>5, <2>6
<1> QED
  BY <1>1, <1>2

LEMMA AlwaysExplained == Spec => []Explained
BY InitExplained, StepExplained, PTL DEF Spec

\* The state stays well-typed: every service and every handle that the builder
\* ever makes has a backend and a store.
THEOREM TypeCorrect == Spec => []TypeOK
BY AlwaysExplained, Parts, PTL

\* Whatever shares a configured store refers to it, and that store keeps
\* exactly the sessions in force of its kin.
THEOREM KinCorrect == Spec => []KinExplained
BY AlwaysExplained, Parts, PTL

\* How one request is answered.
LEMMA RequestAnswered ==
    ASSUME Explained, NEW x \in Slots, NEW id \in Ids, Request(x, id)
    PROVE  restored' <=> \E o \in objects[x] : o.kin # 0 /\ o.kin \in logins[id]
<1>1. PICK o \in objects[x] : o.kind = "service" /\ restored' = Holds(o.store, id)
  BY DEF Request
<1>2. objects[x] = {o}
  BY DEF Explained, AllHolding, Holding
<1>3. /\ o.kin \in 0 .. Len(stores) /\ o.store = {o.kin}
      /\ Len(stores) \in Nat /\ DOMAIN stores = 1 .. Len(stores)
  BY <1>1, KinStore
<1>4. restored' <=> o.kin # 0 /\ id \in stores[o.kin]
  BY <1>1, <1>3 DEF Holds
<1>5. ASSUME o.kin # 0 PROVE id \in stores[o.kin] <=> o.kin \in logins[id]
  <2>1. id \in stores[o.kin] <=> logins[id] = {o.kin}
    BY <1>3, <1>5 DEF Explained, SessionsExplained
  <2>2. o.kin \in logins[id] => logins[id] = {o.kin}
    BY DEF Explained, SessionsExplained, Optional
  <2> QED
    BY <2>1, <2>2
<1> QED
  BY <1>2, <1>4, <1>5

\* A service restores the sessions in force that were opened by its kin, and
\* no others, however it and they were derived from the same layer.
THEOREM KinShare == Spec => KinShareSessions
<1>1. Explained /\ [Next]_vars =>
        [\A x \in Slots, id \in Ids :
           Request(x, id) =>
             (restored' <=> \E o \in objects[x] : o.kin # 0 /\ o.kin \in logins[id])]_vars
  BY RequestAnswered
<1> QED
  BY <1>1, AlwaysExplained, PTL DEF Spec, KinShareSessions

-------------------------------------------------------------------------------
(* The readiness protocol of the services, for   any number of connections,  *)
(* of requests in flight and of permits.  The permit that makes an instance  *)
(* ready is traced from the connection that reserved it into the future that *)
(* uses it up.                                                               *)

\* Connections, futures and the permits that they hold stay well-typed.
THEOREM ReadinessTypes == ReadinessSpec => []ReadinessTypeOK
<1>1. ReadinessInit => ReadinessTypeOK
  BY DEF ReadinessInit, ReadinessTypeOK, Stages
<1>2. ReadinessTypeOK /\ [ReadinessNext]_readinessVars => ReadinessTypeOK'
  <2> SUFFICES ASSUME ReadinessTypeOK, [ReadinessNext]_readinessVars
               PROVE  ReadinessTypeOK'
    OBVIOUS
  <2>1. ASSUME NEW c \in Connections, Arrive(c) \/ PollReady(c)
        PROVE  ReadinessTypeOK'
    BY <2>1 DEF Arrive, PollReady, ReadinessTypeOK
  <2>2. ASSUME NEW c \in Connections, NEW r \in Requests, Call(c, r)
        PROVE  ReadinessTypeOK'
    BY <2>2 DEF Call, ReadinessTypeOK, Stages
  <2>3. ASSUME NEW r \in Requests, Authorized(r) \/ NotAuthorized(r)
        PROVE  ReadinessTypeOK'
    BY <2>3 DEF Authorized, NotAuthorized, ReadinessTypeOK, Stages
  <2>4. ASSUME NEW r \in Requests, Complete(r) \/ Cancel(r) PROVE ReadinessTypeOK'
    BY <2>4 DEF Complete, Cancel, ReadinessTypeOK, Stages
  <2>5. CASE UNCHANGED readinessVars
    BY <2>5 DEF readinessVars, ReadinessTypeOK
  <2> QED
    BY <2>1, <2>2, <2>3, <2>4, <2>5 DEF ReadinessNext, Serve
<1> QED
  BY <1>1, <1>2, PTL DEF ReadinessSpec

\* A permit is held only on behalf of a request under way.
THEOREM PermitsDoReturn == ReadinessSpec => []PermitsReturn
<1>1. ReadinessInit => PermitsReturn
  BY DEF ReadinessInit, PermitsReturn
<1>2. ReadinessTypeOK /\ PermitsReturn /\ [ReadinessNext]_readinessVars
        => PermitsReturn'
  <2> SUFFICES ASSUME ReadinessTypeOK, PermitsReturn, [ReadinessNext]_readinessVars
               PROVE  PermitsReturn'
    OBVIOUS
  <2>1. ASSUME NEW c \in Connections, Arrive(c) \/ PollReady(c) PROVE PermitsReturn'
    BY <2>1 DEF Arrive, PollReady, ReadinessTypeOK, PermitsReturn
  <2>2. ASSUME NEW c \in Connections, NEW r \in Requests, Call(c, r)
        PROVE  PermitsReturn'
    BY <2>2 DEF Call, ReadinessTypeOK, PermitsReturn
  <2>3. ASSUME NEW r \in Requests, Authorized(r) \/ NotAuthorized(r)
        PROVE  PermitsReturn'
    BY <2>3 DEF Authorized, NotAuthorized, ReadinessTypeOK, PermitsReturn
  <2>4. ASSUME NEW r \in Requests, Complete(r) \/ Cancel(r) PROVE PermitsReturn'
    BY <2>4 DEF Complete, Cancel, ReadinessTypeOK, PermitsReturn
  <2>5. CASE UNCHANGED readinessVars
    BY <2>5 DEF readinessVars, PermitsReturn
  <2> QED
    BY <2>1, <2>2, <2>3, <2>4, <2>5 DEF ReadinessNext, Serve
<1> QED
  BY <1>1, <1>2, ReadinessTypes, PTL DEF ReadinessSpec

-------------------------------------------------------------------------------

\* CalledReady is not inductive: it rests on the permit that every future owns
\* while it restores its session.
RestoringReady == \A r \in Requests : future[r] = "restoring" => moved[r]

\* The inner service is only called through an instance that was polled ready.
THEOREM AlwaysCalledReady == ReadinessSpec => []CalledReady
<1> DEFINE IInv == CalledReady /\ RestoringReady
<1>1. ReadinessInit => IInv
  BY DEF ReadinessInit, CalledReady, RestoringReady
<1>2. ReadinessTypeOK /\ IInv /\ [ReadinessNext]_readinessVars => IInv'
  <2> SUFFICES ASSUME ReadinessTypeOK, IInv, [ReadinessNext]_readinessVars
               PROVE  IInv'
    OBVIOUS
  <2>1. ASSUME NEW c \in Connections, Arrive(c) \/ PollReady(c) PROVE IInv'
    BY <2>1 DEF Arrive, PollReady, CalledReady, RestoringReady
  <2>2. ASSUME NEW c \in Connections, NEW r \in Requests, Call(c, r) PROVE IInv'
    <3>1. moved' = [moved EXCEPT ![r] = TRUE]
      BY <2>2 DEF Call, ReadinessTypeOK
    <3> QED
      BY <2>2, <3>1 DEF Call, ReadinessTypeOK, CalledReady, RestoringReady
  <2>3. ASSUME NEW r \in Requests, Authorized(r) PROVE IInv'
    <3>1. moved[r]
      BY <2>3 DEF Authorized, RestoringReady
    <3>2. CalledReady'
      BY <2>3, <3>1 DEF Authorized, CalledReady
    <3>3. RestoringReady'
      BY <2>3 DEF Authorized, ReadinessTypeOK, RestoringReady
    <3> QED
      BY <3>2, <3>3
  <2>4. ASSUME NEW r \in Requests, NotAuthorized(r) PROVE IInv'
    BY <2>4 DEF NotAuthorized, ReadinessTypeOK, CalledReady, RestoringReady
  <2>5. ASSUME NEW r \in Requests, Complete(r) \/ Cancel(r) PROVE IInv'
    BY <2>5 DEF Complete, Cancel, ReadinessTypeOK, CalledReady, RestoringReady
  <2>6. CASE UNCHANGED readinessVars
    BY <2>6 DEF readinessVars, CalledReady, RestoringReady
  <2> QED
    BY <2>1, <2>2, <2>3, <2>4, <2>5, <2>6 DEF ReadinessNext, Serve
<1>3. IInv => CalledReady
  OBVIOUS
<1> QED
  BY <1>1, <1>2, <1>3, ReadinessTypes, PTL DEF ReadinessSpec

===============================================================================
