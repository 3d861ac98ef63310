-------------------------- MODULE LayerConfiguration --------------------------
(*****************************************************************************)
(* How a program configures ProvideAuthenticationLayer and what its parts    *)
(* share (authentication.rs, with NoopStore of store.rs): layers are built   *)
(* step by step, cloned and dropped, services are made from them, requests   *)
(* hand out Authentication handles, and all of them refer to stores through  *)
(* reference counts.  Whether a session is found again depends on which of   *)
(* these still refer to the same store, if to any that keeps sessions.       *)
(*                                                                           *)
(* An object is what a variable of the program holds.  Calls take effect at  *)
(* once here and session ids do not collide; Authentication has the rest.    *)
(*****************************************************************************)
EXTENDS Naturals, Sequences

CONSTANTS
    Slots,          \* variables of the program
    Backends,
    Ids,
    MaxStores       \* bound on the stores that are ever created

ASSUME StoresBound == MaxStores \in Nat

VARIABLES
    objects,        \* what each slot holds, if anything
    stores,         \* the sessions in each MemoryStore created so far
    logins,         \* history: for each session in force, the kin it belongs to
    restored        \* whether the last request was given a session

vars == <<objects, stores, logins, restored>>

Kinds == {"store", "layer", "service", "handle"}

\* A store is referred to by its number; NoopStore has no identity.
Noop == 0

StoreNumbers == 0 .. MaxStores

Optional(S) == {{}} \cup {{x} : x \in S}

\* `kin` is history: 0 for those without a store that keeps sessions, and
\* otherwise told apart by the call that introduced their store.
Object == [kind: Kinds, backend: Optional(Backends), store: Optional(StoreNumbers),
           kin: StoreNumbers]

\* A service and its handles always have a backend and a store.
TypeOK ==
    /\ objects \in [Slots -> SUBSET Object]
    /\ \A x \in Slots : \A o \in objects[x] :
         o.kind \in {"service", "handle"} => o.backend # {} /\ o.store # {}
    /\ stores \in Seq(SUBSET Ids)
    /\ Len(stores) <= MaxStores
    /\ logins \in [Ids -> Optional(StoreNumbers)]
    /\ restored \in BOOLEAN

Init ==
    /\ objects = [x \in Slots |-> {}]
    /\ stores = <<>>
    /\ logins = [id \in Ids |-> {}]
    /\ restored = FALSE

Put(x, o) == objects' = [objects EXCEPT ![x] = {o}]

\* The object o in slot x gives way to its successor.
Becomes(x, o, changed) ==
    /\ o \in objects[x]
    /\ o.kind = "layer"
    /\ Put(x, changed)

-------------------------------------------------------------------------------
(* Building.                                                                 *)

\* MemoryStore::new, in a variable of the program.
NewStore(x) ==
    /\ objects[x] = {}
    /\ Len(stores) < MaxStores
    /\ stores' = Append(stores, {})
    /\ Put(x, [kind |-> "store", backend |-> {}, store |-> {Len(stores')},
               kin |-> Len(stores')])
    /\ UNCHANGED <<logins, restored>>

\* ProvideAuthenticationLayer::new
NewLayer(x) ==
    /\ objects[x] = {}
    /\ Put(x, [kind |-> "layer", backend |-> {}, store |-> {}, kin |-> 0])
    /\ UNCHANGED <<stores, logins, restored>>

\* Mutant of WithBackend: the layer is built anew.
WithBackendOnly(x, b) ==
    /\ \E o \in objects[x] :
         Becomes(x, o, [o EXCEPT !.backend = {b}, !.store = {}])
    /\ UNCHANGED <<stores, logins, restored>>

\* with_backend: the store stays as it was configured.
WithBackend(x, b) ==
    /\ \E o \in objects[x] : Becomes(x, o, [o EXCEPT !.backend = {b}])
    /\ UNCHANGED <<stores, logins, restored>>

\* with_store: the store moves from its variable into the layer.
WithStore(x, y) ==
    /\ \E o \in objects[x], s \in objects[y] :
         /\ o.kind = "layer" /\ s.kind = "store"
         /\ objects' = [objects EXCEPT
                ![x] = {[o EXCEPT !.store = s.store, !.kin = s.kin]}, ![y] = {}]
    /\ UNCHANGED <<stores, logins, restored>>

\* with_noop_store, for a layer that has a backend
WithNoopStore(x) ==
    /\ \E o \in objects[x] :
         /\ o.backend # {}
         /\ Becomes(x, o, [o EXCEPT !.store = {Noop}, !.kin = 0])
    /\ UNCHANGED <<stores, logins, restored>>

\* with_memory_store, for a layer that has a backend
WithMemoryStore(x) ==
    /\ Len(stores) < MaxStores
    /\ stores' = Append(stores, {})
    /\ \E o \in objects[x] :
         /\ o.backend # {}
         /\ Becomes(x, o, [o EXCEPT !.store = {Len(stores')}, !.kin = Len(stores')])
    /\ UNCHANGED <<logins, restored>>

\* Mutant of MakeService: the service takes the layer's store as it is.
MakeServiceBare(x, y) ==
    /\ objects[y] = {}
    /\ \E o \in objects[x] :
         /\ o.kind = "layer"
         /\ o.backend # {}
         /\ Put(y, [o EXCEPT !.kind = "service"])
    /\ UNCHANGED <<stores, logins, restored>>

\* Layer::layer, for a layer that has a backend: one without a store gives its
\* service a NoopStore.
MakeService(x, y) ==
    /\ objects[y] = {}
    /\ \E o \in objects[x] :
         /\ o.kind = "layer"
         /\ o.backend # {}
         /\ Put(y, [o EXCEPT !.kind = "service",
                             !.store = IF o.store = {} THEN {Noop} ELSE o.store])
    /\ UNCHANGED <<stores, logins, restored>>

\* Authentication::new, from a backend and a store of the program's.
NewHandle(b, y) ==
    /\ \E s \in objects[y] :
         /\ s.kind = "store"
         /\ Put(y, [s EXCEPT !.kind = "handle", !.backend = {b}])
    /\ UNCHANGED <<stores, logins, restored>>

\* The handle that a service puts into each request, and the extractor clones.
Extract(x, y) ==
    /\ objects[y] = {}
    /\ \E o \in objects[x] : o.kind = "service" /\ Put(y, [o EXCEPT !.kind = "handle"])
    /\ UNCHANGED <<stores, logins, restored>>

\* clone, of any of them: the copy refers to the same store.
Clone(x, y) ==
    /\ objects[y] = {}
    /\ \E o \in objects[x] : Put(y, o)
    /\ UNCHANGED <<stores, logins, restored>>

Drop(x) ==
    /\ objects[x] # {}
    /\ objects' = [objects EXCEPT ![x] = {}]
    /\ UNCHANGED <<stores, logins, restored>>

-------------------------------------------------------------------------------
(* Using.                                                                    *)

\* Mutant of Holds: NoopStore answers get as if it had kept the session.
HoldsAny(store, id) ==
    \E n \in store : n = Noop \/ id \in stores[n]

\* get: NoopStore has nothing.
Holds(store, id) ==
    \E n \in store : n # Noop /\ id \in stores[n]

\* The stores after create and after revoke: NoopStore accepts both and keeps
\* nothing.
Created(store, id) ==
    [n \in DOMAIN stores |-> IF n \in store THEN stores[n] \cup {id} ELSE stores[n]]

\* Mutant of Revoked: the session is removed only if it is the only one.
RevokedAlone(store, id) ==
    [n \in DOMAIN stores |->
        IF n \in store /\ stores[n] \subseteq {id} THEN {} ELSE stores[n]]

Revoked(store, id) ==
    [n \in DOMAIN stores |-> IF n \in store THEN stores[n] \ {id} ELSE stores[n]]

\* login through a handle, under an id that nobody has.
Login(x, id) ==
    /\ logins[id] = {}
    /\ \E o \in objects[x] :
         /\ o.kind = "handle"
         /\ stores' = Created(o.store, id)
         /\ logins' = [logins EXCEPT ![id] = {o.kin}]
    /\ UNCHANGED <<objects, restored>>

\* logout through a handle, of a session that may come from any other.
Logout(x, id) ==
    /\ logins[id] # {}
    /\ \E o \in objects[x] :
         /\ o.kind = "handle"
         /\ stores' = Revoked(o.store, id)
         /\ logins' = [logins EXCEPT ![id] = @ \ {o.kin}]
    /\ UNCHANGED <<objects, restored>>

\* A request with the cookie of a session: is the session restored?
Request(x, id) ==
    /\ \E o \in objects[x] :
         /\ o.kind = "service"
         /\ restored' = Holds(o.store, id)
    /\ UNCHANGED <<objects, stores, logins>>

Next ==
    \/ \E x \in Slots :
         \/ NewStore(x) \/ NewLayer(x)
         \/ \E b \in Backends : WithBackend(x, b) \/ NewHandle(b, x)
         \/ WithNoopStore(x) \/ WithMemoryStore(x) \/ Drop(x)
         \/ \E y \in Slots :
              WithStore(x, y) \/ MakeService(x, y) \/ Extract(x, y) \/ Clone(x, y)
         \/ \E id \in Ids : Login(x, id) \/ Logout(x, id) \/ Request(x, id)

Spec == Init /\ [][Next]_vars

-------------------------------------------------------------------------------

\* Whatever shares a configured store refers to that store, or to none yet if
\* nothing was configured, and each store keeps the sessions in force that its
\* kin opened: one that any of them revoked is in no store, and one that was
\* opened over NoopStore never was.  This is what KinShareSessions rests on.
KinExplained ==
    /\ \A x \in Slots : \A o \in objects[x] :
         /\ objects[x] = {o}
         /\ o.kin <= Len(stores)
         /\ o.store \subseteq {o.kin}
         /\ o.kin # 0 => o.store # {}
         /\ o.kind = "store" => o.kin # 0
    /\ \A id \in Ids : logins[id] \subseteq 0 .. Len(stores)
    /\ \A n \in DOMAIN stores, id \in Ids : id \in stores[n] <=> logins[id] = {n}

\* A service restores the sessions in force that were opened by its kin, and
\* no others: by whatever was derived, through any chain of with_backend,
\* layer, extractions and clones, from the same configured store, although
\* what it was derived from may be gone.  Services without a store, the
\* default, restore nothing, not even what their own handles opened.
KinShareSessions ==
    [][\A x \in Slots, id \in Ids :
         Request(x, id) =>
             (restored' <=> \E o \in objects[x] : o.kin # 0 /\ o.kin \in logins[id])]_vars

=============================================================================
