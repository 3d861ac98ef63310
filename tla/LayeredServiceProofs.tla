-------------------------- MODULE LayeredServiceProofs --------------------------
(*****************************************************************************)
(* Services put together from any number of layers, with any authorizers,    *)
(* routes and user types.  First, a route carries the guards that it is      *)
(* owed, in whatever order they were put around it; then, a request that has *)
(* come to some depth has passed all the guards above it, and the session    *)
(* that let it through is still in its extensions.                           *)
(*****************************************************************************)
EXTENDS LayeredService, SequenceTheorems, TLAPS

-------------------------------------------------------------------------------
(* Sequences of layers.                                                      *)

LEMMA GuardsConcat ==
    ASSUME NEW s \in Seq(Layers), NEW t \in Seq(Layers)
    PROVE  /\ s \o t \in Seq(Layers)
           /\ Guards(s \o t) = Guards(s) \cup Guards(t)
<1>1. /\ s \o t \in Seq(Layers)
      /\ Len(s \o t) = Len(s) + Len(t)
      /\ \A i \in 1 .. Len(s) + Len(t) :
           (s \o t)[i] = IF i <= Len(s) THEN s[i] ELSE t[i - Len(s)]
  BY ConcatProperties
<1>2. /\ Len(s) \in Nat /\ DOMAIN s = 1 .. Len(s)
      /\ Len(t) \in Nat /\ DOMAIN t = 1 .. Len(t)
      /\ DOMAIN (s \o t) = 1 .. Len(s \o t)
  BY <1>1, LenProperties
<1>3. ToSet(s \o t) \subseteq ToSet(s) \cup ToSet(t)
  BY <1>1, <1>2 DEF ToSet
<1>4. ToSet(s) \subseteq ToSet(s \o t)
  BY <1>1, <1>2 DEF ToSet
<1>5. ToSet(t) \subseteq ToSet(s \o t)
  <2> SUFFICES ASSUME NEW i \in 1 .. Len(t) PROVE t[i] \in ToSet(s \o t)
    BY <1>2 DEF ToSet
  <2>1. (s \o t)[i + Len(s)] = t[i] /\ i + Len(s) \in 1 .. Len(s \o t)
    BY <1>1, <1>2
  <2> QED
    BY <1>2, <2>1 DEF ToSet
<1> QED
  BY <1>1, <1>3, <1>4, <1>5 DEF Guards

LEMMA GuardsTyped ==
    ASSUME NEW s \in Seq(Layers)
    PROVE  Guards(s) \subseteq Layers
BY LenProperties, ElementOfSeq DEF Guards, ToSet

LEMMA SingleLayer ==
    ASSUME NEW l \in Layers
    PROVE  <<l>> \in Seq(Layers)
OBVIOUS

\* The innermost context gives way to one of the same type.
LEMMA Replaced ==
    ASSUME NEW S, NEW s \in Seq(S), s # <<>>, NEW e \in S
    PROVE  /\ Last(s) \in S
           /\ Append(Front(s), e) \in Seq(S)
           /\ Append(Front(s), e) # <<>>
           /\ Last(Append(Front(s), e)) = e
<1>1. Len(s) \in Nat \ {0}
  BY EmptySeq
<1>2. \A i \in 1 .. Len(s) : s[i] \in S
  BY ElementOfSeq
<1>3. Front(s) \in Seq(S)
  BY <1>1, <1>2, SubSeqProperties DEF Front
<1> QED
  BY <1>1, <1>2, <1>3, AppendProperties DEF Last

-------------------------------------------------------------------------------
(* Types.                                                                    *)

LEMMA WrapTyped ==
    ASSUME TypeOK, NEW layers \in Seq(Layers), Wrap(layers)
    PROVE  routes' \in [Paths -> SUBSET Seq(Layers)] /\ owed' \in [Paths -> SUBSET Layers]
<1>1. ASSUME NEW p \in Paths
      PROVE  {layers \o inner : inner \in routes[p]} \in SUBSET Seq(Layers)
  <2>1. routes[p] \in SUBSET Seq(Layers)
    BY DEF TypeOK
  <2> QED
    BY <2>1, GuardsConcat
<1>2. ASSUME NEW p \in Paths
      PROVE  owed[p] \cup UNION {Guards(layers) : inner \in routes[p]} \in SUBSET Layers
  <2>1. owed[p] \in SUBSET Layers
    BY DEF TypeOK
  <2> QED
    BY <2>1, GuardsTyped
<1> QED
  BY <1>1, <1>2 DEF Wrap

LEMMA AssembleTyped ==
    ASSUME TypeOK, Assemble
    PROVE  TypeOK'
<1>1. ASSUME NEW l \in Layers, LayerBuilder(l) PROVE TypeOK'
  BY <1>1, AppendProperties DEF LayerBuilder, TypeOK, request
<1>2. ASSUME NEW l \in Layers, LayerMethodRouter(l) PROVE TypeOK'
  BY <1>2, SingleLayer, GuardsConcat DEF LayerMethodRouter, TypeOK, request
<1>3. ASSUME NEW l \in Layers, LayerRouter(l) PROVE TypeOK'
  BY <1>3, SingleLayer, WrapTyped DEF LayerRouter, TypeOK, request
<1>4. ASSUME NEW p \in Paths, AddRoute(p) PROVE TypeOK'
  BY <1>4, GuardsTyped DEF AddRoute, TypeOK, request
<1>5. CASE ApplyBuilder
  BY <1>5, WrapTyped DEF ApplyBuilder, TypeOK, request
<1> QED
  BY <1>1, <1>2, <1>3, <1>4, <1>5 DEF Assemble

LEMMA EnterTyped ==
    ASSUME TypeOK, NEW h \in Authentications, EnterProvide(h)
    PROVE  TypeOK'
<1>1. PICK restored \in {{}} \cup {{Restored(s)} : s \in Scopes} :
        /\ extensions' = IF restored = {} THEN extensions
                         ELSE [extensions EXCEPT ![h.type] = restored]
        /\ contexts' = Append(contexts, [NoSessions EXCEPT ![h.type] = restored])
  BY DEF EnterProvide
<1>2. restored \subseteq Session
  BY <1>1 DEF Restored, Session, TypeOK
<1>3. extensions' \in [UserTypes -> SUBSET Session]
  BY <1>1, <1>2 DEF TypeOK
<1>4. [NoSessions EXCEPT ![h.type] = restored] \in [UserTypes -> SUBSET Session]
  BY <1>2 DEF NoSessions
<1>5. contexts' \in Seq([UserTypes -> SUBSET Session]) /\ contexts' # <<>>
  <2> DEFINE C == [UserTypes -> SUBSET Session]
             e == [NoSessions EXCEPT ![h.type] = restored]
  <2>1. contexts \in Seq(C) /\ e \in C /\ contexts' = Append(contexts, e)
    BY <1>1, <1>4 DEF TypeOK
  <2> HIDE DEF C, e
  <2>2. contexts' \in Seq(C) /\ contexts' # <<>>
    BY <2>1, AppendProperties
  <2> QED
    BY <2>2 DEF C
<1> QED
  BY <1>3, <1>5 DEF EnterProvide, TypeOK, assembly

LEMMA HandlerTyped ==
    ASSUME TypeOK, NEW h \in Authentications, Login(h) \/ Logout(h)
    PROVE  TypeOK'
<1>1. PICK value \in SUBSET Session : Current([type |-> h.type, value |-> value])
  <2>1. CASE Login(h)
    <3>1. PICK s \in Scopes :
            Current([type |-> h.type,
                     value |-> {[scope |-> s, made |-> "login", at |-> depth]}])
      BY <2>1 DEF Login
    <3>2. {[scope |-> s, made |-> "login", at |-> depth]} \in SUBSET Session
      BY DEF Session, TypeOK
    <3> QED
      BY <3>1, <3>2
  <2>2. CASE Logout(h)
    BY <2>2 DEF Logout
  <2> QED
    BY <2>1, <2>2
<1>2. contexts # <<>>
  BY DEF Login, Logout, TypeOK
<1>3. Last(contexts) \in [UserTypes -> SUBSET Session]
  BY <1>2, Replaced DEF TypeOK
<1>4. [Last(contexts) EXCEPT ![h.type] = value] \in [UserTypes -> SUBSET Session]
  BY <1>3
<1>5. contexts' \in Seq([UserTypes -> SUBSET Session]) /\ contexts' # <<>>
  <2> DEFINE C == [UserTypes -> SUBSET Session]
             e == [Last(contexts) EXCEPT ![h.type] = value]
  <2>1. contexts \in Seq(C) /\ e \in C /\ contexts' = Append(Front(contexts), e)
    BY <1>1, <1>4 DEF TypeOK, Current
  <2> HIDE DEF C, e
  <2>2. contexts' \in Seq(C) /\ contexts' # <<>>
    BY <1>2, <2>1, Replaced
  <2> QED
    BY <2>2 DEF C
<1> QED
  BY <1>5 DEF Login, Logout, TypeOK, assembly

LEMMA TraverseTyped ==
    ASSUME TypeOK, Traverse
    PROVE  TypeOK'
<1>1. ASSUME NEW p \in Paths, Receive(p) PROVE TypeOK'
  BY <1>1, EmptySeq DEF Receive, TypeOK, NoSessions, Stages, assembly
<1>2. ASSUME NEW t \in UserTypes, NEW a \in Authorizers, Authorized(t, a) \/ NotAuthorized(t, a)
      PROVE  TypeOK'
  BY <1>2 DEF Authorized, NotAuthorized, TypeOK, Stages, assembly, request
<1>3. ASSUME NEW t \in UserTypes, SessionMissing(t) PROVE TypeOK'
  BY <1>3 DEF SessionMissing, TypeOK, Stages, assembly
<1>4. ASSUME NEW h \in Authentications, AuthenticationMissing(h) PROVE TypeOK'
  BY <1>4 DEF AuthenticationMissing, TypeOK, Stages, assembly
<1>5. CASE CallHandler \/ Respond
  BY <1>5 DEF CallHandler, Respond, TypeOK, Stages, assembly, request
<1> QED
  BY <1>1, <1>2, <1>3, <1>4, <1>5, EnterTyped, HandlerTyped DEF Traverse

\* Programs that put layers together, and the requests that go through these,
\* stay well-typed.
THEOREM TypeCorrect == Spec => []TypeOK
<1>1. Init => TypeOK
  BY EmptySeq DEF Init, TypeOK, NoSessions, Stages
<1>2. TypeOK /\ [Next]_vars => TypeOK'
  <2>1. TypeOK /\ UNCHANGED vars => TypeOK'
    BY DEF TypeOK, vars, assembly, request
  <2> QED
    BY <2>1, AssembleTyped, TraverseTyped DEF Next
<1> QED
  BY <1>1, <1>2, PTL DEF Spec

-------------------------------------------------------------------------------
(* Routes.                                                                   *)

LEMMA WrapCarries ==
    ASSUME TypeOK, RoutesCarryGuards, NEW layers \in Seq(Layers), Wrap(layers)
    PROVE  RoutesCarryGuards'
<1>0. ASSUME NEW p \in Paths, routes'[p] = {} PROVE owed'[p] = {}
  <2>1. \A inner \in routes[p] : layers \o inner \in routes'[p]
    BY DEF Wrap
  <2>2. routes[p] = {}
    BY <1>0, <2>1
  <2>3. owed'[p] = owed[p]
    BY <2>2 DEF Wrap
  <2> QED
    BY <2>2, <2>3 DEF RoutesCarryGuards
<1> SUFFICES ASSUME NEW p \in Paths, NEW outer \in routes'[p]
             PROVE  owed'[p] \subseteq Guards(outer) /\ routes'[p] = {outer}
  BY <1>0 DEF RoutesCarryGuards, Guards
<1>1. PICK inner \in routes[p] : outer = layers \o inner
  BY DEF Wrap
<1>2. owed[p] \subseteq Guards(inner) /\ routes[p] = {inner} /\ inner \in Seq(Layers)
  BY DEF RoutesCarryGuards, TypeOK
<1>3. Guards(outer) = Guards(layers) \cup Guards(inner)
  BY <1>1, <1>2, GuardsConcat
<1>4. owed'[p] = owed[p] \cup Guards(layers)
  BY <1>2 DEF Wrap
<1>5. routes'[p] = {outer}
  BY <1>1, <1>2 DEF Wrap
<1> QED
  BY <1>2, <1>3, <1>4, <1>5

\* However it was put together, a route carries every guard that was put
\* around it.
THEOREM Carried == Spec => []RoutesCarryGuards
<1>1. Init => RoutesCarryGuards
  BY DEF Init, RoutesCarryGuards
<1>2. TypeOK /\ RoutesCarryGuards /\ [Next]_vars => RoutesCarryGuards'
  <2> SUFFICES ASSUME TypeOK, RoutesCarryGuards, [Next]_vars PROVE RoutesCarryGuards'
    OBVIOUS
  <2>1. ASSUME UNCHANGED <<routes, owed>> PROVE RoutesCarryGuards'
    BY <2>1 DEF RoutesCarryGuards, Guards
  <2>2. ASSUME NEW l \in Layers, LayerRouter(l) PROVE RoutesCarryGuards'
    BY <2>2, SingleLayer, WrapCarries DEF LayerRouter
  <2>3. CASE ApplyBuilder
    BY <2>3, WrapCarries DEF ApplyBuilder, TypeOK
  <2>4. ASSUME NEW p \in Paths, AddRoute(p) PROVE RoutesCarryGuards'
    BY <2>4 DEF AddRoute, RoutesCarryGuards, TypeOK, Guards
  <2>5. ASSUME NEW l \in Layers, LayerBuilder(l) \/ LayerMethodRouter(l)
        PROVE  RoutesCarryGuards'
    BY <2>1, <2>5 DEF LayerBuilder, LayerMethodRouter
  <2>6. CASE Traverse \/ UNCHANGED vars
    BY <2>1, <2>6
    DEF Traverse, Receive, EnterProvide, Authorized, NotAuthorized, Login, Logout,
        SessionMissing, AuthenticationMissing, CallHandler, Respond, vars, assembly
  <2> QED
    BY <2>2, <2>3, <2>4, <2>5, <2>6 DEF Next, Assemble
<1> QED
  BY <1>1, <1>2, TypeCorrect, PTL DEF Spec

-------------------------------------------------------------------------------
(* The layers that a request has entered.                                    *)

\* What LayersEntered says of one stack of layers.
EnteredBy(layers) ==
    /\ \A i \in 1 .. depth : layers[i].kind = "provide" => layers[i].handle \in handles
    /\ \A t \in UserTypes :
         extensions[t] # {} => \E i \in 1 .. depth : Provides(layers[i], t)
    /\ \A j \in 1 .. depth :
         layers[j].kind = "require" =>
             \E i \in 1 .. j - 1 : Provides(layers[i], layers[j].type)

\* An authentication layer leaves its handle, and maybe a session of its type.
LEMMA EnterEnters ==
    ASSUME TypeOK, RoutesCarryGuards, LayersEntered, NEW h \in Authentications,
           EnterProvide(h)
    PROVE  LayersEntered'
<1> SUFFICES ASSUME NEW layers \in routes'[path'] PROVE EnteredBy(layers)'
  BY DEF LayersEntered, EnteredBy
<1>1. /\ stage = "layers" /\ depth' = depth + 1 /\ depth \in Nat
      /\ layers \in routes[path] /\ routes[path] = {layers} /\ layers[depth + 1] = Provide(h)
  BY DEF EnterProvide, Meets, RoutesCarryGuards, TypeOK, assembly
<1>2. EnteredBy(layers)
  BY <1>1 DEF LayersEntered, EnteredBy
<1>3. ASSUME NEW i \in 1 .. depth', layers[i].kind = "provide"
      PROVE  layers[i].handle \in handles'
  <2>1. CASE i = depth + 1
    BY <1>1, <2>1 DEF EnterProvide, Provide
  <2>2. CASE i # depth + 1
    BY <1>1, <1>2, <1>3, <2>2 DEF EnterProvide, EnteredBy
  <2> QED
    BY <2>1, <2>2
<1>4. ASSUME NEW t \in UserTypes, extensions'[t] # {}
      PROVE  \E i \in 1 .. depth' : Provides(layers[i], t)
  <2>1. CASE t = h.type
    BY <1>1, <2>1 DEF Provides, Provide
  <2>2. CASE t # h.type
    <3>1. extensions[t] # {}
      BY <1>4, <2>2 DEF EnterProvide, TypeOK
    <3>2. PICK i \in 1 .. depth : Provides(layers[i], t)
      BY <1>2, <3>1 DEF EnteredBy
    <3> QED
      BY <1>1, <3>2
  <2> QED
    BY <2>1, <2>2
<1>5. ASSUME NEW j \in 1 .. depth', layers[j].kind = "require"
      PROVE  \E i \in 1 .. j - 1 : Provides(layers[i], layers[j].type)
  <2>1. j # depth + 1
    BY <1>1, <1>5 DEF Provide
  <2> QED
    BY <1>1, <1>2, <1>5, <2>1 DEF EnteredBy
<1> QED
  BY <1>3, <1>4, <1>5 DEF EnteredBy

\* A guard only lets a request through that has a session, and so a layer of
\* the session's type behind it.
LEMMA AuthorizedEnters ==
    ASSUME TypeOK, RoutesCarryGuards, LayersEntered,
           NEW t \in UserTypes, NEW a \in Authorizers, Authorized(t, a)
    PROVE  LayersEntered'
<1> SUFFICES ASSUME NEW layers \in routes'[path'] PROVE EnteredBy(layers)'
  BY DEF LayersEntered, EnteredBy
<1>1. /\ stage = "layers" /\ depth' = depth + 1 /\ depth \in Nat
      /\ UNCHANGED <<extensions, handles>>
      /\ layers \in routes[path] /\ routes[path] = {layers}
      /\ layers[depth + 1] = Require(t, a)
  BY DEF Authorized, Meets, RoutesCarryGuards, TypeOK, assembly
<1>2. EnteredBy(layers)
  BY <1>1 DEF LayersEntered, EnteredBy
<1>3. layers[depth + 1].kind = "require" /\ layers[depth + 1].type = t
  BY <1>1 DEF Require
<1>4. PICK k \in 1 .. depth : Provides(layers[k], t)
  BY <1>2 DEF Authorized, EnteredBy
<1>5. ASSUME NEW i \in 1 .. depth', layers[i].kind = "provide"
      PROVE  layers[i].handle \in handles'
  <2>1. i # depth + 1
    BY <1>3, <1>5
  <2> QED
    BY <1>1, <1>2, <1>5, <2>1 DEF EnteredBy
<1>6. ASSUME NEW u \in UserTypes, extensions'[u] # {}
      PROVE  \E i \in 1 .. depth' : Provides(layers[i], u)
  <2>1. PICK i \in 1 .. depth : Provides(layers[i], u)
    BY <1>1, <1>2, <1>6 DEF EnteredBy
  <2> QED
    BY <1>1, <2>1
<1>7. ASSUME NEW j \in 1 .. depth', layers[j].kind = "require"
      PROVE  \E i \in 1 .. j - 1 : Provides(layers[i], layers[j].type)
  <2>1. CASE j = depth + 1
    BY <1>1, <1>3, <1>4, <2>1
  <2>2. CASE j # depth + 1
    BY <1>1, <1>2, <1>7, <2>2 DEF EnteredBy
  <2> QED
    BY <2>1, <2>2
<1> QED
  BY <1>5, <1>6, <1>7 DEF EnteredBy

\* Sessions and handles come from the layers that the request has entered.
THEOREM AlwaysEntered == Spec => []LayersEntered
<1>1. Init => LayersEntered
  BY DEF Init, LayersEntered
<1>2. TypeOK /\ RoutesCarryGuards /\ LayersEntered /\ [Next]_vars => LayersEntered'
  <2> SUFFICES ASSUME TypeOK, RoutesCarryGuards, LayersEntered, [Next]_vars
               PROVE  LayersEntered'
    OBVIOUS
  <2>1. ASSUME UNCHANGED <<routes, path, stage, depth, extensions, handles>>
        PROVE  LayersEntered'
    BY <2>1 DEF LayersEntered
  <2>2. ASSUME stage' \notin {"layers", "handler"} PROVE LayersEntered'
    BY <2>2 DEF LayersEntered
  <2>3. CASE Assemble
    <3>1. stage' = "assembly"
      BY <2>3 DEF Assemble, LayerBuilder, LayerMethodRouter, LayerRouter, MayLayer,
                  AddRoute, ApplyBuilder
    <3> QED
      BY <2>2, <3>1
  <2>4. ASSUME NEW p \in Paths, Receive(p) PROVE LayersEntered'
    BY <2>4 DEF Receive, NoSessions, LayersEntered
  <2>5. ASSUME NEW h \in Authentications, Login(h) \/ Logout(h) PROVE LayersEntered'
    BY <2>1, <2>5 DEF Login, Logout, assembly
  <2>6. CASE CallHandler
    BY <2>6 DEF CallHandler, LayersEntered, assembly, request
  <2>7. ASSUME \/ \E t \in UserTypes, a \in Authorizers : NotAuthorized(t, a)
               \/ \E t \in UserTypes : SessionMissing(t)
               \/ \E h \in Authentications : AuthenticationMissing(h)
               \/ Respond
        PROVE  LayersEntered'
    BY <2>2, <2>7 DEF NotAuthorized, SessionMissing, AuthenticationMissing, Respond
  <2>8. CASE UNCHANGED vars
    BY <2>1, <2>8 DEF vars, assembly, request
  <2> QED
    BY <2>3, <2>4, <2>5, <2>6, <2>7, <2>8, EnterEnters, AuthorizedEnters
    DEF Next, Traverse
<1> QED
  BY <1>1, <1>2, TypeCorrect, Carried, PTL DEF Spec

-------------------------------------------------------------------------------
(* Requests.                                                                 *)

\* What GuardsPassed says of one stack of layers.
PassedBy(layers) ==
    /\ depth <= Len(layers)
    /\ \A i \in 1 .. depth : layers[i].kind = "require" => Passed(layers[i])
    /\ stage = "handler" => depth = Len(layers)

\* Entering a layer of the same user type leaves the guards passed behind it:
\* a guard above that layer promises no session in particular.
LEMMA EnterPasses ==
    ASSUME TypeOK, RoutesCarryGuards, GuardsPassed, NEW h \in Authentications,
           EnterProvide(h)
    PROVE  GuardsPassed'
<1> DEFINE t == h.type
<1> SUFFICES ASSUME NEW layers \in routes'[path'] PROVE PassedBy(layers)'
  BY DEF GuardsPassed, PassedBy
<1>1. /\ stage = "layers" /\ UNCHANGED <<routes, path, stage>> /\ depth' = depth + 1
      /\ layers \in routes[path]
  BY DEF EnterProvide, Meets, assembly
<1>2. /\ depth < Len(layers) /\ layers[depth + 1] = Provide(h)
      /\ layers \in Seq(Layers) /\ Len(layers) \in Nat /\ depth \in Nat
      /\ DOMAIN layers = 1 .. Len(layers)
      /\ routes[path] = {layers}
  BY <1>1, LenProperties DEF EnterProvide, Meets, RoutesCarryGuards, TypeOK
<1>3. ASSUME NEW i \in 1 .. depth', layers[i].kind = "require" PROVE Passed(layers[i])'
  <2>1. i # depth + 1
    BY <1>2, <1>3 DEF Provide
  <2>2. i \in 1 .. depth
    BY <1>1, <1>2, <2>1
  <2>3. Passed(layers[i])
    BY <1>1, <1>3, <2>2 DEF GuardsPassed
  <2>4. CASE layers[i].type = t
    <3>1. ~InnermostProvider(t)'
      BY <1>1, <1>2, <2>2, <2>4 DEF InnermostProvider, Provides, Provide
    <3>2. extensions'[t] # {}
      BY <2>3, <2>4 DEF EnterProvide, Passed, TypeOK
    <3> QED
      BY <2>4, <3>1, <3>2 DEF Passed
  <2>5. CASE layers[i].type # t
    <3>1. extensions'[layers[i].type] = extensions[layers[i].type]
      BY <2>5 DEF EnterProvide, TypeOK
    <3> QED
      BY <1>1, <2>3, <3>1 DEF Passed, InnermostProvider
  <2> QED
    BY <2>4, <2>5
<1> QED
  BY <1>1, <1>2, <1>3 DEF PassedBy

LEMMA AuthorizedPasses ==
    ASSUME TypeOK, RoutesCarryGuards, GuardsPassed,
           NEW t \in UserTypes, NEW a \in Authorizers, Authorized(t, a)
    PROVE  GuardsPassed'
<1> SUFFICES ASSUME NEW layers \in routes'[path'] PROVE PassedBy(layers)'
  BY DEF GuardsPassed, PassedBy
<1>1. /\ stage = "layers" /\ UNCHANGED <<routes, path, stage, extensions>>
      /\ depth' = depth + 1 /\ layers \in routes[path]
  BY DEF Authorized, Meets, assembly
<1>2. /\ depth < Len(layers) /\ layers[depth + 1] = Require(t, a)
      /\ Len(layers) \in Nat /\ depth \in Nat
  BY <1>1, LenProperties DEF Authorized, Meets, RoutesCarryGuards, TypeOK
<1>3. ASSUME NEW i \in 1 .. depth', layers[i].kind = "require" PROVE Passed(layers[i])
  <2>1. CASE i = depth + 1
    BY <1>2, <2>1 DEF Authorized, Require, Passed
  <2>2. CASE i # depth + 1
    BY <1>1, <1>2, <1>3, <2>2 DEF GuardsPassed
  <2> QED
    BY <2>1, <2>2
<1> QED
  BY <1>1, <1>2, <1>3 DEF PassedBy, Passed, InnermostProvider

\* A request that has come to some depth has passed the guards above it.
THEOREM AlwaysPassed == Spec => []GuardsPassed
<1>1. Init => GuardsPassed
  BY DEF Init, GuardsPassed
<1>2. TypeOK /\ RoutesCarryGuards /\ GuardsPassed /\ [Next]_vars => GuardsPassed'
  <2> SUFFICES ASSUME TypeOK, RoutesCarryGuards, GuardsPassed, [Next]_vars
               PROVE  GuardsPassed'
    OBVIOUS
  <2>1. ASSUME UNCHANGED <<routes, path, stage, depth, extensions>> PROVE GuardsPassed'
    BY <2>1 DEF GuardsPassed, Passed, InnermostProvider
  <2>2. ASSUME stage' \notin {"layers", "handler"} PROVE GuardsPassed'
    BY <2>2 DEF GuardsPassed
  <2>3. CASE Assemble
    <3>1. stage' = "assembly"
      BY <2>3 DEF Assemble, LayerBuilder, LayerMethodRouter, LayerRouter, MayLayer,
                  AddRoute, ApplyBuilder
    <3> QED
      BY <2>2, <3>1
  <2>4. ASSUME NEW p \in Paths, Receive(p) PROVE GuardsPassed'
    <3>1. depth' = 0 /\ stage' = "layers" /\ routes' = routes /\ path' = p
      BY <2>4 DEF Receive, assembly
    <3>2. \A layers \in routes[p] : Len(layers) \in Nat
      BY LenProperties DEF TypeOK
    <3> QED
      BY <3>1, <3>2 DEF GuardsPassed
  <2>5. ASSUME NEW t \in UserTypes, NEW a \in Authorizers, NotAuthorized(t, a)
        PROVE  GuardsPassed'
    BY <2>2, <2>5 DEF NotAuthorized
  <2>6. ASSUME NEW h \in Authentications, Login(h) \/ Logout(h) PROVE GuardsPassed'
    BY <2>1, <2>6 DEF Login, Logout, assembly
  <2>7. ASSUME \/ \E t \in UserTypes : SessionMissing(t)
               \/ \E h \in Authentications : AuthenticationMissing(h)
        PROVE  GuardsPassed'
    BY <2>2, <2>7 DEF SessionMissing, AuthenticationMissing
  <2>8. CASE CallHandler
    <3>1. /\ stage = "layers" /\ UNCHANGED <<routes, path, depth, extensions>>
          /\ \E layers \in routes[path] : depth = Len(layers)
      BY <2>8 DEF CallHandler, assembly, request
    <3>2. \A layers \in routes[path] : depth = Len(layers)
      BY <3>1 DEF RoutesCarryGuards, TypeOK
    <3> QED
      BY <3>1, <3>2 DEF GuardsPassed, Passed, InnermostProvider
  <2>9. CASE Respond
    BY <2>2, <2>9 DEF Respond
  <2>10. CASE UNCHANGED vars
    BY <2>1, <2>10 DEF vars, assembly, request
  <2> QED
    BY <2>3, <2>4, <2>5, <2>6, <2>7, <2>8, <2>9, <2>10, EnterPasses, AuthorizedPasses
    DEF Next, Traverse
<1> QED
  BY <1>1, <1>2, TypeCorrect, Carried, PTL DEF Spec

-------------------------------------------------------------------------------

\* Where a handler runs, every guard of its route has been passed.
LEMMA HandlerPassed ==
    ASSUME TypeOK, RoutesCarryGuards, GuardsPassed, stage = "handler",
           NEW g \in owed[path]
    PROVE  Passed(g) /\ g \in Layers /\ g.kind = "require"
<1>1. PICK layers \in routes[path] : TRUE
  BY DEF RoutesCarryGuards, TypeOK
<1>2. layers \in Seq(Layers) /\ Len(layers) \in Nat /\ DOMAIN layers = 1 .. Len(layers)
  BY <1>1, LenProperties DEF TypeOK
<1>3. PICK i \in DOMAIN layers : g = layers[i] /\ g.kind = "require"
  BY <1>1 DEF RoutesCarryGuards, Guards, ToSet, TypeOK
<1>4. depth = Len(layers)
  BY <1>1 DEF GuardsPassed
<1> QED
  BY <1>1, <1>2, <1>3, <1>4, ElementOfSeq DEF GuardsPassed

LEMMA AuthorizeDemands ==
    ASSUME NEW a \in Authorizers, NEW scope \in Scopes, Authorize(a, scope)
    PROVE  Demanded(a, scope)
BY DEF Authorizers, RequireAuthenticated, RequireScope, AuthorizeFn, Authorize, Demanded

\* A handler only runs for sessions that meet every demand made on its route,
\* and behind guards that have an authentication layer of their type further out.
THEOREM GuardsDoHold == Spec => []GuardsHold
<1>1. TypeOK /\ RoutesCarryGuards /\ GuardsPassed /\ LayersEntered => GuardsHold
  <2> SUFFICES ASSUME TypeOK, RoutesCarryGuards, GuardsPassed, LayersEntered,
                      stage = "handler", NEW g \in owed[path]
               PROVE  /\ BehindProvider(g)
                      /\ extensions[g.type] # {}
                      /\ InnermostProvider(g.type) =>
                           \E s \in extensions[g.type] : Demanded(g.authorize, s.scope)
    BY DEF GuardsHold
  <2>1. g \in Layers /\ g.kind = "require" /\ Passed(g)
    BY HandlerPassed
  <2>2. g.type \in UserTypes /\ g.authorize \in Authorizers
    BY <2>1 DEF Layers, Provide, Require
  <2>3. ASSUME NEW layers \in routes[path], NEW j \in DOMAIN layers, layers[j] = g
        PROVE  \E i \in 1 .. j - 1 : Provides(layers[i], g.type)
    <3>1. depth = Len(layers) /\ DOMAIN layers = 1 .. Len(layers)
      BY <2>3, LenProperties DEF GuardsPassed, TypeOK
    <3> QED
      BY <2>1, <2>3, <3>1 DEF LayersEntered
  <2>4. ASSUME InnermostProvider(g.type)
        PROVE  \E s \in extensions[g.type] : Demanded(g.authorize, s.scope)
    <3>1. PICK s \in extensions[g.type] : Authorize(g.authorize, s.scope)
      BY <2>1, <2>4 DEF Passed
    <3>2. s.scope \in Scopes
      BY <2>2, <3>1 DEF TypeOK, Session
    <3> QED
      BY <2>2, <3>1, <3>2, AuthorizeDemands
  <2> QED
    BY <2>1, <2>3, <2>4 DEF BehindProvider, Passed
<1> QED
  BY <1>1, TypeCorrect, Carried, AlwaysEntered, AlwaysPassed, PTL

\* Behind a guard a session is found, and behind an authentication layer the
\* handle of its Backend and Store.
THEOREM ExtractorsFind == Spec => []ExtractorsFindTheirLayers
<1>1. Init => ExtractorsFindTheirLayers
  BY DEF Init, ExtractorsFindTheirLayers
<1>2. /\ TypeOK /\ RoutesCarryGuards /\ GuardsPassed /\ LayersEntered
      /\ ExtractorsFindTheirLayers /\ [Next]_vars
      => ExtractorsFindTheirLayers'
  <2> SUFFICES ASSUME TypeOK, RoutesCarryGuards, GuardsPassed, LayersEntered,
                      ExtractorsFindTheirLayers, [Next]_vars
               PROVE  ExtractorsFindTheirLayers'
    OBVIOUS
  <2>1. ASSUME stage' \notin {"refused", "panicked"} PROVE ExtractorsFindTheirLayers'
    BY <2>1 DEF ExtractorsFindTheirLayers
  <2>2. ASSUME NEW t \in UserTypes, SessionMissing(t) PROVE ExtractorsFindTheirLayers'
    <3>1. /\ stage = "handler" /\ stage' = "refused" /\ UNCHANGED <<owed, path>>
          /\ asked' = {t} /\ extensions[t] = {}
      BY <2>2 DEF SessionMissing, assembly
    <3>2. \A g \in owed[path] : extensions[g.type] # {}
      BY <3>1, HandlerPassed DEF Passed
    <3> QED
      BY <3>1, <3>2 DEF ExtractorsFindTheirLayers
  <2>3. ASSUME NEW h \in Authentications, AuthenticationMissing(h)
        PROVE  ExtractorsFindTheirLayers'
    <3>1. /\ stage = "handler" /\ stage' = "panicked" /\ UNCHANGED <<routes, path>>
          /\ asked' = {h} /\ h \notin handles
      BY <2>3 DEF AuthenticationMissing, assembly
    <3>2. ASSUME NEW layers \in routes[path] PROVE Provide(h) \notin ToSet(layers)
      <4>1. depth = Len(layers) /\ DOMAIN layers = 1 .. Len(layers)
        BY <3>1, <3>2, LenProperties DEF GuardsPassed, TypeOK
      <4>2. \A i \in DOMAIN layers : layers[i].kind = "provide" => layers[i].handle # h
        BY <3>1, <3>2, <4>1 DEF LayersEntered
      <4>3. Provide(h).kind = "provide" /\ Provide(h).handle = h
        BY DEF Provide
      <4> QED
        BY <4>2, <4>3 DEF ToSet
    <3> QED
      BY <3>1, <3>2 DEF ExtractorsFindTheirLayers
  <2>4. CASE Assemble
    <3>1. stage' = "assembly"
      BY <2>4 DEF Assemble, LayerBuilder, LayerMethodRouter, LayerRouter, MayLayer,
                  AddRoute, ApplyBuilder
    <3> QED
      BY <2>1, <3>1
  <2>5. ASSUME NEW p \in Paths, Receive(p) PROVE ExtractorsFindTheirLayers'
    BY <2>1, <2>5 DEF Receive
  <2>6. ASSUME NEW h \in Authentications, EnterProvide(h) \/ Login(h) \/ Logout(h)
        PROVE  ExtractorsFindTheirLayers'
    <3>1. stage' \in {"layers", "handler"}
      BY <2>6 DEF EnterProvide, Meets, Login, Logout
    <3> QED
      BY <2>1, <3>1
  <2>7. ASSUME NEW t \in UserTypes, NEW a \in Authorizers,
               Authorized(t, a) \/ NotAuthorized(t, a)
        PROVE  ExtractorsFindTheirLayers'
    <3>1. stage' \in {"layers", "unauthorized"}
      BY <2>7 DEF Authorized, NotAuthorized, Meets
    <3> QED
      BY <2>1, <3>1
  <2>8. CASE CallHandler \/ Respond
    BY <2>1, <2>8 DEF CallHandler, Respond
  <2>9. CASE UNCHANGED vars
    BY <2>9 DEF ExtractorsFindTheirLayers, vars, assembly, request
  <2> QED
    BY <2>2, <2>3, <2>4, <2>5, <2>6, <2>7, <2>8, <2>9 DEF Next, Traverse
<1> QED
  BY <1>1, <1>2, TypeCorrect, Carried, AlwaysPassed, AlwaysEntered, PTL DEF Spec

-------------------------------------------------------------------------------
(* The innermost context.                                                    *)

\* A new context has at most the session that its layer restored.
LEMMA EnterCurrent ==
    ASSUME TypeOK, RoutesCarryGuards, NEW h \in Authentications, EnterProvide(h)
    PROVE  CurrentIsInnermost'
<1>1. PICK restored \in {{}} \cup {{Restored(s)} : s \in Scopes} :
        /\ extensions' = IF restored = {} THEN extensions
                         ELSE [extensions EXCEPT ![h.type] = restored]
        /\ contexts' = Append(contexts, [NoSessions EXCEPT ![h.type] = restored])
  BY DEF EnterProvide
<1>2. depth' = depth + 1 /\ depth \in Nat /\ h.type \in UserTypes
  BY DEF EnterProvide, TypeOK, Authentications
<1> DEFINE e == [NoSessions EXCEPT ![h.type] = restored]
<1>3. Last(contexts') = e
  <2>1. Len(contexts) \in Nat
    BY LenProperties DEF TypeOK
  <2>2. Len(contexts') = Len(contexts) + 1 /\ contexts'[Len(contexts) + 1] = e
    BY <1>1, AppendProperties DEF TypeOK
  <2> QED
    BY <2>1, <2>2 DEF Last
<1> SUFFICES ASSUME NEW t \in UserTypes, NEW s \in e[t]
             PROVE  /\ \A layers \in routes'[path'] : \A i \in 1 .. depth' :
                         layers[i].kind = "provide" => i <= s.at
                    /\ s.made = "restored" => extensions'[t] = {s}
  BY <1>3 DEF CurrentIsInnermost
<1>4. t = h.type /\ s \in restored
  BY DEF NoSessions
<1>5. restored = {s} /\ s.at = depth'
  BY <1>1, <1>2, <1>4 DEF Restored
<1>6. extensions'[t] = {s}
  BY <1>1, <1>2, <1>4, <1>5 DEF TypeOK
<1> QED
  BY <1>2, <1>5, <1>6

\* login puts a session into the innermost context, logout takes it away.
LEMMA HandlerCurrent ==
    ASSUME TypeOK, CurrentIsInnermost, NEW h \in Authentications, Login(h) \/ Logout(h)
    PROVE  CurrentIsInnermost'
<1>1. PICK value \in SUBSET {[scope |-> s, made |-> "login", at |-> depth] : s \in Scopes} :
        Current([type |-> h.type, value |-> value])
  <2>1. CASE Login(h)
    BY <2>1 DEF Login
  <2>2. CASE Logout(h)
    BY <2>2 DEF Logout
  <2> QED
    BY <2>1, <2>2
<1>2. /\ contexts # <<>> /\ stage \in {"layers", "handler"} /\ depth \in Nat
      /\ UNCHANGED <<routes, path, stage, depth, extensions>> /\ h.type \in UserTypes
  BY DEF Login, Logout, TypeOK, Authentications, assembly
<1> DEFINE e == [Last(contexts) EXCEPT ![h.type] = value]
<1>3. Last(contexts) \in [UserTypes -> SUBSET Session]
  BY <1>2, Replaced DEF TypeOK
<1>4. \A s \in value : s \in Session /\ s.made = "login" /\ s.at = depth
  BY <1>1, <1>2 DEF Session
<1>5. e \in [UserTypes -> SUBSET Session]
  BY <1>3, <1>4
<1>6. Last(contexts') = e
  <2> DEFINE C == [UserTypes -> SUBSET Session]
  <2>1. contexts \in Seq(C) /\ e \in C /\ contexts' = Append(Front(contexts), e)
    BY <1>1, <1>5 DEF TypeOK, Current
  <2> HIDE DEF C, e
  <2> QED
    BY <1>2, <2>1, Replaced
<1> SUFFICES ASSUME NEW t \in UserTypes, NEW s \in e[t]
             PROVE  /\ \A layers \in routes[path] : \A i \in 1 .. depth :
                         layers[i].kind = "provide" => i <= s.at
                    /\ s.made = "restored" => extensions[t] = {s}
  BY <1>2, <1>6 DEF CurrentIsInnermost
<1>7. CASE t = h.type
  BY <1>2, <1>3, <1>4, <1>7
<1>8. CASE t # h.type
  BY <1>2, <1>3, <1>8 DEF CurrentIsInnermost
<1> QED
  BY <1>7, <1>8

\* A guard opens no context.
LEMMA AuthorizedCurrent ==
    ASSUME TypeOK, RoutesCarryGuards, CurrentIsInnermost,
           NEW t \in UserTypes, NEW a \in Authorizers, Authorized(t, a)
    PROVE  CurrentIsInnermost'
<1>1. /\ stage = "layers" /\ depth' = depth + 1 /\ depth \in Nat
      /\ UNCHANGED <<routes, path, stage, contexts, extensions>>
      /\ \A layers \in routes[path] : layers[depth + 1] = Require(t, a)
  BY DEF Authorized, Meets, RoutesCarryGuards, TypeOK, assembly
<1>2. \A layers \in routes[path] : \A i \in 1 .. depth' :
        layers[i].kind = "provide" => i \in 1 .. depth
  BY <1>1 DEF Require
<1> QED
  BY <1>1, <1>2 DEF CurrentIsInnermost

\* The current session is one of the innermost authentication layer.
THEOREM CurrentInnermost == Spec => []CurrentIsInnermost
<1>1. Init => CurrentIsInnermost
  BY DEF Init, CurrentIsInnermost
<1>2. TypeOK /\ RoutesCarryGuards /\ CurrentIsInnermost /\ [Next]_vars => CurrentIsInnermost'
  <2> SUFFICES ASSUME TypeOK, RoutesCarryGuards, CurrentIsInnermost, [Next]_vars
               PROVE  CurrentIsInnermost'
    OBVIOUS
  <2>1. ASSUME UNCHANGED <<routes, path, stage, depth, extensions, contexts>>
        PROVE  CurrentIsInnermost'
    BY <2>1 DEF CurrentIsInnermost
  <2>2. ASSUME stage' \notin {"layers", "handler"} \/ contexts' = <<>>
        PROVE  CurrentIsInnermost'
    BY <2>2 DEF CurrentIsInnermost
  <2>3. CASE Assemble
    <3>1. stage' = "assembly"
      BY <2>3 DEF Assemble, LayerBuilder, LayerMethodRouter, LayerRouter, MayLayer,
                  AddRoute, ApplyBuilder
    <3> QED
      BY <2>2, <3>1
  <2>4. ASSUME NEW p \in Paths, Receive(p) PROVE CurrentIsInnermost'
    BY <2>2, <2>4 DEF Receive
  <2>5. CASE CallHandler
    BY <2>5 DEF CallHandler, CurrentIsInnermost, assembly, request
  <2>6. ASSUME \/ \E t \in UserTypes, a \in Authorizers : NotAuthorized(t, a)
               \/ \E t \in UserTypes : SessionMissing(t)
               \/ \E h \in Authentications : AuthenticationMissing(h)
               \/ Respond
        PROVE  CurrentIsInnermost'
    BY <2>2, <2>6 DEF NotAuthorized, SessionMissing, AuthenticationMissing, Respond
  <2>7. CASE UNCHANGED vars
    BY <2>1, <2>7 DEF vars, assembly, request
  <2> QED
    BY <2>3, <2>4, <2>5, <2>6, <2>7, EnterCurrent, HandlerCurrent, AuthorizedCurrent
    DEF Next, Traverse
<1> QED
  BY <1>1, <1>2, TypeCorrect, Carried, PTL DEF Spec

=============================================================================
