----------------------------- MODULE LayeredService -----------------------------
(*****************************************************************************)
(* Putting a service together out of layers, and what a request meets on its *)
(* way in (authorization.rs, with the extractors of session.rs and           *)
(* authentication.rs).                                                       *)
(*                                                                           *)
(* A program wraps method routers, a whole router, or a ServiceBuilder that  *)
(* is later applied to the router, in ProvideAuthentication layers (one per  *)
(* user type) and RequireAuthorization layers.  Wrapping a router puts the   *)
(* new layer outside those the routes already have, while a ServiceBuilder   *)
(* puts it inside.  Then requests go through the layers of their route one   *)
(* by one, from the outermost to the handler.                                *)
(*****************************************************************************)
EXTENDS Naturals, SequencesExt

CONSTANTS
    UserTypes,
    Providers,      \* the Backend and Store types that may stand behind a user type
    Permissions,
    Predicates,     \* closures: the sets of scopes that they accept
    Paths,
    MaxLayers       \* bound on the layers that a program makes

ASSUME LayersBound == MaxLayers \in Nat
ASSUME PredicatesOnScopes == Predicates \subseteq SUBSET SUBSET Permissions

VARIABLES
    builder,        \* the layers of a ServiceBuilder, outermost first
    method,         \* the layers of a method router that is no route yet
    routes,         \* the layers of each route: None before it is added
    owed,           \* history: the authorizers that were asked for each route
    stage,          \* of the program, and then of the request it is serving
    path,           \* the route of the request
    depth,          \* how many layers the request has entered
    extensions,     \* the request's extensions: an optional Session per type
    handles,        \* the Authentications in the extensions
    contexts,       \* the session-local contexts around the request
    asked           \* what the extractor that failed wanted, if one did

assembly == <<builder, method, routes, owed>>
request == <<path, depth, extensions, handles, contexts, asked>>
vars == <<assembly, stage, request>>

Scopes == SUBSET Permissions

\* A user matters for its scope.  A session is told from others by how it was
\* made, and how many layers in: by a layer that restored it, or by login.
Session == [scope: Scopes, made: {"restored", "login"}, at: Nat]

\* The type Authentication<Backend, Store>.  Its user type is that of Backend.
Authentications == [type: UserTypes, by: Providers]

NoSessions == [t \in UserTypes |-> {}]

RequireAuthenticated == [demand |-> "authenticated"]
RequireScope(s) == [demand |-> "scope", scope |-> s]
AuthorizeFn(f) == [demand |-> "fn", accepts |-> f]

Authorizers ==
    {RequireAuthenticated} \cup {RequireScope(s) : s \in Scopes}
        \cup {AuthorizeFn(f) : f \in Predicates}

Provide(h) == [kind |-> "provide", type |-> h.type, handle |-> h]
Require(t, a) == [kind |-> "require", type |-> t, authorize |-> a]

Layers ==
    {Provide(h) : h \in Authentications} \cup {Require(t, a) : t \in UserTypes, a \in Authorizers}

Guards(layers) == {l \in ToSet(layers) : l.kind = "require"}

Stages ==
    {"assembly", "layers", "handler", "unauthorized", "refused", "panicked", "answered"}

TypeOK ==
    /\ builder \in Seq(Layers)
    /\ method \in Seq(Layers)
    /\ routes \in [Paths -> SUBSET Seq(Layers)]
    /\ owed \in [Paths -> SUBSET Layers]
    /\ stage \in Stages
    /\ path \in Paths
    /\ depth \in Nat
    /\ extensions \in [UserTypes -> SUBSET Session]
    /\ handles \subseteq Authentications
    /\ contexts \in Seq([UserTypes -> SUBSET Session])
    /\ contexts = <<>> => handles = {}
    /\ asked \subseteq UserTypes \cup Authentications

Init ==
    /\ builder = <<>>
    /\ method = <<>>
    /\ routes = [p \in Paths |-> {}]
    /\ owed = [p \in Paths |-> {}]
    /\ stage = "assembly"
    /\ path \in Paths
    /\ depth = 0
    /\ extensions = NoSessions
    /\ handles = {}
    /\ contexts = <<>>
    /\ asked = {}

-------------------------------------------------------------------------------
(* Assembly.                                                                 *)

\* The bound on the layers a program makes.
MayLayer ==
    /\ stage = "assembly"
    /\ \A p \in Paths : \A layers \in routes[p] \cup {<<>>} :
         Len(builder) + Len(method) + Len(layers) < MaxLayers

\* ServiceBuilderExt, and ServiceBuilder::layer for other layers: the new
\* layer goes inside the ones before it.
LayerBuilder(l) ==
    /\ MayLayer
    /\ builder' = Append(builder, l)
    /\ UNCHANGED <<method, routes, owed, stage, request>>

\* MethodRouterExt, and MethodRouter::layer: the new layer goes outside.
LayerMethodRouter(l) ==
    /\ MayLayer
    /\ method' = <<l>> \o method
    /\ UNCHANGED <<builder, routes, owed, stage, request>>

\* Router::route, with the method router made so far.
AddRoute(p) ==
    /\ stage = "assembly"
    /\ routes[p] = {}
    /\ routes' = [routes EXCEPT ![p] = {method}]
    /\ owed' = [owed EXCEPT ![p] = Guards(method)]
    /\ method' = <<>>
    /\ UNCHANGED <<builder, stage, request>>

\* Router::layer wraps the routes that the router has by then.
Wrap(layers) ==
    /\ routes' = [p \in Paths |-> {layers \o inner : inner \in routes[p]}]
    /\ owed' = [p \in Paths |-> owed[p] \cup UNION {Guards(layers) : inner \in routes[p]}]

\* RouterExt, and Router::layer for other layers.
LayerRouter(l) ==
    /\ MayLayer
    /\ Wrap(<<l>>)
    /\ UNCHANGED <<builder, method, stage, request>>

\* Router::layer with what the ServiceBuilder has collected.
ApplyBuilder ==
    /\ stage = "assembly"
    /\ builder # <<>>
    /\ Wrap(builder)
    /\ builder' = <<>>
    /\ UNCHANGED <<method, stage, request>>

-------------------------------------------------------------------------------
(* A request on its way in.                                                  *)

\* A request for some route, the program being complete and the request before
\* it answered.
Receive(p) ==
    /\ stage \notin {"layers", "handler"}
    /\ routes[p] # {}
    /\ stage' = "layers"
    /\ path' = p
    /\ depth' = 0
    /\ extensions' = NoSessions
    /\ handles' = {}
    /\ contexts' = <<>>
    /\ asked' = {}
    /\ UNCHANGED assembly

\* The layer that the request meets next.
Meets(l) ==
    /\ stage = "layers"
    /\ \E layers \in routes[path] : depth < Len(layers) /\ l = layers[depth + 1]

Restored(s) == [scope |-> s, made |-> "restored", at |-> depth + 1]

\* Mutant of EnterProvide: the new context takes over that of the layer around
\* it, as if the context were opened once for a request.
EnterProvideInheriting(h) ==
    /\ Meets(Provide(h))
    /\ \E restored \in {{}} \cup {{Restored(s)} : s \in Scopes} :
         /\ extensions' = IF restored = {} THEN extensions
                          ELSE [extensions EXCEPT ![h.type] = restored]
         /\ contexts' = Append(contexts,
                [t \in UserTypes |-> IF t = h.type /\ restored # {} THEN restored
                                    ELSE IF contexts = <<>> THEN {} ELSE Last(contexts)[t]])
    /\ handles' = handles \cup {h}
    /\ depth' = depth + 1
    /\ UNCHANGED <<assembly, stage, path, asked>>

\* Mutant of EnterProvide: the handle is inserted along with a session only.
EnterProvideKnown(h) ==
    /\ Meets(Provide(h))
    /\ \E restored \in {{}} \cup {{Restored(s)} : s \in Scopes} :
         /\ extensions' = IF restored = {} THEN extensions
                          ELSE [extensions EXCEPT ![h.type] = restored]
         /\ contexts' = Append(contexts, [NoSessions EXCEPT ![h.type] = restored])
         /\ handles' = IF restored = {} THEN handles ELSE handles \cup {h}
    /\ depth' = depth + 1
    /\ UNCHANGED <<assembly, stage, path, asked>>

\* ProvideAuthentication: a new session-local context, the handle, and the
\* session if one can be restored, in that context and in the extensions.  A
\* session of the same user type that is in the extensions stays there if not.
EnterProvide(h) ==
    /\ Meets(Provide(h))
    /\ \E restored \in {{}} \cup {{Restored(s)} : s \in Scopes} :
         /\ extensions' = IF restored = {} THEN extensions
                          ELSE [extensions EXCEPT ![h.type] = restored]
         /\ contexts' = Append(contexts, [NoSessions EXCEPT ![h.type] = restored])
    /\ handles' = handles \cup {h}
    /\ depth' = depth + 1
    /\ UNCHANGED <<assembly, stage, path, asked>>

\* Mutant of Authorize: one of the permissions is enough.
AuthorizeAny(a, scope) ==
    \/ a.demand = "authenticated"
    \/ a.demand = "scope" /\ (a.scope = {} \/ a.scope \cap scope # {})
    \/ a.demand = "fn" /\ scope \in a.accepts

\* What the three authorizers make of a user with that scope.
Authorize(a, scope) ==
    \/ a.demand = "authenticated"
    \/ a.demand = "scope" /\ a.scope \cap scope = a.scope
    \/ a.demand = "fn" /\ scope \in a.accepts

\* Mutant of Authorized: requests without a session go through.
AuthorizedAnyway(t, a) ==
    /\ Meets(Require(t, a))
    /\ \A s \in extensions[t] : Authorize(a, s.scope)
    /\ depth' = depth + 1
    /\ UNCHANGED <<assembly, stage, path, extensions, handles, contexts, asked>>

\* RequireAuthorization, when the extensions hold a session of its user type
\* whose user its authorizer accepts: the inner service is called.
Authorized(t, a) ==
    /\ Meets(Require(t, a))
    /\ \E s \in extensions[t] : Authorize(a, s.scope)
    /\ depth' = depth + 1
    /\ UNCHANGED <<assembly, stage, path, extensions, handles, contexts, asked>>

\* Any other request is answered without calling the inner service.
NotAuthorized(t, a) ==
    /\ Meets(Require(t, a))
    /\ ~\E s \in extensions[t] : Authorize(a, s.scope)
    /\ stage' = "unauthorized"
    /\ UNCHANGED <<assembly, request>>

\* The innermost layer calls the handler.
CallHandler ==
    /\ stage = "layers"
    /\ \E layers \in routes[path] : depth = Len(layers)
    /\ stage' = "handler"
    /\ UNCHANGED <<assembly, request>>

-------------------------------------------------------------------------------
(* What the application does with a request inside an Authentication layer,  *)
(* between the layers or in the handler.                                     *)

Current(session) ==
    contexts' = Append(Front(contexts), [Last(contexts) EXCEPT ![session.type] = session.value])

\* login and logout with a handle from the extensions: they change the
\* innermost context and leave the extensions alone.
Login(h) ==
    /\ stage \in {"layers", "handler"}
    /\ h \in handles
    /\ \E s \in Scopes :
         Current([type |-> h.type, value |-> {[scope |-> s, made |-> "login", at |-> depth]}])
    /\ UNCHANGED <<assembly, stage, path, depth, extensions, handles, asked>>

Logout(h) ==
    /\ stage \in {"layers", "handler"}
    /\ h \in handles
    /\ Current([type |-> h.type, value |-> {}])
    /\ UNCHANGED <<assembly, stage, path, depth, extensions, handles, asked>>

\* The extractor Session<User> finds no session: 401.
SessionMissing(t) ==
    /\ stage = "handler"
    /\ extensions[t] = {}
    /\ stage' = "refused"
    /\ asked' = {t}
    /\ UNCHANGED <<assembly, path, depth, extensions, handles, contexts>>

\* The extractor Authentication<Backend, Store> panics: no layer with that
\* Backend and that Store, whatever others of the user type there are.
AuthenticationMissing(h) ==
    /\ stage = "handler"
    /\ h \notin handles
    /\ stage' = "panicked"
    /\ asked' = {h}
    /\ UNCHANGED <<assembly, path, depth, extensions, handles, contexts>>

Respond ==
    /\ stage = "handler"
    /\ stage' = "answered"
    /\ UNCHANGED <<assembly, request>>

Assemble ==
    \/ \E l \in Layers : LayerBuilder(l) \/ LayerMethodRouter(l) \/ LayerRouter(l)
    \/ \E p \in Paths : AddRoute(p)
    \/ ApplyBuilder

Traverse ==
    \/ \E p \in Paths : Receive(p)
    \/ \E h \in Authentications :
         EnterProvide(h) \/ Login(h) \/ Logout(h) \/ AuthenticationMissing(h)
    \/ \E t \in UserTypes :
         \/ \E a \in Authorizers : Authorized(t, a) \/ NotAuthorized(t, a)
         \/ SessionMissing(t)
    \/ CallHandler \/ Respond

Next == Assemble \/ Traverse

Spec == Init /\ [][Next]_vars

-------------------------------------------------------------------------------

\* What an authorizer demands of a user with that scope.
Demanded(a, scope) ==
    CASE a.demand = "authenticated" -> TRUE
      [] a.demand = "scope" -> \A p \in a.scope : p \in scope
      [] a.demand = "fn" -> scope \in a.accepts

Provides(l, t) == l.kind = "provide" /\ l.type = t

\* No layer of that user type lies inside another layer of a route.
InnermostProvider(t) ==
    \A layers \in routes[path] : \A i, j \in DOMAIN layers :
        Provides(layers[i], t) /\ layers[j].type = t => i <= j

\* Wherever that guard stands in a route, some authentication layer of its
\* user type is further out.
BehindProvider(g) ==
    \A layers \in routes[path] : \A j \in DOMAIN layers :
        layers[j] = g => \E i \in 1 .. j - 1 : Provides(layers[i], g.type)

\* However the service was put together, a handler only runs with a session of
\* each user type that was demanded on its route, and that session meets every
\* demand, unless a further layer of its type may have replaced it; logging in
\* or out on the way changes nothing.  A guard that was put outside the
\* authentication layers of its type lets nobody through.
GuardsHold ==
    stage = "handler" =>
        \A g \in owed[path] :
            /\ BehindProvider(g)
            /\ extensions[g.type] # {}
            /\ InnermostProvider(g.type) =>
                 \E s \in extensions[g.type] : Demanded(g.authorize, s.scope)

\* Behind a guard, a handler that takes a Session of the guard's user type needs
\* no 401 of its own.  An extractor of the handle only panics if no layer of the
\* route has its very Backend and Store, wherever these layers are and whether
\* or not a session could be restored.  (A guard does not help there: it asks for
\* the user type alone.)
ExtractorsFindTheirLayers ==
    /\ stage = "refused" => \A g \in owed[path] : g.type \notin asked
    /\ stage = "panicked" =>
         \A h \in asked : \A layers \in routes[path] : Provide(h) \notin ToSet(layers)

\* session::current only ever finds a session of the innermost authentication
\* layer that the request has entered: one that it restored, which is then
\* also the one in the extensions, or one that was logged in further in.  That
\* of a layer around it is hidden, whatever its user type (authentication.rs:350).
CurrentIsInnermost ==
    stage \in {"layers", "handler"} /\ contexts # <<>> =>
        \A t \in UserTypes : \A s \in Last(contexts)[t] :
            /\ \A layers \in routes[path] : \A i \in 1 .. depth :
                 layers[i].kind = "provide" => i <= s.at
            /\ s.made = "restored" => extensions[t] = {s}

-------------------------------------------------------------------------------
(* Why these hold: a route carries all the guards it is owed, and a request  *)
(* has passed those that it has left behind it.                              *)

RoutesCarryGuards ==
    \A p \in Paths :
        /\ routes[p] = {} => owed[p] = {}
        /\ \A layers \in routes[p] :
             owed[p] \subseteq Guards(layers) /\ routes[p] = {layers}

Passed(g) ==
    /\ extensions[g.type] # {}
    /\ InnermostProvider(g.type) =>
         \E s \in extensions[g.type] : Authorize(g.authorize, s.scope)

GuardsPassed ==
    stage \in {"layers", "handler"} =>
        \A layers \in routes[path] :
            /\ depth <= Len(layers)
            /\ \A i \in 1 .. depth : layers[i].kind = "require" => Passed(layers[i])
            /\ stage = "handler" => depth = Len(layers)

\* Sessions and handles come from the layers that the request has entered, and
\* the guards among these have a layer of their type around them.
LayersEntered ==
    stage \in {"layers", "handler"} =>
        \A layers \in routes[path] :
            /\ \A i \in 1 .. depth :
                 layers[i].kind = "provide" => layers[i].handle \in handles
            /\ \A t \in UserTypes :
                 extensions[t] # {} => \E i \in 1 .. depth : Provides(layers[i], t)
            /\ \A j \in 1 .. depth :
                 layers[j].kind = "require" =>
                     \E i \in 1 .. j - 1 : Provides(layers[i], layers[j].type)

=============================================================================
