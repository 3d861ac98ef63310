# snowfinch in TLA+

A model of [snowfinch](../src/README.md): session authentication for Tower and
axum servers. The crate is small, but everything in it runs concurrently:
requests are asynchronous tasks that share one store and one backend, are
suspended at every `.await`, are cancelled when a client goes away, and move
between worker threads. The modules here model that control flow, TLC checks it
on small instances, and TLAPS proves the main results for every value of the
constants.

Source locations below are `file:line` in `src/src/`.

## The system

| Component | State | Operations | Works with |
|---|---|---|---|
| **Authentication middleware** (`authentication.rs`) | per request: the cookie's id, the record awaited, extensions, context | `ProvideAuthentication::{poll_ready, call}`, `provide_authentication` | asks the `Store`, then the `Backend`; fills the extensions and the session-local context; calls the inner service |
| **Authentication handle** (`authentication.rs:62-124`) | locals of a call: user, expiry, id | `authenticate`, `login`, `logout` | `Backend::authenticate`, `Store::{create, revoke}`, the session-local context |
| **Store trait** (`store.rs:24-59`) | session id, expiry, user id of each record | `get`, `create`, `revoke` | called by the two above |
| **MemoryStore** (`store.rs:165-304`) | a moka cache, with a deadline for each entry | the same, `expire_after_create` | moka (external), wall clock and monotonic clock |
| **NoopStore** (`store.rs`) | none | answers `None` and `Ok` | the layer's default |
| **Backend and User** (`backend.rs`) | the application's accounts | `get`, `authenticate` | supplied by the application |
| **Session value, extractors, Set-Cookie** (`session.rs`) | id, expiry, shared user | `into_response_parts`, extractors | handlers, axum |
| **Session-local context** (`session.rs:143-271`) | a map from user types to sessions in a tokio task-local | `with_session_local`, `insert`, `remove`, `try_current`, `current` | middleware, `login`, `logout`, handlers |
| **Authorization layers** (`authorization.rs`) | the inner service and the authorizer | `poll_ready`, `call`, the future's `poll` | read the session in the extensions |
| **Scopes** (`scope.rs`) | a `u64` bitmap; declared flags | set operations, `from_raw`, `from_name`, iterators, `i64` column | users, `RequireScope` |
| **Password hashes** (`password.rs`) | 64 bytes | `new`, `verify`, `from_bytes` | the application's backend |
| **Router and builder extensions** (`authorization.rs:266-435`) | the layers of a builder, a method router, a router's routes | `require_authenticated`, `require_scope`, `require_authorization`, `require_authorization_fn` | axum, tower (external) |
| **Layer builder** (`authentication.rs:174-302`) | backend and store of a layer, behind reference counts | `new`, `with_backend`, `with_store`, `with_noop_store`, `with_memory_store`, `layer`, `clone` | makes the services of the middleware |
| **Crate surface** | none | re-exports, features | |

### What is hard about it, and what makes it correct

* *Restoring a session* takes two awaited calls and a look at the clock, one
  after the other. Between any two, the session may expire, be logged out, be
  replaced by one of the same id, and the account may be edited or removed.
  Correct: a request only receives a session that was in force at some moment
  since it arrived, with a user no older than the request; and a request is
  given the session it is entitled to, unless the store or the backend fails or
  the account is gone.
* *Login* draws ids until the store accepts one; `create` may fail, may report
  a failure after it has stored the record, and the caller may be dropped while
  it waits. Correct: a session that login returned is neither overwritten nor
  lost, and login returns while some id is free.
* *Logout* may fail on either side of its effect. Correct: once it has returned
  `Ok`, no later request gets the session; it clears the session it revoked.
* *MemoryStore* turns a wall-clock instant into a duration once and counts it
  on another clock. Correct: it implements the trait's contract; nothing is
  hidden before it has expired; while the clocks agree, nothing stays longer.
* *The context* is a thread-local cell that every poll swaps in and out.
  Correct: whatever the polls' order, nesting and threads, each wrapped future
  sees its own map, and an idle thread holds none.
* *Readiness*: Tower services must be polled ready before they are called, and
  a clone is not ready. Correct: the inner service is only called through the
  instance that was polled; no permit stays behind.
* *Authorization* looks at a session that was restored some time before, and
  that the request may since have logged out or replaced. Correct: whoever is
  let through was entitled to it at some moment since the request arrived, and
  all layers of a request agree.
* *Assembly*: builders, method routers and routers put layers in different
  orders around different sets of routes. Correct: whatever the program, a
  handler only runs behind the demands ever made on its route, an extractor fails
  only where a layer is missing, and the current session is one of the
  innermost authentication layer.
* *Configuration*: layers, services and handles are derived from one another
  and share stores, or get a store that keeps nothing. Correct: sessions are
  found again along derivation from one configured store, and nowhere else.
* *The cookie* crosses a header syntax, a date of whole seconds and a network
  that loses and reorders responses. Correct: the first cookie named session
  decides; a browser presents the session it was last given, and never one
  that has expired.
* *Passwords* are packed, stored in two forms and cut by storage that is too
  narrow. Correct: each accepts its own plaintext and no other, or is an error.
* *Scopes*: a value never carries undeclared bits, iterators return what the
  value contains, and every bit survives the database and the text.

`PROJECT.json` lists each such hazard with the line where it bites and the
properties that cover it.

## The modules

```
SessionStore          the store as its callers see it
|- StoreContract      ... with the answers: what every store owes its callers
|    ^ implemented by MemoryStore (INSTANCE, now <- wall, store <- VisibleSessions)
|- Authentication     middleware and handle, over the store and the backend
     |- AuthenticationHistory   what callers were promised; safety properties
          |- MCAuthentication   model values and symmetry for TLC
          |- AuthorizedRequests authorizers deciding over restored sessions
SessionContext        every wrapped future has a private context
     ^ implemented by SessionLocal (INSTANCE, nest <- the maps of each future)
ServiceReadiness      poll_ready and call through the two layers
LayeredService        assembling layers, and requests going through them
|- MCLayeredService     symmetry for TLC
LayerConfiguration    the layer builder, NoopStore, and who shares which store
CookieHeader          the text of the cookie, written and read
|- SessionCookie        server, network and browser
PasswordStorage       passwords from registration to verification
ScopeAlgebra          types declared by scope!

MemoryStoreProofs, AuthenticationProofs (with the two modules that extend it),
LayeredServiceProofs, LayerConfigurationProofs (with ServiceReadiness),
SessionCookieProofs, PasswordStorageProofs, SessionLocalProofs,
ScopeAlgebraProofs
```

Conventions: a Rust `Option<T>` is a set with at most one element, so `filter`
is a set filter, `.ok().flatten()` is "the value or nothing", and `if let`
is `\E x \in option`. Ids, users, sessions and user types are model values, as
the code only compares them for equality. Definitions marked "Mutant of X" are
plausible mistakes in X; no specification uses them, and each property is
known to fail when X is replaced by one of them.

### SessionStore, StoreContract

`SessionStore` has the three outcomes that callers of the trait tell apart:
`Lookup` (`get`), `Create`/`Collides` (`create`, `Ok` or `AlreadyExists`) and
`Revoke`. Each call takes effect at one instant between call and answer.
A store may forget an expired record at any time and need not keep one that
has expired when it arrives. `StoreContract` closes this into a specification
with the last answer visible, so that an implementation's answers are compared
too.

### MemoryStore

`wall` is `Utc::now()`, `mono` the clock of the cache, `cache` its table.
`Get`, `Create` (`entry().or_insert()`), `Revoke` (`invalidate`) are the
methods and `ExpireAfterCreate` is `SessionExpiry`. `Evict` is moka's
housekeeping. moka is external, and used as documented: an elapsed entry is
invisible to every call at once, whether or not it has been removed, and an
entry created in its place gets a deadline from `expire_after_create`.
`WallOnlyTick` lets the wall clock run ahead of the monotonic one (a clock set
forward, a suspended host); neither clock goes back, so that clocks that have
drifted apart are never `InStep` again.

### Authentication, AuthenticationHistory

`pc[r]` names the `.await` at which the task of request `r` is suspended:

| `pc` | suspended in | leaves by |
|---|---|---|
| `idle` | not yet received | `Receive` |
| `get` | `Store::get` (`:370`) | `StoreGet` |
| `check` | answered, not yet polled (`:370-372`) | `CheckStored` |
| `load` | `Backend::get` (`:373`) | `BackendGet` |
| `handler` | the inner service (`:388`) | `Authenticate`, `BeginLogin`, `BeginLogout`, `Respond` |
| `create` | `Store::create` in `login`'s loop (`:88`) | `LoginSucceeds`, `LoginCollides`, `LoginFails` |
| `revoke` | `Store::revoke` in `logout` (`:115`) | `LogoutSucceeds`, `LogoutFails` |

An action is what a task does from one await to the next; the effect of an
awaited call and the code that consumes its answer are one action where that
code reads nothing that others write. After `Store::get` it does read the
clock, so that answer and its consumption are two actions. `Cancel` drops the
task at any await, with or without the effect of the call that was under way;
the failing outcomes of `create` and `revoke` also leave the effect open.
`PassTime` advances the clock and lets the store forget expired records, and
`EditAccount` changes, removes or restores an account.

`AuthenticationHistory` adds variables that observe and never constrain:
`issued` (what a restore may still find), `kept` (what a restore must find),
`window` (what was issued at some moment since a request arrived), `entitled`
(what its cookie named when it arrived and what has been kept ever since) and
`baseline` (the accounts' versions at its arrival). The safety properties
relate a request's session to these.

The handler is any sequence of calls: it authenticates, logs in, and logs out
the session from the extensions or the one it got from `login`.

### AuthorizedRequests

Extends `AuthenticationHistory` with `Decide`, one call of
`RequireAuthorization` over the session in the request's extensions, at any
moment between restoration and response and any number of times per request.
`Granted` is the set of account versions that the authorizer accepts: it
stands for any predicate over a user. Further history: `inForce`, everything
that was issued at some moment since the request arrived, and `seen`, the users
there were. `window` cannot serve: it ends with the restoration, and decisions
are taken later.

### LayeredService

Three stages of one program. `Assemble` is what its author writes:
`LayerBuilder` (the extension trait of `ServiceBuilder`: inside the layers
before it), `LayerMethodRouter` and `LayerRouter` (outside), `AddRoute`, and
`ApplyBuilder`. `routes[p]` is what comes out; `owed[p]` records every guard
that was asked for the route. Then a request goes from the outermost layer to
the handler, `depth` layers deep, through `EnterProvide` (extensions, handle,
a context of its own), `Authorized` and `NotAuthorized`, with logins and
logouts by other middleware and the handler in between, and ends in an answer
or at an extractor that fails: `Session` is missing (401), or `Authentication`
is (a panic). The three authorizers are `RequireAuthenticated`, `RequireScope`
and `AuthorizeFn`; a closure is the set of scopes it accepts. Here calls take
effect at once: the races are those of `Authentication`.

The extensions are keyed by type, and there are two kinds of key. A session's is
its user type; the guards and the extractor `Session` ask for that. A handle's is
`Authentication<Backend, Store>` (`authentication.rs:166-170`, `:367`): a user
type and one of its `Providers`, which stand for the pairs of a `Backend` with
that user type and a `Store`. So a route may have a session, and a guard that is
content with it, without having the handle that its handler asks for.

A guard only says something of the session that the handler finds if it is below
the authentication layer of its user type that lies innermost
(`InnermostProvider`): one further out looks at a session that the inner layer
may go on to replace. One outside all of them refuses every request, and
`GuardsHold` says so (`BehindProvider`).

`contexts` are the session-local contexts around the request. The session in the
innermost one is told from others by how it was `made` and how many layers in
(`at`); `CurrentIsInnermost` relates that to the layers of the route and to the
extensions.

### LayerConfiguration

A program with a few variables, each holding a store, a layer, a service or a
handle. The builder's calls, `Layer::layer`, `clone`, extraction of handles and
drops are the actions; `login`, `logout` and requests then tell which store
each object refers to. `Noop` is NoopStore: `get` answers `None`, `create` and
`revoke` say `Ok` and keep nothing. It deliberately does not keep the contract
of the trait, so it does not implement `StoreContract`. `kin` is history: the
call that introduced the store from which an object derives.

### CookieHeader, SessionCookie

Text is a sequence of tokens, one per byte of an identifier and one for each
separator, name and prefix. `CookieHeader` has `into_response_parts`'s text
and `session_id`. `SessionCookie` puts the two ends together: `WriteSession`
replaces the `Set-Cookie` headers of the response being built, responses are
lost and overtake each other, and the browser (external) keeps cookies by name
and path until their date. `Foreign` is a page of the same host that sets a
cookie of the same name, with no identifier or with one in its own spelling.
`Answers` is what `session_id` makes of the requests that the browser may send
in a state, in any order that its rules allow and in one header or one each;
a request changes neither side, so it is no action. `DateOf` drops the fraction
of a second, as RFC 2822 dates do. What a reader must tell apart is assumed to be
apart: two digits, and a digit and a separator or `0x` (`DigitsApart`). `Weight`,
what a digit counts, is a recursive function, so that the module can be reasoned
about.

### PasswordStorage

`WithSalt`, `Verify` (comparison with a plaintext) and `Same` (comparison of
passwords) are the value; `Serialize`, `EncodeColumn`, `Deserialize` and
`DecodeColumn` the stored forms. A digest stands for its whole input: SHA-256
is external and taken to have no collisions. The application registers,
converts from column to text and back, and compares; its medium cuts values
short.

### SessionContext, SessionLocal

`SessionContext` is the promise: a stack of maps per future, visible to the
code polled inside it. `SessionLocal` is the implementation: per worker a
thread-local `cell`, per future the `slots` of its wrappers, swapped with the
cell when a poll starts and ends (`TaskLocalFuture`, external). Futures are
polled by any worker, from the top level or from within another future's poll
(join, select), one poll at a time per future. `SESSIONS.scope`, `insert`,
`remove` and `try_current` are the code's own operations.
`current` is `try_current().expect(..)` and adds no step.

### ServiceReadiness

`ready[c]`: does the instance in connection `c` hold a permit of the inner
service? `moved[r]`: does the instance that the future of request `r` owns
hold one? `Call` is `ProvideAuthentication::call`, with its `mem::replace`;
`Authorized`/`NotAuthorized` are the two outcomes of
`RequireAuthorization::call` inside the future. Which one happens is left
open. Connections are driven as hyper does: `poll_ready` until ready, `call`,
and several futures may be in flight. The inner service is external: a
concurrency limit with `Permits` permits. The guard is the one inside an
authentication layer, where it belongs to that layer's future. A guard outside
every authentication layer stays in its connection: it refuses every request
(`GuardsHold`), and the permit that it has reserved is kept, uncalled, for the
connection's next one (`authorization.rs:93-105`). That composition is not modelled
here.

### ScopeAlgebra

A value is the set of its positions; a declaration is any sequence of at most
`MaxFlags` non-empty bitmaps, in particular compound scopes with bare
positions (`Read && 2`). `Unsigned` is the number of a bitmap, summed position
by position. `ToColumn` and `FromColumn` are the casts between `u64` and `i64`
in two's complement, `ToText` and `FromText` the bytes of the hex text in their
order. Names are abstracted to the flags they denote, and what an iterator has
`yielded` is kept as places in the declaration.

## What is checked

Every property is listed with the code mistake that breaks it in
`PROJECT.json`. The "violation" run shows a disagreement between the code and a
comment.

| Run | Instance | Properties |
|---|---|---|
| `store_drift` | 2 ids, 2 users, wall clock 0..4, expiries 0, 1, 3, wall clock may run ahead | `TypeOK`, `DeadlineCoversExpiry`, `NeverForgottenEarly`, `ExpiresAsDocumented`, `DeadlineTracksExpiry`, `ImplementsContract` |
| `auth_owners` | 2 requests, 1 id, 2 users, clock 0..1 | `HistoryTypeOK`, `BoundsEnclose`, `SessionsDurable`, `RestoredSessionValid`, `EntitledRestored` |
| `auth_liveness` | 2 requests, 2 ids, 1 user, account versions 0..1, fairness | `CallsReturn` |
| `auth_rotation` | 2 requests, 2 ids, 1 user | *violation* of `LogoutClearsOnlyItsSession` |
| `authorized_requests` | 2 requests, 1 id, 1 user, account versions 0..1, version 0 granted | `AuthorizationJustified`, `DecisionsExplained`, `DecisionsAgree`, `RestoredUserFresh` |
| `layered_service` | 1 user type with 2 providers, 2 permissions, 1 closure, 2 routes, up to 3 layers | `GuardsHold`, `ExtractorsFindTheirLayers`, `CurrentIsInnermost` |
| `layer_configuration` | 3 variables, 1 backend, 2 memory stores, 2 ids | `TypeOK`, `KinExplained`, `KinShareSessions` |
| `session_cookie` | 2 identifiers of 2 digits, 2 instants a second, 2 responses on their way, clock 0..3 | `OneSessionCookie`, `JarHoldsGiven`, `BrowserPresentsSession` |
| `password_storage` | 2 users, bytes of 2 values, halves of 2 bytes, plaintexts of up to 1 byte | `KeptExplained`, `AcceptsItsPlaintext`, `EqualWhenAlikeInBoth` |
| `session_local` | 2 futures, 2 workers, 2 user types, wrappers nested up to 2 | `IdleWorkersClean`, `ImplementsContext` |
| `readiness` | 2 connections, 3 futures, 2 permits, fairness | `CalledReady`, `PermitsReturn`, `RequestsServed` |
| `scope_algebra` | every declaration of up to 3 flags over 3 positions, one byte each | `DeclaredBitsOnly`, `YieldsContainedFlags`, `IsAllMeansPrimitivesAndBare`, `ColumnRoundTrip`, `TextRoundTrip` |

### Why the bounds are enough

* *Authentication.* Two request slots are enough for every race of two tasks,
  and a slot is reused by later requests, so that a third actor is at most a
  later one. One id with two users shows collisions, and an id that passes from
  one owner to another; `auth_liveness` has two ids, so that a free one is
  beside one that is taken. A lifetime of 1 and a clock of 0..1 expire a session
  once between any two steps; the order of expiries of several sessions is left
  to the proofs, which have no bound. Accounts are edited in
  `authorized_requests`: two versions are an account before and after, and it
  may be gone in between. `Requests` and `UserIds` are symmetric in
  `auth_owners`.
* *MemoryStore.* Expiries 0 (already past, or just now), 1 and 3 fall before,
  at and after every instant of 0..4, and drift accumulates to 4.
* *SessionLocal.* Two futures on two workers are enough to nest one poll in
  another, in both orders, and to migrate a future; two wrappers in one future
  nest contexts within a future.
* *ServiceReadiness.* More futures than permits, and fewer permits than
  connections would take together with their calls in flight.
* *AuthorizedRequests.* One account before and after an edit that withdraws the
  grant, and one session that is logged out, and opened anew, by the other
  request. Time is left out: expiry forgets a session as logout does, and the
  theorems have no bound.
* *LayeredService.* Three layers are the least that put a guard outside, inside
  and between authentication layers, with one of another builder or router
  around it; two routes are one added before and one after a layer. Two
  permissions tell "all" from "some", and the closure accepts users with exactly
  one of them, which no `RequireScope` does. One user type suffices for the
  guards, which never look at another; it has two providers, one of which a
  handler may ask for while only the other has a layer. Routes, permissions and
  providers are symmetric. Contexts of several user types are left to the proof.
* *LayerConfiguration.* Three variables are a layer, a service and a handle at
  once, or a chain of derivations whose first members are gone; two stores are
  one's own and somebody else's, and two ids are two sessions in one store.
* *SessionCookie.* Two responses overtake each other; two digits have an order;
  two instants a second are one on the second and one between. A request has at
  most two session cookies, one of which may be malformed or have spaces, and a
  cookie of another name.
* *PasswordStorage.* Two bytes a half tell the halves apart and leave one of
  them incomplete; two users share plaintext, salt, both or neither.
* *ScopeAlgebra.* Operations are position-wise, so that three positions show
  each combination of declared and undeclared, contained and not; the highest
  one is the sign bit. Three bytes have an order; positions within a byte are
  left to the proof of `TextRoundTrip`.

`MaxNow`, `MaxVersion`, `MaxDepth`, `MaxFlags`, `MaxLayers`, `MaxStores`,
`MaxWire` and `MaxPlain` bound the state space and appear in
guards, or bound the inputs; no property depends on their value. No run disables the deadlock
check.

### Fairness

`Authentication!Fairness` is weak fairness of `StoreGet`, `CheckStored`,
`BackendGet`, `LoginSucceeds` and `LogoutSucceeds`. It says that the store and
the backend answer the calls made to them, and that the executor polls a task
that was woken. For `LoginSucceeds` it says that as long as a free id exists
all the time, login draws a free one: true with probability one for
independent 128-bit ids. There is no fairness for failures, for cancellation,
for the clock or for the handler. `CallsReturn` makes an exception for a login
while no id is free, which the loop indeed cannot leave.

`ServiceReadiness!Fairness` is strong fairness of `PollReady` for each
connection, because a permit may come and go before a waiter sees it and a
semaphore serves waiters in order; strong fairness of `Call`, because a server
that has polled a service ready calls it when a slot for the future is free;
weak fairness of the life of a future. Without `Complete` or `Cancel`
releasing permits the property fails, as its mutant shows.

## What is proved

TLAPS proves these for every value of the constants.

| Theorem | States |
|---|---|
| `MemoryStoreProofs!TypeCorrect` | `Spec => []TypeOK`, and with it that no duration handed to the cache is negative |
| `MemoryStoreProofs!DeadlinesCover` | `Spec => []DeadlineCoversExpiry` |
| `MemoryStoreProofs!NoEarlyLoss` | `Spec => []NeverForgottenEarly` |
| `MemoryStoreProofs!LockstepDeadlines`, `LockstepExpiry` | `DeadlineTracksExpiry` and `ExpiresAsDocumented` always hold: both speak of clocks in step |
| `MemoryStoreProofs!Implements` | `Spec => ImplementsContract`: MemoryStore refines the contract |
| `AuthenticationProofs!TypeCorrect` | `Spec => []TypeOK` |
| `AuthenticationProofs!HistoryTypeCorrect` | `HistorySpec => []HistoryTypeOK` |
| `AuthenticationProofs!Enclosed` | `HistorySpec => []BoundsEnclose` |
| `AuthenticationProofs!Durable` | `HistorySpec => []SessionsDurable` |
| `AuthenticationProofs!RestoredValid` | `HistorySpec => RestoredSessionValid` |
| `AuthenticationProofs!EntitledGiven` | `HistorySpec => EntitledRestored` |
| `AuthenticationProofs!RestoredFresh` | `HistorySpec => RestoredUserFresh` |
| `AuthenticationProofs!AuthorizationTypeCorrect` | `AuthorizationSpec => []AuthorizationTypeOK` |
| `AuthenticationProofs!Explained` | `AuthorizationSpec => []DecisionsExplained` |
| `AuthenticationProofs!Justified` | `AuthorizationSpec => []AuthorizationJustified` |
| `AuthenticationProofs!Agreed` | `AuthorizationSpec => DecisionsAgree` |
| `LayerConfigurationProofs!ReadinessTypes`, `PermitsDoReturn`, `AlwaysCalledReady` | `ReadinessTypeOK`, `PermitsReturn` and `CalledReady` of `ServiceReadiness` always hold |
| `LayeredServiceProofs!TypeCorrect`, `Carried`, `AlwaysEntered`, `AlwaysPassed` | `TypeOK`, `RoutesCarryGuards`, `LayersEntered` and `GuardsPassed` always hold |
| `LayeredServiceProofs!GuardsDoHold`, `ExtractorsFind`, `CurrentInnermost` | `GuardsHold`, `ExtractorsFindTheirLayers` and `CurrentIsInnermost` always hold |
| `LayerConfigurationProofs!TypeCorrect`, `KinCorrect` | `TypeOK` and `KinExplained` always hold |
| `LayerConfigurationProofs!KinShare` | `Spec => KinShareSessions` |
| `SessionCookieProofs!OneCookie`, `JarHolds`, `BrowserPresents` | `OneSessionCookie`, `JarHoldsGiven` and `BrowserPresentsSession` always hold, the last for identifiers of every size in every base |
| `PasswordStorageProofs!KeptCorrect` | `Spec => []KeptExplained` |
| `PasswordStorageProofs!AcceptsCorrectly`, `EqualCorrectly` | `Spec => AcceptsItsPlaintext`, `Spec => EqualWhenAlikeInBoth` |
| `SessionLocalProofs!TypeCorrect`, `IdleWorkersAreClean` | `TypeOK` and `IdleWorkersClean` always hold |
| `SessionLocalProofs!Implements` | `Spec => ImplementsContext`: the task-local cells refine private contexts |
| `ScopeAlgebraProofs!OnlyDeclaredBits`, `AllMeansPrimitivesAndBare` | `DeclaredBitsOnly` and `IsAllMeansPrimitivesAndBare` always hold |
| `ScopeAlgebraProofs!YieldsContained` | `Spec => []YieldsContainedFlags` |
| `ScopeAlgebraProofs!TextKeeps`, `ColumnKeeps` | `TextRoundTrip` and `ColumnRoundTrip` always hold |

*Assumptions.* Bounds and lifetime are natural numbers, expiries are natural
numbers. Closures accept scopes, and the bytes of a scope's text divide its
width. Nothing is assumed of `Ids`, `UserIds`, `Requests`, `Workers`, `Futures`,
`UserTypes`, `Providers`, `Paths` and `Permissions`.

*MemoryStore.* `NeverForgottenEarly` is not inductive: whether an entry is
hidden at its expiry depends on when it was inserted. `DeadlineCoversExpiry`
says that the session never has more time left than its entry, which each
insert establishes with equality, `Tick` keeps and `WallOnlyTick` can only
improve. In step, `DeadlineTracksExpiry` says that what is left is equal, and it
takes `mono <= wall` to see that clocks only come into step from being in step.
The refinement maps the visible entries to the contract's store: hiding an
entry as time passes is `TimePasses`, which may only forget expired records,
and that is `NeverForgottenEarly`; `Evict` is a stutter; a `Create` over an
elapsed entry is the contract's `Create`.

*Authentication.* `SessionsDurable` and `RestoredSessionValid` are not
inductive either. `BoundsEnclose` is:

* `IssuedCoversStore`: what the store could return has been issued, so a
  request that reads it finds it in its window;
* `WindowsOpen`: a restoration's window contains all that is in force now;
* `StoredExplained`: a record on its way to a request is in the request's
  window if it has not expired, and after the check of its expiry whatever the
  time. This is the conjunct that carries the record across the two awaits;
* `LogoutsForsaken`: nobody is entitled to a session whose logout is under
  way. Without it, a cancelled logout that takes effect would remove a record
  from `kept`;
* `SessionsDurable`: `kept` is in the store. With it, `create` cannot be
  accepted for an id that somebody is entitled to;
* `BaselinesPast`: the versions at a request's arrival are not later than the
  present ones;
* `RecordsDistinct`: the store has one record of an id. Without it, a lookup of
  an id that a request is entitled to could be answered by another record;
* `EntitledCarried`: what a request is entitled to is kept and unexpired, and
  either named by its cookie or on its way to the backend.

TLC checks `BoundsEnclose` in `auth_owners` as an invariant.
`RestoredSessionValid`, `EntitledRestored` and `RestoredUserFresh` are action
properties: the step that extends the extensions is `BackendGet`, whose record
is in the window by `StoredExplained`, and whose user is current, hence no older
than the baseline. `RestoredSessionValid` alone would hold of a middleware that
restores nothing; `EntitledRestored` is its other half. By `SessionsDurable` and
`RecordsDistinct` the lookup finds the entitled record, by `EntitledCarried` the
check of its expiry lets it pass and the handler is reached from `BackendGet`
only. The theorem covers every answer of the store but an error, in particular
those that race logins and failing creates of the same id.

*AuthorizedRequests.* `AuthorizationJustified` needs to know why a session is
in the extensions. `DecisionsExplained` has `WindowsInForce` (a restoration's
window is part of what was in force), `ExtensionsExplained` (a session in the
extensions joins a record that was in force with a user that was seen, both
since the request arrived) and `VerdictsCurrent` (a verdict is what the
extensions still say). The last one holds because nothing between restoration
and response writes to the extensions, and `DecisionsAgree` follows from it.
`BackendGet` is the step that extends the extensions; its record is in the
window by `StoredExplained`, so that the theorem rests on `BoundsEnclose` and
is a refinement argument in one line: every step is one of
`AuthenticationHistory` or leaves its variables alone.

*LayeredService.* `RoutesCarryGuards`: a route's layers include all guards it
is owed, by any order of wrapping, since both what wraps and what is wrapped
carry theirs. `GuardsPassed`: of the layers above a request's depth, each guard
has found a session in the extensions that is still there; one that its
authorizer accepts, unless an authentication layer of the same type lies
further in and may have replaced it. `LayersEntered`: of the same layers, each
authentication layer has left its handle, a session in the extensions has one of
its type, and each guard has one further out, since it was passed. At the handler
the depth is the number of layers, and the three together are `GuardsHold` and
`ExtractorsFindTheirLayers`. `CurrentIsInnermost` is inductive: a new context
holds at most what its layer restored, login writes to the innermost one, and a
guard opens none.

*LayerConfiguration.* What a request is answered depends on two things that
drift apart if any derivation goes wrong: which store an object refers to, and
what that store holds. `KinExplained` ties both to `kin`: an object of a kin
refers to that kin's store and no other (before a store is configured, to none
or to `Noop`), and a store holds an id exactly if its last login was through an
object of that kin and was not revoked. It is inductive, and the answer to a
`Request` follows from it in one step. A logout through another store's handle
is the interesting case: it removes nothing.

*SessionCookie.* A response's headers are nothing, a session, the application's
cookie, or both in this order (`FewHeaders`), whatever the handler wrote;
`OneSessionCookie` reads it off. What a browser makes of such a response is two
steps at most of its fold over the headers. `JarHoldsGiven` is not inductive: as
the clock moves on, what is left of a cookie's time has to be known.
`JarIsGiven` says that for the root of the host the jar holds nothing but the
cookie of the session last given, with exactly the date of that session, and
holds it until that date; `JarHoldsGiven` follows since `DateOf` is at most the
expiry and less than a second before it.

`BrowserPresentsSession` adds what the requests say and how they are read.
`JarShapes` is inductive: a cookie in the jar is the application's, one of its
sessions' or a page's, at most one of a name for a path, so a request has at most
three, each once. `TextRead` is the round trip `Decode(Text(id)) = {id}`: by
induction over the digits, the first k of them read as `id \div Weight[Width - k]`
(`NumberSteps`, `DivStep`). `PieceValue` says when a piece of a header names a
session and with which value, blanks included; `LeadAnswer` and `SecondAnswer`
apply it to the headers that a request may have, in which the deciding cookie
comes first or stands behind one of another name. The theorem then takes three
cases: a page's cookie, which comes first; a cookie of the session last given,
wherever it stands; and neither, when nothing is read (`PageFirst`, `RootAnswer`,
`EmptyAnswer`). What `Weight`, `Number` and `FlattenSeq` compute is proved from
their existence by least counterexample, as in ScopeAlgebra below.

*PasswordStorage.* `KeptExplained` is inductive: what a user has is the encoding
of the password made from its plaintext and salt, or of a proper prefix of it.
Converting a prefix is the case that matters, since a decoder refuses it and so
nothing else is ever put together. The rest is about bytes: the second half of
a password gives its salt back (`SaltOf`), the first half is a digest that tells
its inputs apart, and a salt's length is fixed, so that equal inputs have equal
plaintexts.

*SessionLocal.* `IdleWorkersClean` speaks of empty stacks only. Inductive is
`OutermostSavedNothing`: on each worker, the outermost wrapper that is being
polled has saved an empty cell, and if none is polled the cell is empty. A step
of a worker changes the slots of its innermost future, so that one needs
`PolledOnce`, that no future is on two levels, to know that it changes no other
worker's, nor any further out.

The refinement (`Implements`) maps a future to the maps that are its own
(`OwnSlots`): those in its slots while it is at rest; while it is polled, all
but the first of them, which holds what the cell held before, and in addition
what it left in the cell. That is found in the slot of the next wrapper further
in on the same stack, or in the cell if there is none. For each action the proof
shows what it does to that choice: `BeginPoll` puts the cell's content into the
slot of the future it begins, where the ones below it now find it; `EndPoll` and
`Leave` put it back; `Enter` adds a map to one future; `InsertCurrent` and
`RemoveCurrent` change the map that is innermost, which belongs to the innermost
future that has any. Everybody else's own maps stay what they were, which is
what the contract says. `OwnDefined` (every level of a stack that has a
wrapper finds a map) is the invariant that makes the mapping well defined.

*ServiceReadiness.* `PermitsReturn` is inductive with the types. `CalledReady`
needs that a future that is restoring a session holds the permit of the
instance that was moved into it.

*ScopeAlgebra.* Declared flags consist of declared bits, and set operations
keep to them; `Not` is relative to `ALL`. `TextRoundTrip` is the arithmetic of
positions, byte by byte, followed by `DeclaredBitsOnly`, without which
`from_raw` would drop bits. `YieldsContainedFlags` is inductive once the index
is known to stay inside the declaration: `NextValue` appends the one contained
flag of those that it passes, which is greater than all before it.
`ColumnRoundTrip` rests on what `Weight` and `Below` compute: that the number of
a bitmap is less than the next power, and that the quotient by a power has the
bit of that position as its last digit. These are proved over the positions by
least counterexample, a set of naturals having a least element; that the
recursive functions exist and satisfy their equations is proved the same way.

*Model-checked only.* Liveness under fairness (`CallsReturn`,
`RequestsServed`): fairness speaks of enabled actions, which the prover cannot
reason about.

## Findings

* `logout` (`authentication.rs:121`) removes whichever session is current for
  the user type, and not the one it was given. Its comment (`:112`) says
  "Revokes `session` and clears it from the session-local context." A handler
  that rotates a session, login first and then logout of the old one, is left
  without a current session. Run `auth_rotation`.

### Observations

Some sentences of the documentation hold with a qualification, and some
consequences of the code are worth knowing. The properties state them so:

* "Entries expire according to Session::expires" (`store.rs:167`): as long as
  the two clocks are in step. After the wall clock has run ahead, `get` returns
  expired sessions until the monotonic deadline (`store.rs:298`). The middleware
  checks the expiry again and does not restore them. `ExpiresAsDocumented`
  without `InStep` fails.
* "Returns true when all primitive flags are set" (`scope.rs:47`): unless a
  compound scope uses a bare position, which `is_all` (`scope.rs:432`) wants as
  well. `IsAllMeansPrimitivesAndBare` says what it means in either case; with the
  comment's meaning in place of `IsAll`, it fails. The comment of the generated
  method (`scope.rs:429`) has it right.
* "`session-local` exposes the current session through [`session::current`]"
  (`lib.rs:139`): that of the innermost authentication layer. Each layer opens
  a context of its own (`authentication.rs:350`), which hides that of a layer
  around it although a context has room for every user type, while the
  extensions keep the session of a layer further out until one of the same type
  restores another. `CurrentIsInnermost` states it.
* A guard's promise is about sessions only. Behind it, an extractor
  `Authentication<Backend, Store>` panics ("ProvideAuthenticationLayer is not
  installed", `authentication.rs:169`) if the layer that restored the session has
  another backend or another store of the same user type, the `NoopStore` of a
  layer without a store included. By `ExtractorsFindTheirLayers` it
  does not if that very layer is anywhere on the route.
* `Session`'s `IntoResponseParts` inserts its `Set-Cookie` (`session.rs:129`): a
  cookie of another name that the response already had is lost. `WriteSession`
  does the same; it is what leaves one session cookie in a response, and no
  document promises otherwise.
* A `login` whose `create` fails or is cancelled may leave a record that no
  caller knows (`authentication.rs:105`). A request that presents its id gets the
  session of the user that the login was for, so `issued` has such records; they
  take nobody's place (`SessionsDurable`) and expire.
* "`serde` enables serialization for [`Password`] and generated scopes"
  (`lib.rs:138`): the `Deserialize` of a scope asks for a borrowed `&str`
  (`scope.rs:194`), which deserializers that own their text refuse. `Password`
  reads a `String`.

## What is not modelled

* The crate's surface: re-exports and feature gates; nothing runs.
* serde's formats, and whether a deserializer lends its text.
* Formatting: `Debug` output, error messages, and the fixed attributes of the
  cookie (`Secure`, `HttpOnly`, `SameSite`), which no property depends on.
* `from_name`'s comparison of bytes: names are the flags they denote.
* SHA-256, random salts and ids, hex and base conversions beyond the order of
  their bytes, and the timing of comparisons.
* axum's routing, nesting and fallbacks: a route is a path with its layers.
* Clocks that go back. A wall clock set back would hide a session before the
  expiry it carries; `MemoryStore` reads that clock once per entry. Browser and
  server share a clock in `SessionCookie`.
* The handler's panics, which drop its future as `Cancel` does.

## Plan

A specification of sessions without tasks (issue, withdraw, restore) that
`AuthenticationHistory` implements.
