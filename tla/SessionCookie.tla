----------------------------- MODULE SessionCookie -----------------------------
(*****************************************************************************)
(* The session cookie on its way between a server and a browser: written     *)
(* into responses by Session::into_response_parts (session.rs), kept by the  *)
(* browser, and read from requests by session_id (authentication.rs).        *)
(*                                                                           *)
(* Responses are lost or overtake one another, and another program on the    *)
(* same host sets a cookie of the same name.  The instants of a cookie are   *)
(* whole seconds, those of a session are finer.  Browser and server share a  *)
(* clock.                                                                    *)
(*****************************************************************************)
EXTENDS CookieHeader

CONSTANTS
    Ids,            \* the session identifiers that are drawn (u128)
    Second,         \* instants in a second
    Lifetime,
    MaxWire,        \* bound on the responses on their way
    MaxNow          \* bound on the clock

ASSUME IdsFit == Ids \subseteq 0 .. Weight[Width] - 1
ASSUME InstantsInSecond == Second \in Nat \ {0}
ASSUME LifetimeIsTime == Lifetime \in Nat
ASSUME Bounds == MaxWire \in Nat /\ MaxNow \in Nat

VARIABLES
    now,
    sessions,       \* the sessions that logins have made
    draft,          \* the Set-Cookie headers of the response being built
    wire,           \* the responses on their way to the browser
    jar,            \* the browser's cookies
    held            \* history: the session that the browser was last given

vars == <<now, sessions, draft, wire, jar, held>>

Init ==
    /\ now = 0
    /\ sessions = {}
    /\ draft = <<>>
    /\ wire = {}
    /\ jar = {}
    /\ held = {}

Tick ==
    /\ now < MaxNow
    /\ now' = now + 1
    /\ UNCHANGED <<sessions, draft, wire, jar, held>>

-------------------------------------------------------------------------------
(* The server's responses.                                                   *)

Login(id) ==
    /\ \A s \in sessions : s.id # id
    /\ sessions' = sessions \cup {[id |-> id, expires |-> now + Lifetime]}
    /\ UNCHANGED <<now, draft, wire, jar, held>>

\* Mutant of DateOf: the fraction of a second is rounded up.
DateOfRounded(instant) == ((instant + Second - 1) \div Second) * Second

\* to_rfc2822 has no fractions of a second.
DateOf(instant) == (instant \div Second) * Second

\* The session that a Set-Cookie is `of` is history.
SetSession(s) ==
    [name |-> "session=", text |-> Text(s.id), expires |-> DateOf(s.expires), of |-> {s}]

SetOther == [name |-> "other=", text |-> <<>>, expires |-> MaxNow + 1, of |-> {}]

\* Mutant of WriteSession: the header is appended.
WriteSessionAppending(s) ==
    /\ draft' = Append(draft, SetSession(s))
    /\ Len(draft') <= 2
    /\ UNCHANGED <<now, sessions, wire, jar, held>>

\* into_response_parts, for any session that the handler has: insert takes
\* the place of all Set-Cookie headers that the response had.
WriteSession(s) ==
    /\ draft' = <<SetSession(s)>>
    /\ UNCHANGED <<now, sessions, wire, jar, held>>

\* The application appends a cookie of its own.
WriteOther ==
    /\ SetOther \notin ToSet(draft)
    /\ draft' = Append(draft, SetOther)
    /\ UNCHANGED <<now, sessions, wire, jar, held>>

Respond ==
    /\ draft # <<>>
    /\ Cardinality(wire) < MaxWire
    /\ wire' = wire \cup {draft}
    /\ draft' = <<>>
    /\ UNCHANGED <<now, sessions, jar, held>>

Lose(response) ==
    /\ response \in wire
    /\ wire' = wire \ {response}
    /\ UNCHANGED <<now, sessions, draft, jar, held>>

-------------------------------------------------------------------------------
(* The browser (external).                                                   *)

Kept(cookies, c) ==
    {k \in cookies : k.name # c.name \/ k.path # c.path}
        \cup {k \in {[name |-> c.name, path |-> c.path, text |-> c.text,
                      expires |-> c.expires]} : k.expires > now}

AtRoot(c) == [name |-> c.name, path |-> "/", text |-> c.text, expires |-> c.expires]

\* One Set-Cookie header, for path=/: the cookie replaces the one of the same
\* name and path, and if its date has passed it only removes that one.
Stored(cookies, c) == Kept(cookies, AtRoot(c))

Given(s, c) == IF c.of = {} THEN s ELSE c.of

\* A response arrives: its headers take effect in their order.
Deliver(response) ==
    /\ response \in wire
    /\ wire' = wire \ {response}
    /\ jar' = FoldLeft(Stored, jar, response)
    /\ held' = FoldLeft(Given, held, response)
    /\ UNCHANGED <<now, sessions, draft>>

\* What another program may put into a session cookie: no identifier, or one
\* in a spelling of its own.
PageText(ids) == IF ids = {} THEN <<>> ELSE <<"0x">> \o Text(Max(ids)) \o <<"blank">>

PageIds == {{}} \cup {{id} : id \in Ids}

\* Another program on the host sets a session cookie for its own pages.
Foreign ==
    /\ \E ids \in PageIds :
         jar' = Kept(jar, [name |-> "session=", path |-> "/page", text |-> PageText(ids),
                           expires |-> MaxNow + 1])
    /\ UNCHANGED <<now, sessions, draft, wire, held>>

Fresh == {c \in jar : c.expires > now}

\* The cookies of a request: those of longer paths come first.
Cookies ==
    {p \in SetToSeqs(Fresh) :
        \A j, k \in DOMAIN p : j < k => ~(p[j].path = "/" /\ p[k].path = "/page")}

Sent(c) == <<c.name>> \o c.text

\* All in one header, or one header each (HTTP/2).
Headers(cookies) ==
    LET sent == [k \in DOMAIN cookies |-> Sent(cookies[k])]
        parts == [k \in DOMAIN sent |-> (IF k = 1 THEN <<>> ELSE <<"semicolon", "blank">>) \o sent[k]]
    IN  {<<FlattenSeq(parts)>>, sent}

\* What session_id makes of the requests that the browser may send now.  They
\* change neither side.
Answers == {SessionId(headers) : headers \in UNION {Headers(cookies) : cookies \in Cookies}}

Next ==
    \/ Tick
    \/ \E id \in Ids : Login(id)
    \/ \E s \in sessions : WriteSession(s)
    \/ WriteOther \/ Respond
    \/ \E response \in wire : Lose(response) \/ Deliver(response)
    \/ Foreign

Spec == Init /\ [][Next]_vars

-------------------------------------------------------------------------------

\* A browser presents the session it was last given and no other, until at
\* most a second before it expires and never after, whichever responses were
\* lost or late.  Only a cookie of the same name for a page of the host hides
\* it: that one comes first and decides alone, well-formed or not.
BrowserPresentsSession ==
    \A answer \in Answers :
        IF \E c \in jar : c.path = "/page"
        THEN \A c \in jar, ids \in PageIds :
                 c.path = "/page" /\ c.text = PageText(ids) => answer = ids
        ELSE /\ answer \subseteq {s.id : s \in {t \in held : now < t.expires}}
             /\ \A s \in held : now + Second <= s.expires => answer = {s.id}

\* The same of the browser's jar, before it is spelt and read again: for the
\* root of the host it holds a cookie of the session last given and of no
\* other, which is dropped at most a second early and never late.
JarHoldsGiven ==
    LET root == {c \in jar : c.name = "session=" /\ c.path = "/"}
    IN  /\ \A c \in root : \E s \in held : c.text = Text(s.id) /\ c.expires <= s.expires
        /\ \A s \in held : now + Second <= s.expires =>
               \E c \in root : c.text = Text(s.id) /\ now < c.expires

\* No response sets the session twice (RFC 6265, 4.1.1), however many sessions
\* a handler has written into it.  (The price is that a cookie of another name
\* which the response has by then is lost as well.)
OneSessionCookie ==
    \A response \in wire \cup {draft} :
        Cardinality({k \in DOMAIN response : response[k].name = "session="}) <= 1

=============================================================================
